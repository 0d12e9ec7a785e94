------------------------------- MODULE Probes -------------------------------
(***************************************************************************)
(* One probe of the registry, as zp_run_probes runs it: one that looks at  *)
(* files, which others change meanwhile, or one that goes by facts of the  *)
(* host.                                                                   *)
(***************************************************************************)
EXTENDS FileProbes, FactProbes

looking == <<offline, at, stack, child, exec, past, files>>
knowing == <<host, item>>
vars == <<probe, pc, total, chain, looking, knowing>>

NoHost == [uid |-> 0]

Init ==
  \/ FileInit /\ host = NoHost /\ item = 0
  \/ /\ FactInit
     /\ offline = FALSE /\ at = 1 /\ stack = << >> /\ child = NoPath /\ exec = NoPath
     /\ past = << >>
     /\ TreeInit([d \in Dir |-> << >>], {})

Step ==
  \/ probe \in FileProbe /\ FileStep /\ UNCHANGED knowing
  \/ probe \in FactProbe /\ FactStep /\ UNCHANGED looking

OthersStep == probe \in FileProbe /\ Others /\ UNCHANGED knowing

Next == Step \/ OthersStep

(* No probe waits for anything but the file system, and the writer of a    *)
(* FIFO; once it waits for one, it makes no other step.                    *)
Spec == Init /\ [][Next]_vars
FairSpec == Spec /\ WF_vars(Step)

(* Type correctness of whichever probe it is.                              *)
TypeOK ==
  /\ probe \in FileProbe \cup FactProbe
  /\ total <= Len(chain)
  /\ probe \in FileProbe => FileTypeOK
  /\ probe \in FactProbe => FactTypeOK

(***************************************************************************)
(* What a probe that looks at files finds was there to be found.           *)
(***************************************************************************)
BorneOut == probe \in FileProbe => FindingsBorneOut

(***************************************************************************)
(* What others leave alone is judged as if nothing had changed.            *)
(***************************************************************************)
Exact == probe \in FileProbe => ExactWhereSteady

(***************************************************************************)
(* What a probe that goes by facts reports is so.                          *)
(***************************************************************************)
Facts == probe \in FactProbe => FactsExact

(***************************************************************************)
(* A probe that goes by facts yields its token where the host calls for    *)
(* it, and most of them nowhere else.                                      *)
(***************************************************************************)
Tokens == probe \in FactProbe => TokensMeant

(***************************************************************************)
(* The probe ends, whatever it is looking at is turned into, unless one of *)
(* the files it opens is a FIFO.                                           *)
(***************************************************************************)
EndsOrHeld == <>(pc \in {"done", "held"})
=============================================================================
