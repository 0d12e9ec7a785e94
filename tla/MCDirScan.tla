----------------------------- MODULE MCDirScan -----------------------------
(***************************************************************************)
(* A tree with interesting and plain files at depths 1 to 3, and a link    *)
(* that leads back up:                                                     *)
(*                                                                         *)
(*   /etc/cron/a   /etc/b   /a   /b -> /                                   *)
(*                                                                         *)
(* The three walks have the shapes of the suid probe, of world_writable    *)
(* (starts that overlap, one that does not exist) and of capabilities.     *)
(***************************************************************************)
EXTENDS DirScan

MCDir  == {"D/", "D/etc", "D/cron"}
MCFile == {"job", "passwd", "vi"}
MCLink == {"L"}
MCContents ==
  "D/"     :> ("etc" :> "D/etc" @@ "a" :> "vi" @@ "b" :> "L") @@
  "D/etc"  :> ("cron" :> "D/cron" @@ "b" :> "passwd") @@
  "D/cron" :> ("a" :> "job")
MCTarget == [l \in MCLink |-> "D/"]

Walk(starts, skip, depth, cap, twice) ==
  [starts |-> starts, skip |-> skip, maxDepth |-> depth, maxFindings |-> cap, twice |-> twice]

MCWalks ==
  { Walk(<< << >> >>, {"cron"}, 3, 2, FALSE),
    Walk(<< <<"etc">>, <<"srv">>, <<"etc", "cron">> >>, {}, 2, 4, FALSE),
    Walk(<< << >> >>, {}, 2, 3, TRUE) }
=============================================================================
