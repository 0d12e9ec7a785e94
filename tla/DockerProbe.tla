---------------------------- MODULE DockerProbe ----------------------------
(***************************************************************************)
(* The docker_socket probe: at each of three paths it looks for a socket   *)
(* and pings the daemon behind it.  Between its calls others change what   *)
(* the path names; the daemon answers in its own time, in pieces, or not   *)
(* at all, and hangs up when it likes.                                     *)
(***************************************************************************)
EXTENDS ProbeChain

CONSTANTS
  Socket, Plain, Link,  \* what a path may name: sockets, other files, links
  Target,               \* what each link points to
  Name,                 \* the names of entries
  EntryOf,              \* the entry each of SOCKET_PATHS leads to
  Setups,               \* the entries and modes at the start
  MaxChanges            \* bound: changes others make

Nothing == "nothing"
Entries == [Name -> Socket \cup Plain \cup Link \cup {Nothing}]
Modes   == [Socket -> SUBSET {"user", "world"}]

ASSUME DockerAssumption ==
  /\ Nothing \notin Socket
  /\ Target \in [Link -> Socket \cup Plain]
  /\ EntryOf \in [1 .. 3 -> Name]
  /\ \A s \in Setups : s.entry \in Entries /\ s.mode \in Modes
  /\ MaxChanges \in Nat

VARIABLES
  fits,       \* the paths short enough for the address of a socket
  sigpipe,    \* whether SIGPIPE was ignored when the program was started
  at,         \* the index of the path
  worldOpen,  \* the local variables of the loop
  reachable,
  pinged,
  conn,       \* the connection: its socket, what has arrived, hung up or not
  entry,      \* what each entry names now
  mode,       \* who may write each socket: "user" (we) and "world"
  alive,      \* the sockets a daemon listens on
  full,       \* those whose backlog has no room
  changes,    \* how many changes others have made
  past,       \* history: entry and mode before each change
  answers     \* history: what the daemons have sent: when, where and what

mine == <<probe, pc, total, chain, fits, sigpipe, at, worldOpen, reachable, pinged>>
others == <<entry, mode, alive, full, changes, past>>
vars == <<mine, conn, others, answers>>

NoConn == [socket |-> Nothing, heard |-> "", hungUp |-> FALSE]

Lstat(k) == entry[EntryOf[k]]
Stat(k)  == IF Lstat(k) \in Link THEN Target[Lstat(k)] ELSE Lstat(k)

Init ==
  /\ probe = "docker_socket" /\ pc = "lstat" /\ total = 0 /\ chain = << >>
  /\ fits \in {{}, {2}, {1, 2}, {1, 2, 3}}
  /\ sigpipe \in {"default", "ignored"}
  /\ at = 1 /\ worldOpen = FALSE /\ reachable = FALSE /\ pinged = FALSE
  /\ conn = NoConn
  /\ \E s \in Setups : entry = s.entry /\ mode = s.mode
  /\ alive = Socket /\ full = {} /\ changes = 0
  /\ past = << >> /\ answers = {}

-----------------------------------------------------------------------------

(* The next path, with the local variables not yet assigned again.         *)
NextPath ==
  /\ at' = at + 1
  /\ pc' = "lstat"
  /\ worldOpen' = FALSE /\ reachable' = FALSE /\ pinged' = FALSE

(* lstat: a link is no socket, wherever it leads.                          *)
LookAt ==
  /\ pc = "lstat" /\ at <= 3
  /\ IF Lstat(at) \in Socket
     THEN /\ worldOpen' = ("world" \in mode[Lstat(at)])
          /\ pc' = "access"
          /\ UNCHANGED <<at, reachable, pinged>>
     ELSE NextPath
  /\ UNCHANGED <<probe, total, chain, fits, sigpipe, conn, others, answers>>

(* zp_file_writable: access follows the path anew.  Files are not ours.    *)
Access ==
  /\ pc = "access"
  /\ reachable' = (Stat(at) \in Socket /\ "user" \in mode[Stat(at)])
  /\ pc' = "connect"
  /\ UNCHANGED <<probe, total, chain, fits, sigpipe, at, worldOpen, pinged, conn, others, answers>>

(* connect blocks as long as there is a daemon and its backlog is full.    *)
Accepts == at \in fits /\ Stat(at) \in alive /\ "user" \in mode[Stat(at)]
Waits   == Accepts /\ Stat(at) \in full

(* zp_socket_connect_unix.                                                 *)
Connect ==
  /\ pc = "connect" /\ ~Waits
  /\ IF Accepts
     THEN conn' = [NoConn EXCEPT !.socket = Stat(at)] /\ pc' = "write"
     ELSE conn' = NoConn /\ pc' = "grade"
  /\ UNCHANGED <<probe, total, chain, fits, sigpipe, at, worldOpen, reachable, pinged, others, answers>>

(* A failing read that leaves the descriptor open, ...                     *)
LeftOpen(c) == IF c.heard = "" THEN c ELSE NoConn

(* ... and one that closes it.                                             *)
Closed(c) == NoConn

(* write to a peer that has hung up: SIGPIPE ends the program, unless it   *)
(* is ignored; then the ping has failed.                                   *)
Write ==
  /\ pc = "write"
  /\ \/ ~conn.hungUp /\ pc' = "read" /\ UNCHANGED conn
     \/ conn.hungUp /\ sigpipe = "ignored" /\ pc' = "grade" /\ conn' = Closed(conn)
     \/ conn.hungUp /\ sigpipe = "default" /\ pc' = "killed" /\ conn' = NoConn
  /\ UNCHANGED <<probe, total, chain, fits, sigpipe, at, worldOpen, reachable, pinged, others, answers>>

(* What a read waits for: the end of the answer, ...                       *)
ReadyAtEnd == conn.hungUp

(* ... or its first bytes.                                                 *)
Ready == conn.heard # "" \/ conn.hungUp

(* Any answer taken for a good one, ...                                    *)
AnyAnswer(heard) == heard # ""

(* ... and the test for "200 OK" in what the one read returns.             *)
SaysOk(heard) == heard = "ok"

Read ==
  /\ pc = "read" /\ Ready
  /\ pinged' = SaysOk(conn.heard)
  /\ conn' = Closed(conn)
  /\ pc' = "grade"
  /\ UNCHANGED <<probe, total, chain, fits, sigpipe, at, worldOpen, reachable, others, answers>>

(* The weight and severity, the mode asked first, ...                      *)
GradeByMode(k) ==
  CASE worldOpen -> Finding("DOCK", <<k>>, 85, 3, {"docker"})
    [] ~worldOpen /\ reachable /\ pinged -> Finding("DOCK", <<k>>, 99, 4, {"docker"})
    [] OTHER -> Finding("DOCK", <<k>>, 40, 1, {"docker"})

(* ... and as it is.                                                       *)
Grade(k) ==
  CASE reachable /\ pinged -> Finding("DOCK", <<k>>, 99, 4, {"docker"})
    [] ~(reachable /\ pinged) /\ worldOpen -> Finding("DOCK", <<k>>, 85, 3, {"docker"})
    [] OTHER -> Finding("DOCK", <<k>>, 40, 1, {"docker"})

Add ==
  /\ pc = "grade"
  /\ Report(<<Grade(at)>>)
  /\ NextPath
  /\ UNCHANGED <<probe, fits, sigpipe, conn, others, answers>>

Return ==
  /\ pc = "lstat" /\ at > 3
  /\ Finish
  /\ UNCHANGED <<fits, sigpipe, at, worldOpen, reachable, pinged, conn, others, answers>>

Step == LookAt \/ Access \/ Connect \/ Write \/ Read \/ Add \/ Return

-----------------------------------------------------------------------------

(* The daemon: an answer, a good one whole or in two pieces, the second of *)
(* which may reach the buffer before the first is read.                    *)
Answer ==
  /\ pc = "read" /\ ~conn.hungUp
  /\ \E piece \in {"part", "ok", "refusal"} :
       /\ conn.heard = "" \/ (conn.heard = "part" /\ piece = "ok")
       /\ conn' = [conn EXCEPT !.heard = piece]
       /\ answers' = answers \cup
            {[time |-> Len(past) + 1, place |-> at, socket |-> conn.socket, piece |-> piece]}
  /\ UNCHANGED <<mine, others>>

HangUp ==
  /\ conn # NoConn /\ ~conn.hungUp
  /\ conn' = [conn EXCEPT !.hungUp = TRUE]
  /\ UNCHANGED <<mine, others, answers>>

Changing ==
  /\ pc \notin {"done", "killed"}
  /\ changes < MaxChanges
  /\ changes' = changes + 1
  /\ past' = Append(past, [entry |-> entry, mode |-> mode])
  /\ UNCHANGED <<mine, answers>>

(* A socket, a link or nothing takes the place of what an entry named.     *)
Replace ==
  /\ Changing
  /\ \E n \in Name, x \in Socket \cup Link \cup {Nothing} : entry' = [entry EXCEPT ![n] = x]
  /\ UNCHANGED <<mode, alive, full, conn>>

Chmod ==
  /\ Changing
  /\ \E s \in Socket, who \in {"user", "world"} : mode' = [mode EXCEPT ![s] = SymDiff(@, {who})]
  /\ UNCHANGED <<entry, alive, full, conn>>

(* A daemon ends, and all its connections with it.                         *)
Die ==
  /\ Changing
  /\ \E s \in alive :
       /\ alive' = alive \ {s} /\ full' = full \ {s}
       /\ conn' = IF conn.socket = s THEN [conn EXCEPT !.hungUp = TRUE] ELSE conn
  /\ UNCHANGED <<entry, mode>>

(* Other clients fill a backlog, or the daemon makes room.                 *)
Queue ==
  /\ Changing
  /\ \E s \in alive : full' = SymDiff(full, {s})
  /\ UNCHANGED <<entry, mode, alive, conn>>

Others == Answer \/ HangUp \/ Replace \/ Chmod \/ Die \/ Queue

Next == Step \/ Others

(* The probe goes on when it can; no daemon is obliged to do anything.     *)
Spec == Init /\ [][Next]_vars
FairSpec == Spec /\ WF_vars(Step)

-----------------------------------------------------------------------------

(* Type correctness: a descriptor is open while the daemon is talked to,   *)
(* and at no other time; each path gives at most one link.                 *)
TypeOK ==
  /\ pc \in {"lstat", "access", "connect", "write", "read", "grade", "done", "killed"}
  /\ at \in 1 .. 4
  /\ entry \in Entries /\ mode \in Modes
  /\ conn.heard \in {"", "part", "ok", "refusal"}
  /\ conn.socket \in Socket <=> pc \in {"write", "read"}
  /\ full \subseteq alive /\ alive \subseteq Socket
  /\ Len(chain) <= 3 /\ total = Len(chain)

(* The paths at each moment since the probe began.                         *)
Moment == Append(past, [entry |-> entry, mode |-> mode])
Lstats(t, k) == Moment[t].entry[EntryOf[k]]
Stats(t, k)  == IF Lstats(t, k) \in Link THEN Target[Lstats(t, k)] ELSE Lstats(t, k)

(***************************************************************************)
(* No grade is made up (docs/PROBES.md on active probing: a positive       *)
(* response confirms that the user can drive docker).  There was a socket  *)
(* at the path; HIGH means that it was world-writable, CRITICAL that we    *)
(* could then connect to a socket by that path, whose daemon sent 200 OK   *)
(* while this path was pinged.                                             *)
(***************************************************************************)
GradesBorneOut ==
  \A j \in 1 .. Len(chain) :
    LET k == chain[j].path[1] IN
    \E t, u \in 1 .. Len(Moment) :
      /\ t <= u
      /\ Lstats(t, k) \in Socket
      /\ chain[j].severity = 3 => "world" \in Moment[t].mode[Lstats(t, k)]
      /\ chain[j].severity = 4 =>
           /\ Stats(u, k) \in Socket /\ "user" \in Moment[u].mode[Stats(u, k)]
           /\ \E a \in answers :
                a.place = k /\ a.socket = Stats(u, k) /\ u <= a.time /\ a.piece = "ok"

(* What the daemon at a path has sent.                                     *)
Sent(k) == {a.piece : a \in {x \in answers : x.place = k}}

(* The links that report a path.                                           *)
Reports(k) == {j \in 1 .. Len(chain) : chain[j].path = <<k>>}

(* A path that is a socket is reported once, with the grade it deserves.   *)
Deserved(k) ==
  LET low == IF "world" \in mode[Lstat(k)] THEN 3 ELSE 1
  IN IF Lstat(k) \notin Socket THEN Reports(k) = {}
     ELSE \E j \in 1 .. Len(chain) :
            /\ Reports(k) = {j}
            /\ chain[j].severity = IF "ok" \in Sent(k) THEN 4 ELSE low

(***************************************************************************)
(* If nobody changes anything, each path that is a socket is reported      *)
(* once, so that a socket with two paths is reported twice, and graded as  *)
(* docs/PROBES.md tells: CRITICAL if the daemon has said OK before the     *)
(* one read returned, else HIGH if the socket is world-writable, else LOW. *)
(***************************************************************************)
GradeDeserved == pc = "done" /\ changes = 0 => \A k \in 1 .. 3 : Deserved(k)

(* Held up by others: by a full backlog, or by a daemon that has accepted  *)
(* and says nothing.                                                       *)
Held ==
  \/ pc = "connect" /\ Stat(at) \in full
  \/ pc = "read" /\ conn.socket \in alive /\ conn.heard = "" /\ ~conn.hungUp

(***************************************************************************)
(* The probe ends, killed by SIGPIPE if a daemon hangs up on it too early, *)
(* or is held up for ever by a daemon that is alive: none of its calls has *)
(* a timeout.                                                              *)
(***************************************************************************)
EndsOrHeld == <>(pc \in {"done", "killed"}) \/ <>[]Held
=============================================================================
