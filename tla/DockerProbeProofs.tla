-------------------------- MODULE DockerProbeProofs --------------------------
(***************************************************************************)
(* What TLC finds of DockerProbe on two sockets and one change, proved for *)
(* any sockets and any number of changes: its types, and that no grade is  *)
(* made up.                                                                *)
(***************************************************************************)
EXTENDS DockerProbe, TLAPS

Piece == {"", "part", "ok", "refusal"}
DockLink == [kind : {"DOCK"}, path : {<<k>> : k \in 1 .. 3}, weight : Nat,
             severity : {1, 3, 4}, words : {{"docker"}}]

(* Between the lstat of a path and the link that is added for it.          *)
Midway == pc \in {"access", "connect", "write", "read", "grade"}

(* The connections there may be.                                           *)
Connection == [socket : Socket \cup {Nothing}, heard : Piece, hungUp : BOOLEAN]

(* The types that TypeOK leaves open.                                      *)
Shape ==
  /\ probe = "docker_socket"
  /\ chain \in Seq(DockLink) /\ Len(chain) < at
  /\ Midway => at \in 1 .. 3
  /\ worldOpen \in BOOLEAN /\ reachable \in BOOLEAN /\ pinged \in BOOLEAN
  /\ pinged => pc = "grade"
  /\ conn \in Connection
  /\ past \in Seq([entry : Entries, mode : Modes])

(* The number of moments so far.                                           *)
Now == Len(past) + 1

(* At moment t there was a socket at path k, world-writable if w.          *)
SocketAt(t, k, w) ==
  /\ Lstats(t, k) \in Socket
  /\ w => "world" \in Moment[t].mode[Lstats(t, k)]

(* At moment u path k led to socket s and we could connect to it.          *)
OpenAt(u, k, s) ==
  /\ s \in Socket /\ Stats(u, k) = s
  /\ "user" \in Moment[u].mode[s]

(* Since moment u the daemon behind s has sent 200 OK to the ping of k.    *)
OkSince(u, k, s) ==
  \E a \in answers : a.place = k /\ a.socket = s /\ u <= a.time /\ a.piece = "ok"

(* What the calls made so far for the path show, in their order: lstat     *)
(* saw a socket; the connection, while there is one, is to what the path   *)
(* led to since; and an answer taken for a good one came over it.          *)
Shows(t, u) ==
  /\ t <= u
  /\ SocketAt(t, at, worldOpen)
  /\ pc \in {"write", "read"} =>
       OpenAt(u, at, conn.socket) /\ (conn.heard = "ok" => OkSince(u, at, conn.socket))
  /\ pinged => \E s \in Socket : OpenAt(u, at, s) /\ OkSince(u, at, s)

Support == Midway => \E t, u \in 1 .. Now : Shows(t, u)

(* The same of the links added: what a link with the grade it has rests on. *)
RestsOn(e, t, u) ==
  /\ t <= u
  /\ SocketAt(t, e.path[1], e.severity = 3)
  /\ e.severity = 4 => \E s \in Socket : OpenAt(u, e.path[1], s) /\ OkSince(u, e.path[1], s)

LinksSupported == \A j \in 1 .. Len(chain) : \E t, u \in 1 .. Now : RestsOn(chain[j], t, u)

Inv == TypeOK /\ Shape /\ Support /\ LinksSupported

-----------------------------------------------------------------------------

(* The last moment is now, the others are past.                            *)
LEMMA Moments ==
  ASSUME Shape, entry \in Entries, mode \in Modes
  PROVE  /\ Now \in Nat \ {0}
         /\ Len(Moment) = Now
         /\ \A t \in 1 .. Len(past) : Moment[t] = past[t]
         /\ Moment[Now] = [entry |-> entry, mode |-> mode]
         /\ Moment \in Seq([entry : Entries, mode : Modes])
<1> DEFINE M == [entry : Entries, mode : Modes]
           x == [entry |-> entry, mode |-> mode]
<1>1. past \in Seq(M) /\ x \in M
  BY DEF Shape
<1> HIDE DEF M, x
<1>2. Append(past, x) \in Seq(M) /\ Len(Append(past, x)) = Len(past) + 1
      /\ Append(past, x)[Len(past) + 1] = x
      /\ \A t \in 1 .. Len(past) : Append(past, x)[t] = past[t]
  BY <1>1
<1>3. QED
  BY <1>1, <1>2 DEF Moment, Now, M, x

(* A link points where Target says, any other entry is what it is.         *)
LEMMA PresentMoment ==
  ASSUME Shape, entry \in Entries, mode \in Modes, NEW k \in 1 .. 3
  PROVE  /\ Lstats(Now, k) = Lstat(k)
         /\ Stats(Now, k) = Stat(k)
         /\ Moment[Now].mode = mode
  BY Moments, DockerAssumption DEF DockerAssumption, Lstats, Stats, Lstat, Stat

-----------------------------------------------------------------------------

(* The types hold at the start.                                            *)
LEMMA InitTypes == Init => TypeOK /\ Shape
<1> SUFFICES ASSUME Init PROVE TypeOK /\ Shape
  OBVIOUS
<1>1. entry \in Entries /\ mode \in Modes
  BY DockerAssumption DEF Init, DockerAssumption
<1>2. conn = [socket |-> Nothing, heard |-> "", hungUp |-> FALSE]
  BY DEF Init, NoConn
<1>3. /\ conn \in Connection
      /\ conn.heard = "" /\ conn.socket \notin Socket
  BY <1>2, DockerAssumption DEF Connection, Piece, DockerAssumption
<1>4. /\ probe = "docker_socket" /\ pc = "lstat" /\ total = 0 /\ at = 1
      /\ worldOpen = FALSE /\ reachable = FALSE /\ pinged = FALSE
      /\ alive = Socket /\ full = {}
  BY DEF Init
<1>5. chain = << >> /\ Len(chain) = 0 /\ past = << >>
  BY DEF Init
<1>6. chain \in Seq(DockLink) /\ past \in Seq([entry : Entries, mode : Modes])
  BY <1>5
<1>7. at \in 1 .. 4 /\ total = Len(chain) /\ Len(chain) <= 3 /\ Len(chain) < at
  BY <1>4, <1>5
<1>8. TypeOK
  BY <1>1, <1>3, <1>4, <1>7, Zenon DEF TypeOK
<1>9. Shape
  BY <1>3, <1>4, <1>6, <1>7, Zenon DEF Shape, Midway
<1>10. QED
  BY <1>8, <1>9

-----------------------------------------------------------------------------

(* Where there is no connection there is no socket.                        *)
LEMMA NoConnection == NoConn \in Connection /\ NoConn.heard = "" /\ NoConn.socket \notin Socket
  BY DockerAssumption DEF NoConn, Connection, Piece, DockerAssumption

(* The probe touches nothing of what belongs to others.                    *)
LEMMA StepLeavesOthers == Step => UNCHANGED others
  BY DEF Step, LookAt, Access, Connect, Write, Read, Add, Return

(* Each step of the probe keeps the types.                                 *)
LEMMA StepTypes ==
  ASSUME TypeOK, Shape, Step
  PROVE  TypeOK' /\ Shape'
<1>1. /\ UNCHANGED <<entry, mode, alive, full, past>>
      /\ entry \in Entries /\ mode \in Modes /\ full \subseteq alive /\ alive \subseteq Socket
      /\ past \in Seq([entry : Entries, mode : Modes])
  BY StepLeavesOthers DEF others, TypeOK, Shape
<1>2. /\ conn \in Connection /\ conn.heard \in Piece
      /\ conn.socket \in Socket <=> pc \in {"write", "read"}
  BY DEF TypeOK, Shape, Connection, Piece
<1>3. /\ probe = "docker_socket" /\ total = Len(chain) /\ Len(chain) < at
      /\ chain \in Seq(DockLink) /\ at \in 1 .. 4
      /\ Midway => at \in 1 .. 3
  BY DEF TypeOK, Shape
<1>4. worldOpen \in BOOLEAN /\ reachable \in BOOLEAN /\ pinged \in BOOLEAN /\ (pinged => pc = "grade")
  BY DEF Shape
<1> DEFINE Chains == /\ total' = Len(chain') /\ Len(chain') < at' /\ Len(chain') <= 3
                     /\ chain' \in Seq(DockLink) /\ at' \in 1 .. 4
                     /\ Midway' => at' \in 1 .. 3
           Conns == /\ conn' \in Connection /\ conn'.heard \in Piece
                    /\ conn'.socket \in Socket <=> pc' \in {"write", "read"}
           Locals == /\ probe' = probe
                     /\ pc' \in {"lstat", "access", "connect", "write", "read", "grade",
                                 "done", "killed"}
                     /\ worldOpen' \in BOOLEAN /\ reachable' \in BOOLEAN /\ pinged' \in BOOLEAN
                     /\ pinged' => pc' = "grade"
<1>5. SUFFICES Chains /\ Conns /\ Locals
  BY <1>1, <1>3, Zenon DEF TypeOK, Shape, Connection, Piece
<1>6. CASE LookAt
  <2>1. CASE Lstat(at) \in Socket
    <3>1. /\ UNCHANGED <<probe, total, chain, at, conn, reachable, pinged>> /\ at \in 1 .. 3
          /\ pc = "lstat" /\ pc' = "access"
          /\ worldOpen' \in BOOLEAN
      BY <1>3, <1>6, <2>1 DEF LookAt
    <3>2. Chains
      BY <1>3, <3>1 DEF Midway
    <3>3. Conns /\ Locals
      BY <1>2, <1>4, <3>1, Zenon
    <3>4. QED
      BY <3>2, <3>3
  <2>2. CASE Lstat(at) \notin Socket
    <3>1. /\ UNCHANGED <<probe, total, chain, conn>> /\ at \in 1 .. 3
          /\ pc = "lstat" /\ pc' = "lstat" /\ at' = at + 1
          /\ worldOpen' = FALSE /\ reachable' = FALSE /\ pinged' = FALSE
      BY <1>3, <1>6, <2>2 DEF LookAt, NextPath
    <3>2. Chains
      BY <1>3, <3>1 DEF Midway
    <3>3. Conns /\ Locals
      BY <1>2, <1>4, <3>1, Zenon
    <3>4. QED
      BY <3>2, <3>3
  <2>3. QED
    BY <2>1, <2>2
<1>7. ASSUME Midway, UNCHANGED <<total, chain, at>>
      PROVE  Chains
  <2>1. at \in 1 .. 3 /\ Len(chain) <= 3
    BY <1>3, <1>7
  <2>2. QED
    BY <1>3, <1>7, <2>1
<1>8. CASE Access
  <2>1. /\ pc = "access" /\ pc' = "connect"
        /\ UNCHANGED <<probe, total, chain, at, conn, worldOpen, pinged>>
        /\ reachable' \in BOOLEAN
    BY <1>8 DEF Access
  <2>2. Conns /\ Locals
    BY <1>2, <1>4, <2>1, Zenon
  <2>3. QED
    BY <1>7, <2>1, <2>2 DEF Midway
<1>9. CASE Connect
  <2>1. pc = "connect" /\ UNCHANGED <<probe, total, chain, at, worldOpen, reachable, pinged>>
    BY <1>9 DEF Connect
  <2>2. CASE Accepts
    <3>1. pc' = "write" /\ conn' = [NoConn EXCEPT !.socket = Stat(at)] /\ Stat(at) \in Socket
      BY <1>1, <1>9, <2>2 DEF Connect, Accepts
    <3>2. conn' \in Connection /\ conn'.heard \in Piece /\ conn'.socket \in Socket
      BY <3>1 DEF NoConn, Connection, Piece
    <3>3. QED
      BY <1>4, <1>7, <2>1, <3>1, <3>2, Zenon DEF Midway
  <2>3. CASE ~Accepts
    <3>1. pc' = "grade" /\ conn' = NoConn
      BY <1>9, <2>3 DEF Connect
    <3>2. QED
      BY <1>4, <1>7, <2>1, <3>1, NoConnection, Zenon DEF Midway, Piece
  <2>4. QED
    BY <2>2, <2>3
<1>10. CASE Write
  <2>1. /\ pc = "write" /\ UNCHANGED <<probe, total, chain, at, worldOpen, reachable, pinged>>
        /\ \/ pc' = "read" /\ conn' = conn
           \/ pc' \in {"grade", "killed"} /\ conn' = NoConn
    BY <1>10 DEF Write, Closed
  <2>2. QED
    BY <1>2, <1>4, <1>7, <2>1, NoConnection, Zenon DEF Midway, Piece
<1>11. CASE Read
  <2>1. /\ pc = "read" /\ pc' = "grade" /\ conn' = NoConn
        /\ UNCHANGED <<probe, total, chain, at, worldOpen, reachable>>
        /\ pinged' \in BOOLEAN
    BY <1>11 DEF Read, SaysOk, Closed
  <2>2. QED
    BY <1>4, <1>7, <2>1, NoConnection, Zenon DEF Midway, Piece
<1>12. CASE Add
  <2>1. /\ pc = "grade" /\ pc' = "lstat" /\ at' = at + 1
        /\ UNCHANGED <<probe, conn>>
        /\ worldOpen' = FALSE /\ reachable' = FALSE /\ pinged' = FALSE
        /\ chain' = chain \o <<Grade(at)>> /\ total' = total + Len(<<Grade(at)>>)
    BY <1>12 DEF Add, NextPath, Report
  <2>2. at \in 1 .. 3
    BY <1>3, <2>1 DEF Midway
  <2>3. Grade(at) \in DockLink
    BY <2>2 DEF Grade, Finding, DockLink
  <2>4. chain' \in Seq(DockLink) /\ Len(chain') = Len(chain) + 1 /\ total' = total + 1
    BY <1>3, <2>1, <2>3
  <2>5. Chains
    BY <1>3, <2>1, <2>2, <2>4 DEF Midway
  <2>6. Conns /\ Locals
    BY <1>2, <2>1, Zenon
  <2>7. QED
    BY <2>5, <2>6
<1>13. CASE Return
  <2>1. /\ pc = "lstat" /\ pc' = "done"
        /\ UNCHANGED <<probe, total, chain, at, conn, worldOpen, reachable, pinged>>
    BY <1>3, <1>13 DEF Return, Finish, Close, HasClean
  <2>2. Chains
    BY <1>3, <2>1 DEF Midway
  <2>3. Conns /\ Locals
    BY <1>2, <1>4, <2>1, Zenon
  <2>4. QED
    BY <2>2, <2>3
<1>14. QED
  BY <1>6, <1>8, <1>9, <1>10, <1>11, <1>12, <1>13 DEF Step

(* What others do keeps the types, and adds at most a moment.              *)
LEMMA OthersTypes ==
  ASSUME TypeOK, Shape, Others
  PROVE  TypeOK' /\ Shape'
<1>1. UNCHANGED mine
  BY DEF Others, Answer, HangUp, Replace, Chmod, Die, Queue, Changing
<1>2. /\ conn \in Connection /\ conn.heard \in Piece
      /\ conn.socket \in Socket <=> pc \in {"write", "read"}
      /\ entry \in Entries /\ mode \in Modes /\ full \subseteq alive /\ alive \subseteq Socket
      /\ past \in Seq([entry : Entries, mode : Modes])
  BY DEF TypeOK, Shape, Connection, Piece
<1>3. SUFFICES
        /\ conn' \in Connection /\ conn'.heard \in Piece /\ conn'.socket = conn.socket
        /\ entry' \in Entries /\ mode' \in Modes /\ full' \subseteq alive' /\ alive' \subseteq Socket
        /\ past' \in Seq([entry : Entries, mode : Modes])
  BY <1>1, <1>2, Zenon DEF TypeOK, Shape, Midway, Connection, Piece, mine
<1>4. [entry |-> entry, mode |-> mode] \in [entry : Entries, mode : Modes]
  BY <1>2
<1>5. Changing => past' \in Seq([entry : Entries, mode : Modes])
  BY <1>2, <1>4 DEF Changing
<1>6. CASE Answer
  <2>1. /\ UNCHANGED others
        /\ \E p \in {"part", "ok", "refusal"} : conn' = [conn EXCEPT !.heard = p]
    BY <1>6 DEF Answer
  <2>2. QED
    BY <1>2, <2>1 DEF others, Connection, Piece
<1>7. CASE HangUp
  <2>1. UNCHANGED others /\ conn' = [conn EXCEPT !.hungUp = TRUE]
    BY <1>7 DEF HangUp
  <2>2. QED
    BY <1>2, <2>1 DEF others, Connection, Piece
<1>8. CASE Replace
  <2>1. entry' \in Entries
    BY <1>2, <1>8 DEF Replace, Entries
  <2>2. QED
    BY <1>2, <1>5, <1>8, <2>1 DEF Replace
<1>9. CASE Chmod
  <2>1. mode' \in Modes
    BY <1>2, <1>9 DEF Chmod, Modes, SymDiff
  <2>2. QED
    BY <1>2, <1>5, <1>9, <2>1 DEF Chmod
<1>10. CASE Die
  <2>1. PICK s \in alive :
          /\ alive' = alive \ {s} /\ full' = full \ {s}
          /\ conn' = IF conn.socket = s THEN [conn EXCEPT !.hungUp = TRUE] ELSE conn
    BY <1>10 DEF Die
  <2>2. conn' \in Connection /\ conn'.heard \in Piece /\ conn'.socket = conn.socket
    BY <1>2, <2>1 DEF Connection, Piece
  <2>3. QED
    BY <1>2, <1>5, <1>10, <2>1, <2>2 DEF Die
<1>11. CASE Queue
  <2>1. full' \subseteq alive'
    BY <1>2, <1>11 DEF Queue, SymDiff
  <2>2. QED
    BY <1>2, <1>5, <1>11, <2>1 DEF Queue
<1>12. QED
  BY <1>6, <1>7, <1>8, <1>9, <1>10, <1>11 DEF Others

-----------------------------------------------------------------------------

(* The moments and answers of the past stay what they were.                *)
LEMMA HistoryKept ==
  ASSUME TypeOK, Shape, TypeOK', Shape', [Next]_vars
  PROVE  /\ Now \in Nat /\ Now' \in Nat /\ Now <= Now'
         /\ \A t \in 1 .. Now : Moment'[t] = Moment[t]
         /\ answers \subseteq answers'
<1> DEFINE x == [entry |-> entry, mode |-> mode]
<1>1. \/ UNCHANGED <<entry, mode, past>> /\ answers \subseteq answers'
      \/ past' = Append(past, x) /\ answers' = answers
  <2>1. CASE Step
    BY <2>1, StepLeavesOthers DEF Step, LookAt, Access, Connect, Write, Read, Add, Return, others
  <2>2. CASE Answer \/ HangUp
    BY <2>2 DEF Answer, HangUp, others
  <2>3. CASE Replace \/ Chmod \/ Die \/ Queue
    BY <2>3 DEF Replace, Chmod, Die, Queue, Changing
  <2>4. CASE UNCHANGED vars
    BY <2>4 DEF vars, others
  <2>5. QED
    BY <2>1, <2>2, <2>3, <2>4 DEF Next, Others
<1>2. /\ Now \in Nat \ {0} /\ \A t \in 1 .. Len(past) : Moment[t] = past[t]
      /\ Moment[Now] = x
  BY Moments DEF TypeOK
<1>3. CASE UNCHANGED <<entry, mode, past>> /\ answers \subseteq answers'
  BY <1>2, <1>3 DEF Moment, Now
<1>4. CASE past' = Append(past, x) /\ answers' = answers
  <2>1. /\ Now' \in Nat \ {0} /\ \A t \in 1 .. Len(past') : Moment'[t] = past'[t]
    <3>1. entry' \in Entries /\ mode' \in Modes
      BY DEF TypeOK
    <3>2. past' \in Seq([entry : Entries, mode : Modes])
      BY DEF Shape
    <3>3. QED
      BY <3>1, <3>2 DEF Moment, Now
  <2>2. x \in [entry : Entries, mode : Modes] /\ past \in Seq([entry : Entries, mode : Modes])
    BY DEF TypeOK, Shape
  <2> HIDE DEF x
  <2>3. /\ Len(past') = Len(past) + 1 /\ past'[Len(past) + 1] = x
        /\ \A t \in 1 .. Len(past) : past'[t] = past[t]
    BY <1>4, <2>2
  <2>4. QED
    BY <1>2, <1>4, <2>1, <2>3 DEF Now
<1>5. QED
  BY <1>1, <1>3, <1>4

(* So what was once shown stays shown.                                     *)
LEMMA ShownStays ==
  ASSUME TypeOK, Shape, TypeOK', Shape', [Next]_vars,
         NEW t \in 1 .. Now, NEW u \in 1 .. Now, NEW k, NEW w, NEW s
  PROVE  /\ t \in 1 .. Now' /\ u \in 1 .. Now'
         /\ SocketAt(t, k, w) => SocketAt(t, k, w)'
         /\ OpenAt(u, k, s) => OpenAt(u, k, s)'
         /\ OkSince(u, k, s) => OkSince(u, k, s)'
<1>1. /\ Now \in Nat /\ Now' \in Nat /\ Now <= Now'
      /\ Moment'[t] = Moment[t] /\ Moment'[u] = Moment[u]
      /\ answers \subseteq answers'
  BY HistoryKept
<1>2. t \in 1 .. Now' /\ u \in 1 .. Now'
  BY <1>1
<1>3. SocketAt(t, k, w) => SocketAt(t, k, w)'
  BY <1>1, Zenon DEF SocketAt, Lstats
<1>4. OpenAt(u, k, s) => OpenAt(u, k, s)'
  BY <1>1, Zenon DEF OpenAt, Stats, Lstats
<1>5. OkSince(u, k, s) => OkSince(u, k, s)'
  BY <1>1, Zenon DEF OkSince
<1>6. QED
  BY <1>2, <1>3, <1>4, <1>5

-----------------------------------------------------------------------------

(* Every step leaves enough shown for what the probe believes.             *)
LEMMA SupportKept ==
  ASSUME TypeOK, Shape, TypeOK', Shape', Support, [Next]_vars
  PROVE  Support'
<1>1. SUFFICES ASSUME Midway' PROVE \E t, u \in 1 .. Now' : Shows(t, u)'
  BY DEF Support
<1>2. Now \in Nat \ {0} /\ Now' \in Nat
  BY HistoryKept, Moments DEF TypeOK
<1>3. pinged => pc = "grade"
  BY DEF Shape
<1>4. CASE LookAt
  <2>1. /\ pc = "lstat" /\ at \in 1 .. 3 /\ at' = at
        /\ Lstat(at) \in Socket /\ pc' = "access"
        /\ worldOpen' = ("world" \in mode[Lstat(at)]) /\ pinged' = pinged
    <3>1. Lstat(at) \in Socket
      BY <1>1, <1>4 DEF LookAt, NextPath, Midway
    <3>2. at \in 1 .. 3
      <4>1. at \in 1 .. 4 /\ at <= 3
        BY <1>4 DEF LookAt, TypeOK
      <4>2. QED
        BY <4>1
    <3>3. QED
      BY <1>4, <3>1, <3>2 DEF LookAt
  <2>2. PICK k \in 1 .. 3 : k = at
    BY <2>1
  <2>3. Lstats(Now, k) = Lstat(k) /\ Moment[Now].mode = mode
    BY PresentMoment DEF TypeOK
  <2>4. SocketAt(Now, k, worldOpen')
    BY <2>1, <2>2, <2>3, Zenon DEF SocketAt
  <2>5. PICK n, w : n = Now /\ w = worldOpen'
    OBVIOUS
  <2>6. n \in 1 .. Now /\ n <= n
    BY <1>2, <2>5
  <2>7. n \in 1 .. Now' /\ SocketAt(n, k, w)'
    BY <2>4, <2>5, <2>6, ShownStays
  <2>8. Shows(n, n)'
    BY <1>3, <2>1, <2>2, <2>5, <2>6, <2>7, Zenon DEF Shows
  <2>9. QED
    BY <2>7, <2>8
<1>5. ASSUME Midway
      PROVE  \E t, u \in 1 .. Now : Shows(t, u)
  BY <1>5 DEF Support
<1>6. CASE Access
  <2>1. Midway /\ pc = "access" /\ pc' = "connect" /\ UNCHANGED <<at, worldOpen, pinged>>
    BY <1>6 DEF Access, Midway
  <2>2. PICK t \in 1 .. Now, u \in 1 .. Now : Shows(t, u)
    BY <1>5, <2>1
  <2>3. PICK k, w : k = at /\ w = worldOpen
    OBVIOUS
  <2>4. t \in 1 .. Now' /\ u \in 1 .. Now' /\ SocketAt(t, k, w)'
    BY <2>2, <2>3, ShownStays DEF Shows
  <2>5. Shows(t, u)'
    BY <1>3, <2>1, <2>2, <2>3, <2>4, Zenon DEF Shows
  <2>6. QED
    BY <2>4, <2>5
<1>7. CASE Connect
  <2>1. Midway /\ pc = "connect" /\ UNCHANGED <<at, worldOpen, pinged>> /\ at \in 1 .. 3
    BY <1>7 DEF Connect, Midway, Shape
  <2>2. PICK t \in 1 .. Now, u \in 1 .. Now : Shows(t, u)
    BY <1>5, <2>1
  <2>3. PICK k, w, n : k \in 1 .. 3 /\ k = at /\ w = worldOpen /\ n = Now
    BY <2>1
  <2>4. n \in 1 .. Now /\ t <= n
    BY <1>2, <2>3
  <2>5. t \in 1 .. Now' /\ n \in 1 .. Now' /\ SocketAt(t, k, w)'
    BY <2>2, <2>3, <2>4, ShownStays DEF Shows
  <2>6. CASE Accepts
    <3>1. pc' = "write" /\ conn' = [NoConn EXCEPT !.socket = Stat(at)]
      BY <1>7, <2>6 DEF Connect
    <3>2. PICK s : s = Stat(at)
      OBVIOUS
    <3>3. conn'.socket = s /\ conn'.heard = ""
      BY <3>1, <3>2 DEF NoConn
    <3>4. OpenAt(n, k, s)
      <4>1. s \in Socket /\ "user" \in mode[s]
        BY <2>6, <3>2 DEF Accepts, TypeOK
      <4>2. Stats(Now, k) = Stat(k) /\ Moment[Now].mode = mode
        BY <2>3, PresentMoment DEF TypeOK
      <4>3. QED
        BY <2>3, <3>2, <4>1, <4>2, Zenon DEF OpenAt
    <3>5. OpenAt(n, k, s)'
      BY <2>4, <3>4, ShownStays
    <3>6. Shows(t, n)'
      BY <1>3, <2>1, <2>3, <2>4, <2>5, <3>1, <3>3, <3>5, Zenon DEF Shows
    <3>7. QED
      BY <2>5, <3>6
  <2>7. CASE ~Accepts
    <3>1. pc' = "grade"
      BY <1>7, <2>7 DEF Connect
    <3>2. Shows(t, n)'
      BY <1>3, <2>1, <2>3, <2>4, <2>5, <3>1, Zenon DEF Shows
    <3>3. QED
      BY <2>5, <3>2
  <2>8. QED
    BY <2>6, <2>7
<1>8. CASE Write
  <2>1. /\ Midway /\ pc = "write" /\ UNCHANGED <<at, worldOpen, pinged>>
        /\ pc' = "grade" \/ (pc' = "read" /\ conn' = conn)
    BY <1>1, <1>8 DEF Write, Midway
  <2>2. PICK t \in 1 .. Now, u \in 1 .. Now : Shows(t, u)
    BY <1>5, <2>1
  <2>3. PICK k, w, s : k = at /\ w = worldOpen /\ s = conn.socket
    OBVIOUS
  <2>4. OpenAt(u, k, s) /\ (conn.heard = "ok" => OkSince(u, k, s)) /\ t <= u
    BY <2>1, <2>2, <2>3 DEF Shows
  <2>5. /\ t \in 1 .. Now' /\ u \in 1 .. Now' /\ SocketAt(t, k, w)' /\ OpenAt(u, k, s)'
        /\ conn.heard = "ok" => OkSince(u, k, s)'
    BY <2>2, <2>3, <2>4, ShownStays DEF Shows
  <2>6. Shows(t, u)'
    BY <1>3, <2>1, <2>3, <2>4, <2>5, Zenon DEF Shows
  <2>7. QED
    BY <2>5, <2>6
<1>9. CASE Read
  <2>1. /\ Midway /\ pc = "read" /\ pc' = "grade" /\ UNCHANGED <<at, worldOpen>>
        /\ pinged' = (conn.heard = "ok")
    BY <1>9 DEF Read, Midway, SaysOk
  <2>2. PICK t \in 1 .. Now, u \in 1 .. Now : Shows(t, u)
    BY <1>5, <2>1
  <2>3. PICK k, w, s : k = at /\ w = worldOpen /\ s = conn.socket
    OBVIOUS
  <2>4. OpenAt(u, k, s) /\ (conn.heard = "ok" => OkSince(u, k, s)) /\ t <= u
    BY <2>1, <2>2, <2>3 DEF Shows
  <2>5. /\ t \in 1 .. Now' /\ u \in 1 .. Now' /\ SocketAt(t, k, w)' /\ OpenAt(u, k, s)'
        /\ conn.heard = "ok" => OkSince(u, k, s)'
    BY <2>2, <2>3, <2>4, ShownStays DEF Shows
  <2>6. s \in Socket
    BY <2>4 DEF OpenAt
  <2>7. Shows(t, u)'
    BY <2>1, <2>3, <2>4, <2>5, <2>6, Zenon DEF Shows
  <2>8. QED
    BY <2>5, <2>7
<1>10. CASE Add \/ Return
  BY <1>1, <1>10 DEF Add, Return, NextPath, Finish, Midway
<1>11. CASE Answer
  <2>1. /\ Midway /\ pc = "read" /\ UNCHANGED <<pc, at, worldOpen, pinged>>
    BY <1>11 DEF Answer, mine, Midway
  <2>2. PICK t \in 1 .. Now, u \in 1 .. Now : Shows(t, u)
    BY <1>5, <2>1
  <2>3. PICK k, w, s : k = at /\ w = worldOpen /\ s = conn.socket
    OBVIOUS
  <2>4. OpenAt(u, k, s) /\ t <= u
    BY <2>1, <2>2, <2>3 DEF Shows
  <2>5. t \in 1 .. Now' /\ u \in 1 .. Now' /\ SocketAt(t, k, w)' /\ OpenAt(u, k, s)'
    BY <2>2, <2>3, <2>4, ShownStays DEF Shows
  <2>6. PICK p \in {"part", "ok", "refusal"} :
          /\ conn' = [conn EXCEPT !.heard = p]
          /\ answers' = answers \cup
               {[time |-> Len(past) + 1, place |-> at, socket |-> conn.socket, piece |-> p]}
    BY <1>11 DEF Answer
  <2>7. conn'.heard = p /\ conn'.socket = s
    BY <2>3, <2>6 DEF Shape, Connection
  <2>8. p = "ok" => OkSince(u, k, s)'
    <3>1. u <= Len(past) + 1
      BY <1>2 DEF Now
    <3>2. PICK a : a = [time |-> Len(past) + 1, place |-> at, socket |-> conn.socket, piece |-> p]
      OBVIOUS
    <3>3. a \in answers'
      BY <2>6, <3>2
    <3>4. a.place = k /\ a.socket = s /\ u <= a.time /\ a.piece = p
      BY <2>3, <3>1, <3>2
    <3>5. QED
      BY <3>3, <3>4, Zenon DEF OkSince
  <2>9. Shows(t, u)'
    BY <1>3, <2>1, <2>3, <2>4, <2>5, <2>7, <2>8, Zenon DEF Shows
  <2>10. QED
    BY <2>5, <2>9
<1>12. CASE HangUp \/ Replace \/ Chmod \/ Die \/ Queue \/ UNCHANGED vars
  <2>1. /\ UNCHANGED <<pc, at, worldOpen, pinged>>
        /\ conn'.socket = conn.socket /\ conn'.heard = conn.heard
    BY <1>12 DEF HangUp, Replace, Chmod, Die, Queue, Changing, vars, mine, Shape, Connection
  <2>2. PICK t \in 1 .. Now, u \in 1 .. Now : Shows(t, u)
    BY <1>1, <1>5, <2>1 DEF Midway
  <2>3. PICK k, w, s : k = at /\ w = worldOpen /\ s = conn.socket
    OBVIOUS
  <2>4. t \in 1 .. Now' /\ u \in 1 .. Now' /\ SocketAt(t, k, w)' /\ t <= u
    BY <2>2, <2>3, ShownStays DEF Shows
  <2>5. pc \in {"write", "read"} => OpenAt(u, k, s)' /\ (conn.heard = "ok" => OkSince(u, k, s)')
    BY <2>2, <2>3, ShownStays DEF Shows
  <2>6. pinged => \E r \in Socket : OpenAt(u, k, r)' /\ OkSince(u, k, r)'
    BY <2>2, <2>3, ShownStays DEF Shows
  <2>7. Shows(t, u)'
    BY <2>1, <2>3, <2>4, <2>5, <2>6, Zenon DEF Shows
  <2>8. QED
    BY <2>4, <2>7
<1>13. QED
  BY <1>4, <1>6, <1>7, <1>8, <1>9, <1>10, <1>11, <1>12 DEF Next, Step, Others

(* What a link rests on stays shown.                                       *)
LEMMA RestStays ==
  ASSUME TypeOK, Shape, TypeOK', Shape', [Next]_vars,
         NEW t \in 1 .. Now, NEW u \in 1 .. Now, NEW e, RestsOn(e, t, u)
  PROVE  t \in 1 .. Now' /\ u \in 1 .. Now' /\ RestsOn(e, t, u)'
<1> DEFINE k == e.path[1]
           w == e.severity = 3
<1>1. t <= u /\ SocketAt(t, k, w)
  BY DEF RestsOn
<1>2. e.severity = 4 => \E s \in Socket : OpenAt(u, k, s) /\ OkSince(u, k, s)
  BY DEF RestsOn
<1> HIDE DEF k, w
<1>3. t \in 1 .. Now' /\ u \in 1 .. Now' /\ SocketAt(t, k, w)'
  BY <1>1, ShownStays
<1>4. e.severity = 4 => \E s \in Socket : OpenAt(u, k, s)' /\ OkSince(u, k, s)'
  BY <1>2, ShownStays
<1>5. QED
  BY <1>1, <1>3, <1>4, Zenon DEF RestsOn, k, w

(* A link is added with the grade that has been shown.                     *)
LEMMA LinksKept ==
  ASSUME TypeOK, Shape, TypeOK', Shape', Support, LinksSupported, [Next]_vars
  PROVE  LinksSupported'
<1>1. ASSUME NEW j \in 1 .. Len(chain), NEW e, e = chain[j]
      PROVE  \E t, u \in 1 .. Now' : RestsOn(e, t, u)'
  BY <1>1, RestStays DEF LinksSupported
<1>2. CASE chain' = chain
  <2>1. SUFFICES ASSUME NEW j \in 1 .. Len(chain)
                 PROVE  \E t, u \in 1 .. Now' : RestsOn(chain[j], t, u)'
    BY <1>2 DEF LinksSupported
  <2>2. PICK e : e = chain[j]
    OBVIOUS
  <2>3. chain'[j] = e
    BY <1>2, <2>2
  <2>4. PICK t \in 1 .. Now', u \in 1 .. Now' : RestsOn(e, t, u)'
    BY <1>1, <2>2
  <2>5. RestsOn(chain[j], t, u)'
    BY <2>3, <2>4, Zenon DEF RestsOn
  <2>6. QED
    BY <2>5
<1>3. CASE Add
  <2>1. /\ Midway /\ pc = "grade" /\ at \in 1 .. 3
        /\ chain' = chain \o <<Grade(at)>> /\ chain \in Seq(DockLink)
    BY <1>3 DEF Add, Report, Midway, Shape
  <2>2. PICK t \in 1 .. Now, u \in 1 .. Now : Shows(t, u)
    BY <2>1 DEF Support
  <2>3. PICK e : e = Grade(at)
    OBVIOUS
  <2>4. /\ e.path[1] = at
        /\ e.severity = 3 => worldOpen
        /\ e.severity = 4 => pinged
    BY <2>3 DEF Grade, Finding
  <2>5. RestsOn(e, t, u)
    BY <2>2, <2>4, Zenon DEF Shows, RestsOn, SocketAt
  <2>6. \E v, x \in 1 .. Now' : RestsOn(e, v, x)'
    BY <2>5, RestStays
  <2>7. /\ Len(chain') = Len(chain) + 1 /\ chain'[Len(chain) + 1] = e
        /\ \A j \in 1 .. Len(chain) : chain'[j] = chain[j]
    BY <2>1, <2>3
  <2>8. SUFFICES ASSUME NEW j \in 1 .. Len(chain) + 1
                 PROVE  \E v, x \in 1 .. Now' : RestsOn(chain[j], v, x)'
    BY <2>7 DEF LinksSupported
  <2>9. PICK f : f = chain'[j]
    OBVIOUS
  <2>10. \E v, x \in 1 .. Now' : RestsOn(f, v, x)'
    <3>1. CASE j \in 1 .. Len(chain)
      BY <1>1, <2>7, <2>9, <3>1
    <3>2. CASE j = Len(chain) + 1
      BY <2>6, <2>7, <2>9, <3>2
    <3>3. QED
      BY <2>1, <3>1, <3>2
  <2>11. QED
    BY <2>9, <2>10, Zenon DEF RestsOn
<1>4. chain' = chain \/ Add
  <2>1. CASE Step
    BY <2>1 DEF Step, LookAt, Access, Connect, Write, Read, Return, Finish, Close, HasClean, Shape
  <2>2. CASE Others \/ UNCHANGED vars
    BY <2>2 DEF Others, Answer, HangUp, Replace, Chmod, Die, Queue, Changing, vars, mine
  <2>3. QED
    BY <2>1, <2>2 DEF Next
<1>5. QED
  BY <1>2, <1>3, <1>4

-----------------------------------------------------------------------------

(* The invariant holds at the start ...                                    *)
LEMMA InitInv == Init => Inv
<1> SUFFICES ASSUME Init PROVE Inv
  OBVIOUS
<1>1. TypeOK /\ Shape
  BY InitTypes
<1>2. Support
  BY DEF Init, Support, Midway
<1>3. chain = << >> /\ Len(chain) = 0
  BY DEF Init
<1>4. LinksSupported
  BY <1>3 DEF LinksSupported
<1>5. QED
  BY <1>1, <1>2, <1>4 DEF Inv

(* ... and every step keeps it.                                            *)
LEMMA NextInv == Inv /\ [Next]_vars => Inv'
<1> SUFFICES ASSUME Inv, [Next]_vars PROVE Inv'
  OBVIOUS
<1>1. TypeOK' /\ Shape'
  <2>1. CASE UNCHANGED vars
    BY <2>1, Zenon DEF Inv, vars, mine, others, TypeOK, Shape, Midway
  <2>2. QED
    BY <2>1, StepTypes, OthersTypes DEF Inv, Next
<1>2. Support' /\ LinksSupported'
  BY <1>1, SupportKept, LinksKept DEF Inv
<1>3. QED
  BY <1>1, <1>2 DEF Inv

(* What every link rests on bears out its grade.                           *)
LEMMA InvBearsOut == Inv => GradesBorneOut
<1> SUFFICES ASSUME Inv, NEW j \in 1 .. Len(chain)
    PROVE  \E t, u \in 1 .. Len(Moment) :
             /\ t <= u
             /\ Lstats(t, chain[j].path[1]) \in Socket
             /\ chain[j].severity = 3 =>
                  "world" \in Moment[t].mode[Lstats(t, chain[j].path[1])]
             /\ chain[j].severity = 4 =>
                  /\ Stats(u, chain[j].path[1]) \in Socket
                  /\ "user" \in Moment[u].mode[Stats(u, chain[j].path[1])]
                  /\ \E a \in answers :
                       /\ a.place = chain[j].path[1] /\ a.socket = Stats(u, chain[j].path[1])
                       /\ u <= a.time /\ a.piece = "ok"
  BY DEF GradesBorneOut
<1>1. Len(Moment) = Now
  BY Moments DEF Inv, TypeOK
<1>2. PICK t \in 1 .. Now, u \in 1 .. Now : RestsOn(chain[j], t, u)
  BY DEF Inv, LinksSupported
<1>3. QED
  BY <1>1, <1>2, Zenon DEF RestsOn, SocketAt, OpenAt, OkSince

(***************************************************************************)
(* Types, an open descriptor exactly while a daemon is talked to, and at   *)
(* most one link for each path, whatever sockets there are and however     *)
(* often others change them.                                               *)
(***************************************************************************)
THEOREM TypeCorrect == Spec => []TypeOK
<1>1. Inv => TypeOK
  BY DEF Inv
<1>2. QED
  BY InitInv, NextInv, <1>1, PTL DEF Spec

(***************************************************************************)
(* No grade is made up: however others change sockets, modes, links and    *)
(* daemons between the calls, and however often, each link rests on what   *)
(* the path was, and on an answer that came, when the calls were made.     *)
(***************************************************************************)
THEOREM GradesTrue == Spec => []GradesBorneOut
  BY InitInv, NextInv, InvBearsOut, PTL DEF Spec

-----------------------------------------------------------------------------

(* Of the paths, those left behind are reported, the others not yet.       *)
Filed ==
  \A k \in 1 .. 3 : /\ k < at => Deserved(k)
                    /\ k >= at => Reports(k) = {}

(* What the local variables know of the path, while nothing changes.       *)
Known ==
  /\ \A a \in answers : a.place \in 1 .. at /\ (a.place = at => pc \in {"read", "grade"})
  /\ Midway => /\ Lstat(at) \in Socket
               /\ worldOpen <=> "world" \in mode[Lstat(at)]
  /\ Midway /\ pc # "access" =>
       (reachable <=> Stat(at) \in Socket /\ "user" \in mode[Stat(at)])
  /\ pc \in {"write", "read"} \/ pinged => reachable
  /\ pc = "write" => conn.heard = ""
  /\ pc = "read"  => (conn.heard = "ok" <=> "ok" \in Sent(at))
  /\ pc = "grade" => (pinged <=> "ok" \in Sent(at))
  /\ pc = "done"  => at > 3

Quiet == changes \in Nat /\ (changes = 0 => Filed /\ Known)

(* What is filed stays filed while chain, answers and paths are the same.  *)
LEMMA FiledStays ==
  ASSUME UNCHANGED <<chain, answers, entry, mode>>
  PROVE  \A k : Deserved(k)' = Deserved(k) /\ Reports(k)' = Reports(k) /\ Sent(k)' = Sent(k)
                /\ Lstat(k)' = Lstat(k) /\ Stat(k)' = Stat(k)
<1>1. \A k : Lstat(k)' = Lstat(k) /\ Stat(k)' = Stat(k)
  BY DEF Lstat, Stat
<1>2. \A k : Reports(k)' = Reports(k) /\ Sent(k)' = Sent(k)
  BY DEF Reports, Sent
<1>3. \A k : Deserved(k)' = Deserved(k)
  BY <1>1, <1>2 DEF Deserved
<1>4. QED
  BY <1>1, <1>2, <1>3

(* The link that is added is the report of its path, and of no other.      *)
LEMMA AddFiles ==
  ASSUME TypeOK, Shape, Filed, Known, Add
  PROVE  Filed'
<1>1. /\ pc = "grade" /\ at' = at + 1 /\ at \in 1 .. 3
      /\ chain' = chain \o <<Grade(at)>>
      /\ UNCHANGED <<answers, entry, mode>>
  BY DEF Add, NextPath, Report, Shape, Midway, others
<1> DEFINE n == Len(chain)
           e == Grade(at)
<1>2. /\ n \in Nat /\ Len(chain') = n + 1 /\ chain'[n + 1] = e
      /\ \A j \in 1 .. n : chain'[j] = chain[j]
  <2>1. chain \in Seq(DockLink)
    BY DEF Shape
  <2> HIDE DEF e
  <2>2. QED
    BY <1>1, <2>1 DEF e
<1>3. /\ e.path = <<at>>
      /\ e.severity = IF reachable /\ pinged THEN 4 ELSE IF worldOpen THEN 3 ELSE 1
  BY DEF Grade, Finding
<1>4. \A k : Sent(k)' = Sent(k) /\ Lstat(k)' = Lstat(k)
  BY <1>1 DEF Sent, Lstat
<1> HIDE DEF e
<1>5. PICK p \in 1 .. 3 : p = at
  BY <1>1
<1>6. \A k \in 1 .. 3 : k # p => Reports(k)' = Reports(k)
  <2>1. ASSUME NEW k \in 1 .. 3, k # p PROVE Reports(k)' = Reports(k)
    <3>1. chain'[n + 1].path # <<k>>
      BY <1>2, <1>3, <1>5, <2>1
    <3>2. \A j \in 1 .. n + 1 : chain'[j].path = <<k>> <=> j \in 1 .. n /\ chain[j].path = <<k>>
      BY <1>2, <3>1
    <3>3. QED
      BY <1>2, <3>2 DEF Reports
  <2>2. QED
    BY <2>1
<1>7. Reports(p)' = {n + 1}
  <2>1. Reports(p) = {}
    BY <1>1, <1>5 DEF Filed
  <2>2. \A j \in 1 .. n + 1 : chain'[j].path = <<p>> <=> j = n + 1
    BY <1>2, <1>3, <1>5, <2>1 DEF Reports
  <2>3. QED
    BY <1>2, <2>2 DEF Reports
<1>8. ASSUME NEW k \in 1 .. 3, k < p PROVE Deserved(k)'
  <2>1. Deserved(k) /\ Reports(k)' = Reports(k)
    BY <1>5, <1>6, <1>8 DEF Filed
  <2>2. QED
    BY <1>1, <1>2, <1>4, <2>1 DEF Deserved
<1>9. Deserved(p)'
  <2>1. /\ Lstat(p) \in Socket
        /\ worldOpen <=> "world" \in mode[Lstat(p)]
        /\ reachable /\ pinged <=> "ok" \in Sent(p)
    BY <1>1, <1>5, Zenon DEF Known, Midway
  <2>2. chain'[n + 1].severity =
          IF "ok" \in Sent(p) THEN 4 ELSE IF "world" \in mode[Lstat(p)] THEN 3 ELSE 1
    BY <1>2, <1>3, <2>1, Zenon
  <2>3. n + 1 \in 1 .. Len(chain')
    BY <1>2
  <2>4. /\ Lstat(p)' \in Socket
        /\ \E j \in 1 .. Len(chain') :
             /\ Reports(p)' = {j}
             /\ chain'[j].severity =
                  IF "ok" \in Sent(p)' THEN 4
                  ELSE IF "world" \in mode'[Lstat(p)'] THEN 3 ELSE 1
    BY <1>1, <1>4, <1>7, <2>1, <2>2, <2>3
  <2>5. QED
    BY <2>4, Zenon DEF Deserved
<1>10. ASSUME NEW k \in 1 .. 3
       PROVE  (k < at' => Deserved(k)') /\ (k >= at' => Reports(k)' = {})
  <2>1. CASE k < p
    BY <1>1, <1>5, <1>8, <2>1
  <2>2. CASE k = p
    BY <1>1, <1>5, <1>9, <2>2
  <2>3. CASE k > p
    BY <1>1, <1>5, <1>6, <2>3 DEF Filed
  <2>4. QED
    BY <2>1, <2>2, <2>3
<1>11. QED
  BY <1>10 DEF Filed

(* A new answer comes from the path that is being pinged.                  *)
LEMMA AnswerFiles ==
  ASSUME TypeOK, Shape, Filed, Known, Answer
  PROVE  Filed' /\ Known'
<1>1. /\ pc = "read" /\ Midway /\ at \in 1 .. 3 /\ ~ pinged
      /\ UNCHANGED <<pc, chain, at, worldOpen, reachable, pinged, entry, mode>>
  BY DEF Answer, mine, others, Midway, Shape
<1>2. PICK x \in {"part", "ok", "refusal"} :
        /\ conn.heard = "" \/ (conn.heard = "part" /\ x = "ok")
        /\ conn' = [conn EXCEPT !.heard = x]
        /\ answers' = answers \cup
             {[time |-> Len(past) + 1, place |-> at, socket |-> conn.socket, piece |-> x]}
  BY DEF Answer
<1>3. conn'.heard = x
  BY <1>2 DEF Shape, Connection
<1>4. PICK a : a = [time |-> Len(past) + 1, place |-> at, socket |-> conn.socket, piece |-> x]
  OBVIOUS
<1>5. answers' = answers \cup {a} /\ a.place = at /\ a.piece = x
  BY <1>2, <1>4
<1>6. /\ \A k \in 1 .. 3 : k # at => Sent(k)' = Sent(k)
      /\ \A k : Lstat(k)' = Lstat(k) /\ Stat(k)' = Stat(k) /\ Reports(k)' = Reports(k)
  BY <1>1, <1>5 DEF Sent, Lstat, Stat, Reports
<1>7. \A k : k = at => Sent(k)' = Sent(k) \cup {x}
  BY <1>5 DEF Sent
<1>8. Filed'
  <2>1. ASSUME NEW k \in 1 .. 3, k < at PROVE Deserved(k)'
    <3>1. Deserved(k) /\ k # at
      BY <1>1, <2>1 DEF Filed
    <3>2. QED
      BY <1>1, <1>6, <3>1 DEF Deserved
  <2>2. QED
    BY <1>1, <1>6, <2>1 DEF Filed
<1>9. Known'
  <2>1. PICK p : p = at
    OBVIOUS
  <2>2. "ok" \in Sent(p)' <=> x = "ok"
    BY <1>1, <1>2, <1>7, <2>1 DEF Known
  <2>3. \A b \in answers' : b.place \in 1 .. at
    BY <1>1, <1>5 DEF Known
  <2>4. /\ Lstat(p) \in Socket
        /\ worldOpen <=> "world" \in mode[Lstat(p)]
        /\ reachable <=> Stat(p) \in Socket /\ "user" \in mode[Stat(p)]
        /\ reachable
    BY <1>1, <2>1, Zenon DEF Known
  <2>5. QED
    BY <1>1, <1>3, <1>6, <2>1, <2>2, <2>3, <2>4, Zenon DEF Known
<1>10. QED
  BY <1>8, <1>9

(* The probe's own steps but Add leave what is filed, and look only once.  *)
LEMMA StepFiles ==
  ASSUME TypeOK, Shape, Filed, Known, Step
  PROVE  Filed' /\ Known'
<1>1. /\ UNCHANGED <<answers, entry, mode>>
      /\ ~ Add => UNCHANGED chain
  BY StepLeavesOthers DEF Step, LookAt, Access, Connect, Write, Read, Add, Return,
     Finish, Close, HasClean, Shape, others
<1>2. at \in 1 .. 4 /\ (Midway => at \in 1 .. 3) /\ (pinged => pc = "grade")
  BY DEF TypeOK, Shape
<1>3. /\ \A a \in answers : a.place \in 1 .. at /\ (a.place = at => pc \in {"read", "grade"})
      /\ Midway => Lstat(at) \in Socket /\ (worldOpen <=> "world" \in mode[Lstat(at)])
      /\ Midway /\ pc # "access" =>
           (reachable <=> Stat(at) \in Socket /\ "user" \in mode[Stat(at)])
      /\ pc \in {"write", "read"} \/ pinged => reachable
      /\ pc = "write" => conn.heard = ""
      /\ pc = "read"  => (conn.heard = "ok" <=> "ok" \in Sent(at))
  BY Zenon DEF Known
<1>4. ~ Add => \A k : /\ Deserved(k)' = Deserved(k) /\ Reports(k)' = Reports(k)
                      /\ Sent(k)' = Sent(k)
                      /\ Lstat(k)' = Lstat(k) /\ Stat(k)' = Stat(k)
  BY <1>1, FiledStays
<1>5. ~ Add /\ at' = at => Filed'
  BY <1>4 DEF Filed
<1>6. PICK p : p = at
  OBVIOUS
<1>7. pc \notin {"read", "grade"} => "ok" \notin Sent(p)
  BY <1>3, <1>6 DEF Sent
<1>8. CASE LookAt
  <2>1. /\ ~ Add /\ pc = "lstat" /\ at \in 1 .. 3
        /\ \A a \in answers : a.place \in 1 .. at /\ a.place # at
    BY <1>2, <1>3, <1>8 DEF LookAt, Add
  <2>2. CASE Lstat(at) \in Socket
    <3>1. /\ UNCHANGED <<at, reachable, pinged>> /\ pc' = "access" /\ ~ pinged
          /\ worldOpen' = ("world" \in mode[Lstat(at)])
      BY <1>2, <1>8, <2>1, <2>2 DEF LookAt
    <3>2. Known'
      BY <1>1, <1>4, <1>6, <2>1, <2>2, <3>1 DEF Known, Midway
    <3>3. QED
      BY <1>5, <2>1, <3>1, <3>2
  <2>3. CASE Lstat(at) \notin Socket
    <3>1. at' = at + 1 /\ pc' = "lstat" /\ pinged' = FALSE
      BY <1>8, <2>3 DEF LookAt, NextPath
    <3>2. Deserved(p) /\ p \in 1 .. 3
      <4>1. Reports(p) = {} /\ p \in 1 .. 3
        BY <1>6, <2>1 DEF Filed
      <4>2. QED
        BY <1>6, <2>3, <4>1 DEF Deserved
    <3>3. \A k \in 1 .. 3 : (k < at + 1 => Deserved(k)) /\ (k >= at + 1 => Reports(k) = {})
      <4>1. \A k \in 1 .. 3 : (k < at => Deserved(k)) /\ (k >= at => Reports(k) = {})
        BY DEF Filed
      <4>2. \A k \in 1 .. 3 : k < at + 1 => k < at \/ k = p
        BY <1>6, <2>1
      <4>3. \A k \in 1 .. 3 : k >= at + 1 => k >= at
        BY <2>1
      <4>4. QED
        BY <3>2, <4>1, <4>2, <4>3, Zenon
    <3>4. Filed'
      BY <1>4, <2>1, <3>1, <3>3 DEF Filed
    <3>5. Known'
      BY <1>1, <2>1, <3>1 DEF Known, Midway
    <3>6. QED
      BY <3>4, <3>5
  <2>4. QED
    BY <2>2, <2>3
<1>9. CASE Access
  <2>1. /\ ~ Add /\ pc = "access" /\ pc' = "connect" /\ Midway
        /\ UNCHANGED <<at, worldOpen, pinged>> /\ ~ pinged
        /\ reachable' = (Stat(at) \in Socket /\ "user" \in mode[Stat(at)])
    BY <1>2, <1>9 DEF Access, Add, Midway
  <2>2. Known'
    BY <1>1, <1>3, <1>4, <1>6, <2>1 DEF Known, Midway
  <2>3. QED
    BY <1>5, <2>1, <2>2
<1>10. CASE Connect
  <2>1. /\ ~ Add /\ pc = "connect" /\ Midway
        /\ UNCHANGED <<at, worldOpen, reachable, pinged>> /\ ~ pinged
        /\ pc' = "grade" \/ (pc' = "write" /\ Accepts /\ conn'.heard = "")
    BY <1>2, <1>10 DEF Connect, Add, Midway, NoConn
  <2>2. Accepts => reachable
    BY <1>3, <2>1 DEF Accepts, TypeOK
  <2>3. "ok" \notin Sent(p)
    BY <1>7, <2>1
  <2>4. Known'
    BY <1>1, <1>3, <1>4, <1>6, <2>1, <2>2, <2>3 DEF Known, Midway
  <2>5. QED
    BY <1>5, <2>1, <2>4
<1>11. CASE Write
  <2>1. /\ ~ Add /\ pc = "write" /\ Midway
        /\ UNCHANGED <<at, worldOpen, reachable, pinged>> /\ ~ pinged
        /\ pc' \in {"grade", "killed"} \/ (pc' = "read" /\ conn' = conn)
    BY <1>2, <1>11 DEF Write, Add, Midway
  <2>2. "ok" \notin Sent(p)
    BY <1>7, <2>1
  <2>3. QED
    BY <1>1, <1>3, <1>4, <1>5, <1>6, <2>1, <2>2 DEF Known, Midway
<1>12. CASE Read
  <2>1. /\ ~ Add /\ pc = "read" /\ pc' = "grade" /\ Midway
        /\ UNCHANGED <<at, worldOpen, reachable>>
        /\ pinged' = (conn.heard = "ok")
    BY <1>12 DEF Read, SaysOk, Add, Midway
  <2>2. Known'
    BY <1>1, <1>3, <1>4, <1>6, <2>1 DEF Known, Midway
  <2>3. QED
    BY <1>5, <2>1, <2>2
<1>13. CASE Add
  <2>1. /\ Midway /\ at' = at + 1 /\ pc' = "lstat" /\ pinged' = FALSE
    BY <1>13 DEF Add, NextPath, Midway
  <2>2. \A a \in answers : a.place \in 1 .. at + 1 /\ a.place # at + 1
    <3>1. \A k \in 1 .. at : k \in 1 .. at + 1 /\ k # at + 1
      BY <1>2
    <3>2. QED
      BY <1>3, <3>1
  <2>3. Known'
    BY <1>1, <2>1, <2>2 DEF Known, Midway
  <2>4. QED
    BY <1>13, <2>3, AddFiles
<1>14. CASE Return
  <2>1. /\ ~ Add /\ pc = "lstat" /\ pc' = "done" /\ at > 3 /\ at' = at
        /\ pinged' = pinged /\ ~ pinged
    BY <1>2, <1>14 DEF Return, Finish, Add
  <2>2. Known'
    BY <1>1, <1>3, <2>1 DEF Known, Midway
  <2>3. QED
    BY <1>5, <2>1, <2>2
<1>15. QED
  BY <1>8, <1>9, <1>10, <1>11, <1>12, <1>13, <1>14 DEF Step

(* Who changes nothing does not disturb what is known.                     *)
LEMMA QuietStep == TypeOK /\ Shape /\ Quiet /\ [Next]_vars => Quiet'
<1> SUFFICES ASSUME TypeOK, Shape, Quiet, [Next]_vars PROVE Quiet'
  OBVIOUS
<1>1. changes \in Nat /\ (changes = 0 => Filed /\ Known)
  BY DEF Quiet
<1>2. CASE Step
  <2>1. changes' = changes
    BY <1>2, StepLeavesOthers DEF others
  <2>2. QED
    BY <1>1, <1>2, <2>1, StepFiles DEF Quiet
<1>3. CASE Answer
  <2>1. changes' = changes
    BY <1>3 DEF Answer, others
  <2>2. QED
    BY <1>1, <1>3, <2>1, AnswerFiles DEF Quiet
<1>4. CASE HangUp \/ UNCHANGED vars
  <2>1. /\ UNCHANGED <<mine, others, answers>>
        /\ conn'.heard = conn.heard
    BY <1>4 DEF HangUp, vars, Shape, Connection
  <2>2. /\ UNCHANGED <<chain, answers, entry, mode, changes>>
        /\ UNCHANGED <<pc, at, worldOpen, reachable, pinged>>
    BY <2>1, Zenon DEF mine, others
  <2>3. \A k : /\ Deserved(k)' = Deserved(k) /\ Reports(k)' = Reports(k)
              /\ Sent(k)' = Sent(k)
              /\ Lstat(k)' = Lstat(k) /\ Stat(k)' = Stat(k)
    BY <2>2, FiledStays
  <2>4. Filed => Filed'
    BY <2>2, <2>3 DEF Filed
  <2>5. Known => Known'
    BY <2>1, <2>2, <2>3 DEF Known, Midway
  <2>6. QED
    BY <1>1, <2>2, <2>4, <2>5 DEF Quiet
<1>5. CASE Replace \/ Chmod \/ Die \/ Queue
  <2>1. changes' = changes + 1
    BY <1>5 DEF Replace, Chmod, Die, Queue, Changing
  <2>2. QED
    BY <1>1, <2>1 DEF Quiet
<1>6. QED
  BY <1>2, <1>3, <1>4, <1>5 DEF Next, Others

(***************************************************************************)
(* Left alone, the probe reports each socket once and grades it as its     *)
(* daemon answers, however the answers are cut and whenever it hangs up.   *)
(***************************************************************************)
THEOREM GradesAsDeserved == Spec => []GradeDeserved
<1>1. Init => Quiet
  <2> SUFFICES ASSUME Init PROVE Quiet
    OBVIOUS
  <2>1. /\ changes = 0 /\ at = 1 /\ pc = "lstat" /\ pinged = FALSE
        /\ answers = {} /\ chain = << >>
    BY DEF Init
  <2>2. Filed
    BY <2>1 DEF Filed, Reports
  <2>3. Known
    BY <2>1 DEF Known, Midway
  <2>4. QED
    BY <2>1, <2>2, <2>3 DEF Quiet
<1>2. TypeOK /\ Quiet => GradeDeserved
  <2> SUFFICES ASSUME TypeOK, Quiet, pc = "done", changes = 0, NEW k \in 1 .. 3
               PROVE  Deserved(k)
    BY DEF GradeDeserved
  <2>1. Filed /\ Known
    BY Zenon DEF Quiet
  <2>2. at > 3 /\ at \in 1 .. 4
    BY <2>1, Zenon DEF Known, TypeOK
  <2>3. k < at
    BY <2>2
  <2>4. QED
    BY <2>1, <2>3, Zenon DEF Filed
<1>3. Inv => TypeOK /\ Shape
  BY DEF Inv
<1>4. QED
  BY <1>1, <1>2, <1>3, InitInv, NextInv, QuietStep, PTL DEF Spec
=============================================================================
