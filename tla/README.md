# Formal models of Z-Privesc

Z-Privesc is a sequential C program that audits one Linux host: it runs a
selection of 17 probes, each of which leaves weighted evidence in a chain of its
own, lets a verdict engine judge every chain, scores the risk, composes the
evidence into paths to root, and prints a JSON or an HTML document.  These
modules model its logic, from the system calls of a probe to the exit
status, check it with TLC on small instances, and prove with TLAPS what matters
most for every value of the constants: the evidence chain and the engine for
chains of every length, the composer for any evidence and any rules, the run of
an audit for any registry and any outcome of its probes, the directory walks
over any tree, the probes that look at files one by one and the docker probe
against any daemon, however often others change what these look at, and the
probes that go by facts on any host.

Paths below are relative to `src/` of the repository.

## 1. Inventory

| Part | State it keeps | Operations | Correct when |
|---|---|---|---|
| Evidence chain (`src/truthimatics/evidence.c`) | a linked list on the heap, head, tail, count, four running totals, verdict, worst severity | init, add, release | no link is lost, the totals agree with the list, release frees each link once |
| Verdict engine (`src/truthimatics/engine.c`) | none (writes the chain's verdict) | `zp_engine_decide`, two shares | the verdict is the heaviest class whatever shortcut was taken |
| Directory walks (`suid.c`, `world_writable.c`, `capabilities.c`) | the recursion: open directories, depth, findings so far | one walk over starting points | a finding for each file that was there all the time, within the limits, and an end |
| File probes (`cron.c`, `service.c`, `ld_preload.c`, `writable_etc.c`, `ssh_keys.c`, `process.c`) | an open directory, the path under inspection, the number of findings | one function each, several system calls about each path | what is found was there, what nobody touched is judged exactly, and an end short of a FIFO |
| Fact probes (`kernel_vuln.c`, `kernel_hardening.c`, `polkit.c`, `groups.c`, `sudoers.c`, `nfs.c`, `writable_path.c`) | the number of findings | one function each over a table or the lines of a file | exactly the facts that hold are reported, each worth the token it stands for |
| Docker probe (`docker_socket.c`) | three locals for each path, a socket | ping | no grade without the evidence for it; an end |
| Risk (`src/risk.c`) | none | score of a finding, a probe, the audit; label | the printed risk covers all that is printed under it |
| Probe runner (`src/probe_runner.c`) | parallel arrays: names, chains, verdicts; scores, risk | runtime init and release, probe loop | the probes asked for run, once, in order; results stay attached to their probe |
| Audit context (`src/audit.c`) | growing array of records with findings | init, add probe, add finding, emit, release | it mirrors the chains up to its limits |
| Composer (`src/compose.c`) | token mask, source references, derivations, edges | map a link, fixpoint, enumerate | exactly the sound paths are reported, each with its evidence |
| Main (`src/main.c`) | the options | parse, run, emit, exit | the exit status says what the manual says |
| User database (`src/util.c:301-428`) | none | lookup of a user, a group, a primary group | membership is reported as the files have it |
| Wrappers, logger, crypto (`src/util.c`, `log.c`, `crypto.c`) | the log level | thin calls | — |

How they interact: `main` parses the options and calls the runner, which calls
one probe after the other with its chain; a probe calls `zp_evidence_add`; then
the runner calls `zp_engine_decide`, copies the chain into the audit context
and, after the loop, computes the risk.  The emitters read the runtime (not the
audit context), and the JSON emitter calls the composer, which reads chains and
verdicts.  Everything is a plain call on the program's only thread, so within
the process nothing interleaves.  What interleaves is outside: the file system,
`/proc` and a Docker daemon change while the probes look at them, one system
call at a time.  Nothing is persisted, so there is no recovery to get right.

The hard behaviours are therefore: data kept twice that must agree (list and
totals, chains and audit records, probe scores and printed risk); shortcuts and
tie-breaks in the engine; limits on findings, references, records and depth;
fixpoint and walk back in the composer; results of several probes folded into
one exit status; and probes that look twice at something that changes between.
`PROJECT.json` lists each hazard at its line with the properties that guard it.

## 2. Modules

| Module | Models | State and actions |
|---|---|---|
| `Truthimatics` | `include/truthimatics.h`, the clamp, the plurality | operators only |
| `VerdictSpec` | abstract: what a chain promises | class weights, verdict; weigh, judge, close |
| `EvidenceChain` | `evidence.c`, `engine.c` | heap of links by address; `Add`, `Decide`, `Walk` (one turn of the engine's loop), `Release`, `Free` (one turn), `Released`, `OutOfMemory` |
| `Arithmetic` | — | that `Min` and `Max` are what they are called, that `Total` adds up, and that functions defined along the integers exist and go alike: lemmas for the proofs |
| `EvidenceChainProofs` | — | the theorems about `EvidenceChain` |
| `Escalation` | tokens, `RULES[]`, `map_link`'s mapping | operators only |
| `Compose` | `zp_compose_json`, `map_link`, `fixpoint_from` | `Gather` (a link), `ApplyRule` (a rule), `EndPass`, `StepBack` (an edge), `EmitPath`, ... |
| `ComposeProofs` | — | the theorems about `Compose` |
| `Risk` | `risk.c` | operators only |
| `AuditRun` | `main.c`, `probe_runner.c`, `audit.c` | `ParseOption`, `EndOptions`, `SelectProbe` (an entry of the registry), `RuntimeInit`, `RunProbe` (a turn of the loop), `Aggregate`, `EmitJson`, `EmitHtml`, `Finish`; `Killed` by a signal |
| `AuditRunProofs` | — | lemmas about the scores, the theorems about `AuditRun` |
| `FileTree` | external: directories, files and links as lstat, stat, opendir and readdir see them | the changes of others: `Chmod`, `Unlink`, `Symlink`, `Rename` |
| `DirScan` (on `FileTree`) | the recursive walks of `suid.c`, `world_writable.c`, `capabilities.c` | one action per system call: `ReadEntry`, `Look` (lstat), `Descend` (opendir), `GetXattr`, ... |
| `FileTreeProofs` | — | lemmas about paths in a `FileTree`, and about what others' changes leave as it was |
| `DirScanProofs` | — | the theorems about `DirScan` |
| `ProbeChain` | what the probes share: the links they add, their counter, the CLEAN link; what engine and composer make of them | chain and counter; `Report`, `Finish` |
| `FileProbes` (on `FileTree`, `ProbeChain`) | the six file probes | one action per system call: `LookAtPlace`, `OpenPlace`, `ReadEntry`, `Look`, `FollowLink`, `InspectFile`, `ReadLines`, `ReadExe` (readlink), `StatExec`, `OpenHome`, ...; `Block` at a FIFO |
| `FactProbes` (on `ProbeChain`) | the seven fact probes, the user database, and the grading of what the three walks come by | host and index; `Open`, `GiveUp`, `Examine` (a row of a table, a line, a file), `Conclude`; `Wait` at a FIFO |
| `Probes` (on both) | a run of any one of these probes | `Step` and, for a file probe, `OthersStep` |
| `ProbeClaims` (on `Probes`) | — | what documents and messages say of the probes and the code does not keep |
| `ProbesProofs` | — | the theorems about the file probes of `Probes`, about the fact probes, and about all of them |
| `DockerProbe` (on `ProbeChain`) | `docker_socket.c`, `zp_socket_connect_unix` | `LookAt` (lstat), `Access`, `Connect`, `Write`, `Read`, `Add`; the daemon: `Answer`, `HangUp`, `Die`; others: `Replace`, `Chmod`, `Queue` |
| `DockerProbeProofs` | — | the theorems about `DockerProbe` |

`ProbeChain` takes `TokenOf` and `Counts` from `Escalation` and `Plurality`
from `Truthimatics`, the operators `Compose` and `EvidenceChain` use, so that
`Probes` says which tokens of the composer a host leads to. `EvidenceChain`
implements `VerdictSpec`; `AuditRun` builds on both results and uses
`Plurality` for the engine and `Closure` for the composer, which
`EvidenceChain` and `Compose` justify. `AuditRun` takes a probe to be any of a
set of outcomes, a return code and a chain, and some to be `Waiting` (others can hold
them up for ever) or `Mortal` (a signal can end the program in them); `Probes`, `DirScan` and
`DockerProbe` are what those outcomes stand for. The `MC` modules only give
constants their values; `MCClaims` adds to those of `MCProbes` file systems on which
the claims of `ProbeClaims` can be told from what the code does.

Abstractions that matter:

- Weights are integers in hundredths and scores in thousandths.  The weights
  and tables of the code are such decimals; the arithmetic here is exact and
  float rounding is not modelled, so a tie here may be broken by the last bit
  there, and a score that lies exactly on a rounding boundary may print
  differently.  The engine's divisions `x / total > 0.5` become `2x > total`.
- Allocation either succeeds or aborts the process, as `zp_malloc` and
  `zp_calloc` do.
- Text is reduced to the keywords the composer looks for; id and description
  are searched for the same ones and are merged.  Confidence, escaping and
  layout are left out.  The list `seen_leaf` of the composer never finds a
  duplicate, since the loop visits each token once, and is left out too.
- In `DirScan` a file is interesting or not; names, links and directories are a
  small tree.  `readdir` may or may not yield an entry that came or went since
  the directory was opened and yields all others once, as POSIX says.
  The limit on the length of a path is not modelled.
- `Chmod` in a file probe's tree flips world-writability; that of a process's
  executable is what the process probe stats.  A process is an entry of `/proc`
  that may end (`Unlink`) or leave its number to another (`Rename`).
- A version is the list of the numbers `sscanf` could read from it; a line of
  sudoers is its first three words and what `strstr` finds in each; an export is
  the first host of its line; the members of a group are names, of which
  `LineMax` fit the buffer of `fgets` before the name that is cut.
- An executable has one path at a time, or none: then `readlink` gives the last one it
  had, with " (deleted)" after it, and the code looks that name up like any other.  It
  may be the name of another file (`Deleted`).  Hard links to an executable are left out,
  and a PROC-DEL finding bears the name of its process here.
- A FIFO is a file that `lstat` and `stat` see and that holds whoever opens it until
  somebody writes to it; `fopen` may return, with what is written, or never.

## 3. Runs

| Run | Instance | Shows |
|---|---|---|
| `chain` | 3 addresses, weights -0.1, 0.5, 0.6 and 1.3, all verdicts | types, list and totals agree; shortcuts harmless; a verdict falls only to contrary evidence; calls return; `VerdictSpec` is implemented |
| `compose` | 144 combinations of six probes' chains, the real rules, 3 references | derivations grounded, exactly the sound paths, termination |
| `compose_twisted` | the same evidence, a rule table with a cycle, a rule of two preconditions, dead ends, an order that needs several passes | the algorithm does not lean on the shape of `RULES[]` |
| `audit` | 3 probes with 3 outcomes each, one unknown name, room for 2 records and 2 findings | selection, audit context, risk, paths and exit status agree; the run ends unless others hold a probe up |
| `dirscan` | 3 directories, 3 files, a link to `/`; three walks; one change at any moment | exact where nothing changes, bounded, every walk ends |
| `probes` | six trees of up to six directories and four files with one change at any moment, and 10 sets of hosts at the edges of the rules (a few hundred in all) | findings borne out, what is left alone judged exactly, CLEAN never beside a finding, facts exact with the exceptions named, tokens where they are called for, every probe ends or is held at a FIFO |
| `docker` | two sockets, a file and a link, two entries for three paths, SIGPIPE ignored or not, paths too long or not, one change at any moment | no grade made up, an undisturbed grade deserved, the probe ends or is held up by a daemon that lives |
| `chain_ties`, `compose_refs`, `exit_deterministic` | as in the runs of these parts | documented properties that the code does not have |
| `files_documented` | small trees with one change, a name with " (deleted)" in it, a cap of one | the same of the file probes |
| `facts_documented` | the hosts of `probes` | the same of the fact probes |

What the violated properties quote, and the lines that break them, is in section 5.
Those of the last two runs have several parts (`ProbeClaims`); TLC stops at the first that
fails, and each of the others fails on the same instance when it is checked alone.

Why the bounds are enough.  Three links give every order of the three classes,
a tie of two against one, a single majority link and exact halves; the proofs
take over for longer chains.  The composer's limit of 256 references is
lowered to 3 so that it is passed; 24 paths and 63 edges are the code's own
numbers and cannot be reached with 13 tokens.  Two records and two findings in
the audit context are below what the probes produce, so growth and truncation
both happen.  The walk's limits (depth 2 and 3, 2 to 4 findings) lie inside the
tree, a start overlaps another and one does not exist; two changes instead of
one (1.4 million states, several minutes) were checked by hand as well.

In `probes` every place of a list is there in some tree or missing, as a file, a
link or a directory, once as a directory under two paths (`/lib` and
`/usr/lib`); one change between any two calls is what it takes to make two of
them disagree, and with `PROC_MAX_SCAN` at 3 the processes of its tree may pass the cap.  The
hosts put a version at, just below and just above the ends of the intervals of
the table, each setting of the kernel below, at and above what is wanted or
missing, a group line at, within and beyond the buffer, and capabilities on both
sides of the 32nd bit.  In `docker` a daemon answers in no, one or two pieces and
hangs up at any moment, and one change (a socket replaced, a mode, a backlog, a
dead daemon) falls between any two calls.

Fairness.  The loops of the engine and the release, the composer and the walks
run on one thread and wait for nobody: weak fairness on their steps.  The walks open
directories and read attributes but open no file, so `DirScan` has nothing to wait for.
The other probes do wait, at two places.  `fopen` of a FIFO returns when somebody writes
to it: none of the probes that open files guards against that (`src/probes/service.c:58`,
`src/probes/sudoers.c:54`, ...), so `Probes` lets such a call block for ever,
and `EndsOrHeld` says that with weak fairness on the probe's own steps it ends or is
held there and nowhere else.  `docker_ping` (`src/probes/docker_socket.c:50`) reads an
answer without a timeout, and `connect` waits at a full backlog; the daemons are under no
fairness, and `EndsOrHeld` of `DockerProbe` says that the probe ends unless it is stuck
for ever at one that lives.  A death by SIGPIPE is an end in that sense; that it is
no return is said in section 5.  `AuditRun` takes over what is left: it
assumes that a command line ends and that a probe that waits for nobody comes back.  It
assumes nothing of the probes in `Waiting`, of a signal, of memory or of a usage error,
and its `EndsOrHeld` says that the run ends unless one of those probes is held for ever.
In all these modules others make finitely many changes (`MaxChanges`), and are not
obliged to make any; a directory that others filled for ever faster than it is read would
keep the real program busy.

`CHECK_DEADLOCK FALSE` everywhere: each of these programs stops when it is done.

## 4. Proofs

Eight modules hold theorems, six about the parts of the system, `Arithmetic` and
`FileTreeProofs` about what they share.  Each property below is proved of `Spec`, without the
fairness; its theorem is listed in `PROJECT.json`.

**`EvidenceChainProofs`**, for any set of addresses and any evidence
(`Given \subseteq Int \X Verdict \X Severity`), assuming only that the null
pointer is no address:

- `ListCorrect`, with `TypeCorrect` and `NoLinkLost`: the types and the shape of
  the list.  The two are inductive together and not apart: that a loop reads an
  allocated link follows from the shape, that the link has a weight from its type.
- `ShortcutsHarmless`: total and classes balance, the fallback is the plurality
  while the engine walks, and more evidence for the verdict in force does not
  change what would be decided.
- `VerdictFallsToContraryEvidence`: the action property on overturned verdicts.
- `TotalsFollowList`: the running totals are the sums over the list.
- `Refinement`: `Spec => VerdictSpec!Spec`.

The inductive invariant is `TypeOK /\ ChainLinked /\ ShortcutsAgree`.  `Balance`
in it is what makes the refinement go through without adding up a list: a link
weighs no more than its class, so one that outweighs half of the total makes
its class the heaviest (`HeavyLinkLeads`), and an early return or the fallback
is then the plurality (`EarlyReturn`, `DecisionIsPlurality`).  `TotalsFollowList`
does add up: `Total` is a recursive function on the list, and that one more link
adds its weight to it is an induction over the list.  The induction theorems
take an operator, which the provers cannot instantiate; so the set of the
counterexamples is formed and the least of them refuted (`SumsExist`,
`SumsUnique`), with `LeastOfNats`, all three in `Arithmetic`.

**`DockerProbeProofs`**, for any sockets, files and links, any targets, starting
entries and modes of the right types, and any number of changes by others, assuming
only that the absence of a socket is not a socket:

- `TypeCorrect`: the types, the connection open exactly between `connect` and the
  last read or write, at most one link for each path.
- `GradesTrue`: `GradesBorneOut`, that no grade is made up.
- `GradesAsDeserved`: `GradeDeserved`, that what nobody touched gets its grade.

`GradesBorneOut` speaks of the links alone and is not inductive.  The invariant
adds `Support`: while the probe is midway through a path, there are moments `t`
and `u`, in this order, such that `lstat` found a socket at `t` as open as the
local variable says, the connection is to what the path led to at `u`, and an
answer that says OK came over it since.  History is only ever added to
(`HistoryKept`, `ShownStays`), so what was shown stays shown, and `Add` writes
down what `Support` holds (`LinksKept`).  `GradeDeserved` is about the end alone;
its invariant `Quiet` says, while nobody has changed anything, which paths are
already filed as they deserve (`Filed`) and what the locals know of the one under
inspection (`Known`).

**`ComposeProofs`**, for any evidence and any rules with a precondition (cyclic
ones and dead ends too) and any limit on references, assuming room for a path
per token and for an edge per token (the code has 24 and 63 for 13):

- `TypeCorrect`; `Grounded`: a derivation rests on tokens derived before it;
- `Sound`: every path reported is borne out by evidence and rules, up to ROOT;
- `Complete`: a granted token that leads to ROOT is reported, once.

The walk back is sound because the fixpoint leaves an order: the invariant
`FixpointSoFar` says that the mask can be ranked so that every derivation rests on
lower ranks (`RanksGrow`), and the walk goes one rank down in each step
(`WalkBack`), so it ends at the seed and never for want of room
(`WalkEndsAtSeed`).  Completeness needs that a pass that changed nothing has
tried every rule (`SettledIsComplete`) and that the mask then is the least closed set
(`ReachableLeast`), whatever the order of the rules.  `EmittedSoFar` says of the
tokens passed so far what `PathsSound` and `PathsComplete` say at the end.

**`AuditRunProofs`**, for any registry of distinct names with room for them, any
outcomes, any limits above 0, assuming only that no unknown name is a registered
one:

- `TypeCorrect`; `HonoursSelection`: the probes asked for, once, in order;
- `MirrorsChains`: the audit context agrees with the chains up to its limits;
- `CoversAll`: the printed risk, rounded to a tenth, is not below any score of a probe or a
  finding, printed with two decimals under it.  That holds for the weights that the
  probes give (`GradeWeights`), none of whose scores is rounded down;
- `PathsRest`: the paths printed rest on the evidence printed;
- `ExplainsExit`: the exit status is explained by what the probes did.

The invariant follows the stages of the run: what has not happened yet, what the
selection has done with the entries looked at, what the status says of the probes run so
far, what risk and documents are computed from.  The last three properties speak
of what is printed or of the time after the release; they are established when a
document is written, from the parts before, and then kept.

**`FileTreeProofs`**, for any finite set of directories, with files and links apart
from them and links that point to files and directories: paths are resolved name by
name, and their recursive definition has a value for every path (`StatBy`, `LstatBy`,
with `RecursionExists` of `Arithmetic` in place of the induction theorem); every
directory on the way to a steady path can be opened and holds the next name
(`SteadyWay`); a change by others leaves alone what it does not put on record
(`ChangeLeaves`), so a path that is steady after it was steady before and leads to the
same file (`SteadyBack`).

**`DirScanProofs`**, for any directories, files, links and names, any walks with
a depth limit above 0, and any number of changes by others:

- `TypeCorrect`: the types, with the cap on findings;
- `RecursionBounded`: `StackIsPath`, that the open directories are one path
  down from the start and never too many;
- `ReportsExact`: `ExactWhereSteady`, that an interesting file that others leave alone
  is reported once for each start that covers it and any other such file never, and
  that in a tree nobody changes no link below a start is followed.

`StackIsPath` needs `Allowed`: that what a call is about to do was within the
limits when it was decided on, and nothing between the check and the call uses
them up; and `TreeTyped`, that what others do to a tree leaves a tree.

`ExactWhereSteady` says nothing of a walk that is under way in terms that a step
could keep.  The invariant `Exactly` has, for every steady path: the walk has still to
come by it (`Ahead`) as long as one of the open directories is on its way and the next
name has not been seen, or the path under inspection leads to it; and it has been
reported as often as starts were done with that cover it, and once more when the walk
from the present one is past it (`Tallied`).  `OnTrail` and `OnWay` add where the walk
is, and that the open directories on the way are those the path's names lead to, with
the next name among those listed when they were opened: `readdir` yields that name
before its end, in whatever order.

The proof corrected the property twice.  A path through a top directory that cannot
be opened used to count as steady and was promised a report; `Steady` now asks that
every directory on the way can be read, the first one too.  And below a start that
itself leads through a link every report does, so that the part about links now speaks
of the way from the start on (`Straight`).  It also needs what the types of inodes
imply, that no file is a directory or a link; this is now part of the assumption on the
tree.

**`ProbesProofs`**, about the probes that look at files, for any tree of named entries
for each of them, any units and images, any marks on files and directories, any owned
and readable files, and any number of changes by others:

- `NothingMadeUp`: `BorneOut`, that every finding is borne out piece by piece by the
  file system as it was, in the order of the calls.  It is not borne out all at once: the
  unit that is read need not be the one that was root's, and the file that is writable need
  not be the executable whose name it has (`UnitIsRoots`, `ExecutableIsWritable`,
  `WritableIsExecutable`);
- `JudgedExactly`: `Exact`, that what others leave alone is reported exactly as often
  as it deserves.

The invariant `FileInv` has the open directories (`StackOK`), where a probe may be with
what at hand (`WhereOK`), and `Support` as in the docker probe: there are moments `t`
and `u`, in this order, at which the calls made so far for the path under inspection
saw what they saw.  The history only grows (`PastStays`), so what was borne out stays
so (`BorneStays`), and each call that reports has its own moment for the third piece:
now.  The proof found the guards of `LookOnce` to overlap where a key is at the same
time writable and readable, so that the model, though not TLC, left open what is
reported; they are disjoint now, as the `if` and `else if` of `inspect_dir` are.

`Exact` counts at the end.  For the way there, `ExactInv` says of each kind of finding
and each path that is left alone that as many findings have been counted as are due at the
places where the probe has judged the path so far (`Tally`, `Counted`): at those before
the present one, and at that one once `readdir` has yielded the name and the calls about
it have told of that kind (`Judged`, `Told`).  It needs `Known`, that what the first
call about such a path showed is still so at the next; `Inside`, that the directory it is
in is the one that is open, and lists it; and `CourseOK`, where the probe may be on its
course through the places.  There is one lemma for each system call, which says what the
call settles (`LookCronJudges` to `CloseDirSettles`), and one for all changes by
others: what is due of a path depends only on what it names and what that leads
to, so that it stays what it was (`DueKept`, `LeftAlone`).

This proof corrected `Due`, the reference definition, not the actions: a world-writable
directory in `/etc/ld.so.conf.d` is reported like a file; a process is judged by `stat`,
so an entry of `/proc` that is a link counts as what it leads to; and where a unit's
executable is a link, the finding rests on what that leads to as well (`Untouched`).
On a tree where none of these occurs TLC had found nothing to say.  What the proof
assumes of the marks, that only files and directories bear them and that `Owned` and `Lax` mark
files only, is now part of `FileProbesAssumption`, which the run `probes` evaluates.

About the probes that go by facts, for any hosts whose files have the types in
`FactProbesAssumption` (a version of three numbers or none, lines with names and
numbers in them, settings that are integers, ...) and any room in the buffer of a line,
and about all probes of `Probes`:

- `TypeCorrect`: the types of every probe of `Probes`; the process probe passes its cap
  by one finding at most;
- `AloneTrue`: `CleanStandsAlone`, that a CLEAN link never stands beside a finding,
  and that the engine judges the chain accordingly;
- `FactsTrue`: `Facts`, that what kernel_vuln, groups, kernel_hardening and
  capabilities report is what there is, with exceptions that are named and all
  happen (`ListedCounts`, `PrimaryGroupCounts`, `ShortfallsReported`): a line of `/etc/group` that is too long,
  a group that is only the user's primary one, a setting that is negative;
- `TokensTrue`: `Tokens`, that the fact probes lead the composer to their tokens where
  the host calls for it.  For seven of them this is an equivalence.  For sudoers, polkit
  and nfs the documents ask for less than the code reports, and the theorem says that a
  token is never missing, and for the last two that something is amiss; section 5 says what is too
  much.

The last three speak of a finished probe.  The invariant `Inv` adds to
`FileInv` what the chain is made of on the way there: `AloneInv`, as
many good links as the counter says, or CLEAN alone at the end; and `FactInv`, that
the chain has `Gathered` exactly the findings of the items examined so far, and
what that makes of the end (`Complete`, `FoundClean`, `GaveUp`).  Each item
yields at most one good link (`FindingsShape`), from which the verdict follows
(`VerdictOfFindings`, `VerdictOfClean`, sums of any length), and with it what
counts for the composer (`GrantedIs`).  What is left is about each probe's rule:

- the comparison of versions part by part agrees with that of single numbers to a
  base above all parts (`Positional`, `VersionOrder`, `KernelExact`);
- the first line for a group is the one that is looked at, and what the buffer
  holds of it is its first members and one stub (`FirstLine`, `PieceOf`,
  `MembersExact`);
- the half of the capabilities that is read from the wrong place holds none that
  counts (`CapsExact`), nor one that the composer looks for (`CapsToken`);
- the first word that decides in a path decides the token (`WorldTokens`).

The proof showed what the instances had left unsaid: that a part of `PATH`
in a list of directories is never empty where it is writable, that a mode has no
other bits than the three that count, and that rules of polkit are looked for in
three places.  These are now part of the assumption on the hosts, which the run
`probes` evaluates.

Only model-checked: liveness (`CallsReturn`, `Terminates`, `EndsOrHeld`), which
is out of reach for the prover.  Every safety invariant and action property that a run
checks is stated by a theorem.

## 5. Where code and documents differ

Shown by a run:

- `exit_deterministic` — a probe that fails after a DETERMINISTIC one turns the
  exit status to 1 (`src/probe_runner.c:157`); the manual and `main.c:52` promise 2.
- `chain_ties` — DETERMINISTIC wins a tie with UNCERTAIN (`engine.c:65`); the
  comment at `engine.c:10-11` says it loses.
- `compose_refs` — beyond 256 references a path names no finding
  (`src/compose.c:168`); `docs/COMPOSITION.md:161-162` says the first step does.
- `files_documented`, with the parts of `FileProbesAsDocumented`:
  - `WritableIsExecutable`, `CapHolds` (shown first) — after reporting a deleted binary the
    code stats its name with " (deleted)" in it (`process.c:109,123`), so that a file of that
    name is taken for an executable of root (`docs/PROBES.md:433-434`), and the findings pass
    the cap tested before the process (94; `docs/adr/002-probe-design.md:24-25`).
  - `ExecutableIsWritable` — another file may have taken the name since (123).
  - `UnitIsRoots` — the `ExecStart=` may come from a file that was not root's
    (`service.c:58`); `docs/PROBES.md:380-381` speaks of root-owned units.
  - `UnitBelowRoot` — under `--root` the binary of a unit is looked up on the host
    (`service.c:92`), against `man/z_privesc.1:41-42`; process (123) does the same.
  - `CronEntriesFlagged` — an entry replaced by a link between two looks is not reported
    (`cron.c:109`), against `docs/PROBES.md:268-270`.
  - `HomesSearched` — `src/probes/ssh_keys.c:108` joins a path in place; with glibc the
    user's part is lost and `/.ssh` is looked at, `docs/PROBES.md:320` promises
    `/home/*/.ssh/`.
- `facts_documented`, with the parts of `FactProbesAsDocumented`:
  - `CapabilitiesDecoded` (shown first) — `decode_caps` (`src/probes/capabilities.c:111-113`)
    takes the upper half of the permitted set from bytes 8 to 11, which hold the inheritable
    set; `Facts` shows that no grade depends on it.
  - `PrimaryGroupCounts` — `zp_primary_gid_for_uid` (`src/util.c:392-404`) never succeeds, so
    the primary group (`groups.c:95`) is never looked at; `docs/PROBES.md:346-347,366-368`
    has it count.
  - `ListedCounts` — a member beyond the buffer of a line is missed (`src/util.c:330`).
  - `ShortfallsReported` — -1, a legal value of `perf_event_paranoid`, is taken for
    unreadable (`kernel_hardening.c:86`); `docs/PROBES.md:409-410` has every shortfall
    reported.
  - `CleanMeansChecked` — "All kernel hardening checks pass" (108) is said even if nothing
    could be read.
  - `CveBefore122` — of `0.122` only the 0 is compared (`polkit.c:74`);
    `docs/PROBES.md:190-191` says "before 0.122".

Met while reading, without a run so far:

- `docs/TRUTHIMATICS.md:140-149`, Example 3, gives a verdict the engine does not.
- `src/risk.c:5-7` words the bonus differently from the scores of 5.0 it counts.
- `docs/COMPOSITION.md:177-180` and `src/compose.c:257-258` disagree on whether
  two entry techniques for the same token are reported separately; they are not.
- `world_writable` uses absolute directories and ignores `--root`, as do groups
  and parts of polkit; it reports a file below `/usr/local/etc` twice.
- Exit status 125 is never returned: out of memory aborts, and a bad command line gives 1
  (`src/main.c:155`), where `man/z_privesc.1:67-75` keeps 1 for a probe that failed and says
  125 for argument validation.
- A clean host exits with 2, for the link that says so carries risk (`src/main.c:186`);
  `man/z_privesc.1:64-65` promises 0.
- Any link of the nfs probe above INFO grants ROOT (`src/compose.c:162-164`), not only
  `no_root_squash` as the comment there and `docs/COMPOSITION.md:91-92` say.
- `docs/adr/002-probe-design.md:23` calls every probe bounded; `docker_ping` and any `fopen` of
  a FIFO are not (`EndsOrHeld`).
- An unknown `--probe` name is ignored: an empty report and exit status 0.
- `zp_path_normalize` (`src/util.c:91-97`) builds its result over the segments
  it still has to read; an already normal `/a/b` becomes `//b`.  Only
  the tests call it.

Met while modelling the probes; the model follows the code:

- kernel_hardening: `fs.suid_dumpable` is wanted to be at least 0 and can never
  fall short (52, 89).
- sudoers: NOPASSWD is looked for in the field of the user (77), so the line
  `user ALL=(ALL) NOPASSWD: ALL` of `docs/PROBES.md:295-305` is reported only for
  its ALL, and a rule with ALL is reported whomever it is for (80).
- nfs: a `*` at the end of a line keeps the newline and is not the world, contrary
  to the comment at `nfs.c:56`; only the first host of a line is looked at.
- polkit: the branch for 120 and 121 (74-81) is never taken; `0.120` has major
  version 0.
- A symbolic link always looks world-writable (`writable_etc.c:94`,
  `ld_preload.c:35`, `polkit.c:98`).
- capabilities: `CapBnd` is a hexadecimal number, in which no name is ever found (217).
- service: `User=root` also matches `User=rootless` (70), and a unit without
  `User=`, which systemd runs as root, is passed over; a unit is reported twice where
  `/lib` is a link to `/usr/lib` (187).
- cron: wildcards are looked for only in `/etc/crontab` (176); `/etc/cron.d` is
  listed twice.
- process: a binary that is itself called "x (deleted)" is reported as deleted (109);
  without `/proc` it leaves no link at all, not even a CLEAN one (88-90).
- docker_socket: the same socket is reported for `/var/run` and `/run`; a LOW finding still
  grants CONTAINER_ESCAPE.  A daemon that hangs up early kills the audit by SIGPIPE (44),
  where `docs/ARCHITECTURE.md:35-37` has a probe return a status code; one that sends its
  status line in two pieces is graded below the CRITICAL of `docs/PROBES.md:165` (50).
- The composer grants READ_ROOT_KEY for any user's key, no token for a writable
  `/etc/passwd`, EXEC_AS_ROOT for a dangerous name even if the file is only SGID
  or not root's, and WRITE_CRON for any path that contains "cron".
- writable_path: an empty part of `PATH`, which means the current directory, is
  skipped by `strtok_r`.

## 6. Not modelled

- The logger (one thread, so its mutex is never contended), crypto (a pure hash
  nothing depends on), the text and layout of the documents, and the evaluation
  scripts, benchmarks and testbeds, which are not part of the program.
- `--root` beyond what it changes in service and process; `--verbose`, `--quiet`
  and `--no-color`, which only reach the logger.
- Lines longer than a buffer other than in `/etc/group`, malformed lines of
  sudoers, exports, passwd and group, and paths longer than `PATH_MAX`.
- `zp_path_normalize`, `zp_file_readable` and other helpers of `src/util.c` that
  only the tests call, and the wrappers of a single system call.
- A file system that fails: read errors other than a file or directory that
  cannot be opened.

## 7. Plan

Done: the chain and the engine (1), the composer (2), the run as a whole with
risk and audit context (3), the directory walks (4), the docker probe against a
daemon (5), the file probes over a tree that changes, processes among it (6, 7),
the user database (8), the facts against reference definitions (9), and the proofs
of the safety of all of them.

Left: the outcomes of `AuditRun` are any return code and any chain, of which the
chains of `Probes`, `DirScan` and `DockerProbe` are instances; that they are is not
stated as a refinement.
