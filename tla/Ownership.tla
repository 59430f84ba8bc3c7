----------------------------- MODULE Ownership ------------------------------
(***************************************************************************)
(* Which process is the daemon (daemon/src/lock.ts, ownership.ts and       *)
(* start() of main.ts): the lock file, the takeover of a holder that does  *)
(* not answer, the socket file and the watch on it, shutdown, and the      *)
(* hand-over of the interrupted turn through the pending-turn file.        *)
(*                                                                         *)
(* Several processes run at once, so an action is one system call that     *)
(* another process can see: a file created, written, read or removed.      *)
(***************************************************************************)
EXTENDS Naturals, FiniteSets

CONSTANTS
    Procs,      \* process instances: a pid together with its start time
    Nobody,     \* no process; no file
    HasProc,    \* whether /proc gives start times on this platform
    Wedges,     \* whether a probe of a listening daemon may time out
    CloseUnlinks    \* whether closing a listening server removes its path

ASSUME OwnershipAssumption ==
    /\ Nobody \notin Procs
    /\ {HasProc, Wedges, CloseUnlinks} \subseteq BOOLEAN

VARIABLES
    pc,         \* where each process is in its code
    round,      \* which of claimOwnership's two acquireLock calls it is in
    attempt,    \* the loop counter of acquireLock
    holder,     \* the lock holder a process has read
    lock,       \* the lock file: who created it, and whether it has its text
    socket,     \* the listener whose socket file is at socketPath, or Nobody
    boundIno,   \* the socket a process takes for its own, or Nobody
    term,       \* processes with a SIGTERM to handle
    busy,       \* daemons driving a turn of the one session followed here
    turnFile,   \* the pending-turn file is there
    reused,     \* dead processes whose pid now names an unrelated process
    strays,     \* history: processes whose SIGTERM went to such a process
    outrun,     \* history: see ReusePid
    alone       \* history: see Spawn

vars == <<pc, round, attempt, holder, lock, socket, boundIno, term, busy, turnFile,
          reused, strays, outrun, alone>>

files  == <<lock, socket, turnFile>>
claim  == <<round, attempt, holder>>
kills  == <<strays, outrun>>
world  == <<reused, kills, alone>>

Locks == [by : Procs \cup {Nobody}, written : BOOLEAN]

NoLock == [by |-> Nobody, written |-> FALSE]

NotAlone == [who |-> Nobody, with |-> Nobody]

-----------------------------------------------------------------------------
(* lock.ts                                                                 *)

Claiming  == {"open", "write", "check", "unlink", "read", "probe", "identify", "signal",
              "grace", "steal", "stealUnlink"}
Starting  == {"unlinkSocket", "bind", "scan"}
Leaving   == {"release", "releaseUnlink", "quit", "quitUnlink", "park"}
PCs       == {"off", "dead", "listening", "up"} \cup Claiming \cup Starting \cup Leaving

Alive(p) == pc[p] \notin {"off", "dead"}

(* readLockHolder: nothing readable in a file that was only just created. *)
ReadLockHolder == IF lock.written THEN lock.by ELSE Nobody

(* Without a start time a reused pid cannot be told from the writer. *)
HolderIsRunning(h) == h # Nobody /\ (Alive(h) \/ (~HasProc /\ h \in reused))

HolderIsIdentified_ByPid(h) == h # Nobody /\ (Alive(h) \/ h \in reused)

HolderIsIdentified(h) == HasProc /\ HolderIsRunning(h)

(* A daemon is answering on the socket. *)
SocketServing == socket # Nobody /\ pc[socket] \in {"scan", "listening", "up"}

Goto(p, there) == pc' = [pc EXCEPT ![p] = there]

-----------------------------------------------------------------------------

Init ==
    /\ pc = [p \in Procs |-> "off"]
    /\ round = [p \in Procs |-> 1]
    /\ attempt = [p \in Procs |-> 0]
    /\ holder = [p \in Procs |-> Nobody]
    /\ lock = NoLock
    /\ socket = Nobody
    /\ boundIno = [p \in Procs |-> Nobody]
    /\ term = {}
    /\ busy = {}
    /\ turnFile = FALSE
    /\ reused = {}
    /\ strays = {}
    /\ outrun = {}
    /\ alone = NotAlone

(* A daemon that is up, holds the lock and has its socket in place. *)
Settled(d) == pc[d] = "up" /\ lock.by = d /\ lock.written /\ socket = d /\ boundIno[d] = d

(* A window that cannot reach a daemon starts one.  `alone` remembers a    *)
(* process that started while no other was running, or only a settled      *)
(* daemon, as long as nothing else starts, is told to stop or dies.        *)
Spawn(p) ==
    /\ pc[p] = "off"
    /\ Goto(p, "open")
    /\ alone' = LET others == {q \in Procs : Alive(q)} IN
                IF others = {} THEN [who |-> p, with |-> Nobody]
                ELSE IF \E d \in others : others = {d} /\ Settled(d) /\ d \notin term
                THEN [who |-> p, with |-> CHOOSE d \in others : TRUE]
                ELSE NotAlone
    /\ UNCHANGED <<claim, files, boundIno, term, busy, reused, kills>>

(* acquireLock: openSync(lockFile, 'wx'). *)
Open(p) ==
    /\ pc[p] = "open"
    /\ IF lock = NoLock
       THEN lock' = [by |-> p, written |-> FALSE] /\ Goto(p, "write")
       ELSE Goto(p, "check") /\ UNCHANGED lock
    /\ UNCHANGED <<claim, socket, turnFile, boundIno, term, busy, world>>

(* acquireLock: writeSync into the file it created, which may no longer be *)
(* the one at the path.                                                    *)
Write(p) ==
    /\ pc[p] = "write"
    /\ lock' = IF lock.by = p THEN [lock EXCEPT !.written = TRUE] ELSE lock
    /\ Goto(p, "unlinkSocket")
    /\ UNCHANGED <<claim, socket, turnFile, boundIno, term, busy, world>>

(* acquireLock gives up: claimOwnership goes on to takeover after its      *)
(* first call, and the process exits after the second.                     *)
NotAcquired(p) == IF round[p] = 1 THEN "read" ELSE "dead"

(* acquireLock: a running holder is respected. *)
Check(p) ==
    /\ pc[p] = "check"
    /\ Goto(p, IF HolderIsRunning(ReadLockHolder) THEN NotAcquired(p) ELSE "unlink")
    /\ UNCHANGED <<claim, files, boundIno, term, busy, world>>

(* acquireLock: whatever is at the path now is removed; two tries in all.  *)
Unlink_Keeps(p) ==
    /\ pc[p] = "unlink"
    /\ IF attempt[p] = 0
       THEN attempt' = [attempt EXCEPT ![p] = 1] /\ Goto(p, "open")
       ELSE attempt' = attempt /\ Goto(p, NotAcquired(p))
    /\ UNCHANGED <<round, holder, files, boundIno, term, busy, world>>

Unlink(p) ==
    /\ pc[p] = "unlink"
    /\ lock' = NoLock
    /\ IF attempt[p] = 0
       THEN attempt' = [attempt EXCEPT ![p] = 1] /\ Goto(p, "open")
       ELSE attempt' = attempt /\ Goto(p, NotAcquired(p))
    /\ UNCHANGED <<round, holder, socket, turnFile, boundIno, term, busy, world>>

-----------------------------------------------------------------------------
(* claimOwnership                                                          *)

Read(p) ==
    /\ pc[p] = "read"
    /\ holder' = [holder EXCEPT ![p] = ReadLockHolder]
    /\ Goto(p, "probe")
    /\ UNCHANGED <<round, attempt, files, boundIno, term, busy, world>>

(* socketServing: it answers, or nothing does within the timeout. *)
Probe(p) ==
    /\ pc[p] = "probe"
    /\ \/ SocketServing /\ Goto(p, "dead")
       \/ (~SocketServing \/ Wedges) /\ Goto(p, "identify")
    /\ UNCHANGED <<claim, files, boundIno, term, busy, world>>

(* Only a holder that is the process that wrote the lock is to be          *)
(* signalled: its start time is read,                                      *)
Identify(p) ==
    /\ pc[p] = "identify"
    /\ Goto(p, IF HolderIsIdentified(holder[p]) THEN "signal" ELSE "steal")
    /\ UNCHANGED <<claim, files, boundIno, term, busy, world>>

(* and then its pid is signalled, whosever it is by now.  SIGTERM ends a   *)
(* process that has not reached the end of start(), is queued for one that *)
(* has, and fails where there is no process.                               *)
Signal(p) ==
    LET h == holder[p] IN
    /\ pc[p] = "signal"
    /\ pc' = [q \in Procs |->
                 IF q = p THEN "grace"
                 ELSE IF q = h /\ pc[q] \in Claiming \cup Starting THEN "dead"
                 ELSE pc[q]]
    /\ term' = term \cup {q \in Procs : q = h /\ pc[q] \in {"listening", "up"}}
    /\ strays' = IF h \in reused THEN strays \cup {p} ELSE strays
    /\ UNCHANGED <<claim, files, boundIno, busy, reused, outrun, alone>>

(* The wait ends when the holder lets go, or when graceMs are over. *)
Grace(p) ==
    /\ pc[p] = "grace"
    /\ Goto(p, "steal")
    /\ UNCHANGED <<claim, files, boundIno, term, busy, world>>

(* The second acquireLock. *)
Retry(p, there) ==
    /\ Goto(p, there)
    /\ round' = [round EXCEPT ![p] = 2]
    /\ attempt' = [attempt EXCEPT ![p] = 0]

Steal(p) ==
    /\ pc[p] = "steal"
    /\ IF holder[p] # Nobody /\ ReadLockHolder = holder[p]
       THEN Goto(p, "stealUnlink") /\ UNCHANGED claim
       ELSE Retry(p, "open") /\ UNCHANGED holder
    /\ UNCHANGED <<files, boundIno, term, busy, world>>

StealUnlink(p) ==
    /\ pc[p] = "stealUnlink"
    /\ lock' = NoLock
    /\ Retry(p, "open")
    /\ UNCHANGED <<holder, socket, turnFile, boundIno, term, busy, world>>

-----------------------------------------------------------------------------
(* start()                                                                 *)

UnlinkSocket(p) ==
    /\ pc[p] = "unlinkSocket"
    /\ socket' = Nobody
    /\ Goto(p, "bind")
    /\ UNCHANGED <<claim, lock, turnFile, boundIno, term, busy, world>>

(* listen() fails when a file is at the path: onServerError, then exit. *)
Bind(p) ==
    /\ pc[p] = "bind"
    /\ IF socket = Nobody
       THEN socket' = p /\ Goto(p, "scan")
       ELSE UNCHANGED socket /\ Goto(p, "quit")
    /\ UNCHANGED <<claim, lock, turnFile, boundIno, term, busy, world>>

(* The turn queued on disk is restored, and signals are handled from here. *)
Scan(p) ==
    /\ pc[p] = "scan"
    /\ busy' = IF turnFile THEN busy \cup {p} ELSE busy
    /\ Goto(p, "listening")
    /\ UNCHANGED <<claim, files, boundIno, term, world>>

(* The listening callback: stat whatever is at the path by now. *)
Listening(p) ==
    /\ pc[p] = "listening"
    /\ boundIno' = [boundIno EXCEPT ![p] = socket]
    /\ Goto(p, "up")
    /\ UNCHANGED <<claim, files, term, busy, world>>

(* socketWatch: rebind a path that vanished; stand down for another's. *)
SocketWatch_OnlyRebinds(p) ==
    /\ pc[p] = "up" /\ p \notin term
    /\ boundIno[p] # Nobody
    /\ socket # boundIno[p]
    /\ socket = Nobody
    /\ socket' = p
    /\ boundIno' = [boundIno EXCEPT ![p] = Nobody]
    /\ Goto(p, "listening")
    /\ UNCHANGED <<claim, lock, turnFile, term, busy, world>>

SocketWatch_OnlyStandsDown(p) ==
    /\ pc[p] = "up" /\ p \notin term
    /\ boundIno[p] # Nobody
    /\ socket \notin {boundIno[p], Nobody}
    /\ Goto(p, "quit")
    /\ UNCHANGED <<claim, files, boundIno, term, busy, world>>

SocketWatch(p) ==
    /\ pc[p] = "up" /\ p \notin term
    /\ boundIno[p] # Nobody
    /\ socket # boundIno[p]
    /\ IF socket = Nobody
       THEN /\ socket' = p
            /\ boundIno' = [boundIno EXCEPT ![p] = Nobody]
            /\ Goto(p, "listening")
       ELSE /\ Goto(p, "quit")
            /\ UNCHANGED <<socket, boundIno>>
    /\ UNCHANGED <<claim, lock, turnFile, term, busy, world>>

-----------------------------------------------------------------------------
(* Leaving                                                                 *)

(* shutdown(): close the servers; remove the socket only if it is ours. *)
Shutdown(p) ==
    /\ pc[p] = "up" /\ p \in term
    /\ socket' = IF CloseUnlinks \/ (boundIno[p] # Nobody /\ socket = boundIno[p])
                 THEN Nobody ELSE socket
    /\ Goto(p, "release")
    /\ UNCHANGED <<claim, lock, turnFile, boundIno, term, busy, world>>

(* releaseLock, from shutdown() and before process.exit(): read, compare,  *)
(* then remove.                                                            *)
Release(p) ==
    \/ /\ pc[p] = "release"
       /\ Goto(p, IF ReadLockHolder = p THEN "releaseUnlink" ELSE "park")
       /\ UNCHANGED <<claim, files, boundIno, term, busy, world>>
    \/ /\ pc[p] = "quit"
       /\ Goto(p, IF ReadLockHolder = p THEN "quitUnlink" ELSE "dead")
       /\ busy' = IF ReadLockHolder = p THEN busy ELSE busy \ {p}
       /\ UNCHANGED <<claim, files, boundIno, term, world>>

ReleaseUnlink(p) ==
    /\ \/ pc[p] = "releaseUnlink" /\ Goto(p, "park") /\ UNCHANGED busy
       \/ pc[p] = "quitUnlink" /\ Goto(p, "dead") /\ busy' = busy \ {p}
    /\ lock' = NoLock
    /\ UNCHANGED <<claim, socket, turnFile, boundIno, term, world>>

(* parkForRestart and dispose, then exit. *)
Park(p) ==
    /\ pc[p] = "park"
    /\ turnFile' = (turnFile \/ p \in busy)
    /\ busy' = busy \ {p}
    /\ Goto(p, "dead")
    /\ UNCHANGED <<claim, lock, socket, boundIno, term, world>>

-----------------------------------------------------------------------------
(* The world around                                                        *)

(* A message reaches the daemon behind the socket, and its turn ends. *)
TurnBegins(p) ==
    /\ socket = p /\ pc[p] = "up"
    /\ p \notin busy
    /\ busy' = busy \cup {p}
    /\ turnFile' = FALSE
    /\ UNCHANGED <<pc, claim, lock, socket, boundIno, term, world>>

TurnIsOver(p) ==
    /\ pc[p] = "up" /\ p \in busy
    /\ busy' = busy \ {p}
    /\ turnFile' = FALSE
    /\ UNCHANGED <<pc, claim, lock, socket, boundIno, term, world>>

(* An upgrade or a user tells a daemon to stop. *)
Terminate(p) ==
    /\ pc[p] = "up" /\ p \notin term
    /\ term' = term \cup {p}
    /\ alone' = NotAlone
    /\ UNCHANGED <<pc, claim, files, boundIno, busy, reused, kills>>

(* SIGKILL, out of memory, a container that goes away. *)
Crash(p) ==
    /\ Alive(p)
    /\ Goto(p, "dead")
    /\ busy' = busy \ {p}
    /\ alone' = NotAlone
    /\ UNCHANGED <<claim, files, boundIno, term, reused, kills>>

(* The pid of a dead process is handed out again.  `outrun` remembers who *)
(* had identified that process and was about to signal it.                 *)
ReusePid(p) ==
    /\ pc[p] = "dead" /\ p \notin reused
    /\ reused' = reused \cup {p}
    /\ outrun' = outrun \cup {q \in Procs : pc[q] = "signal" /\ holder[q] = p}
    /\ UNCHANGED <<pc, claim, files, boundIno, term, busy, strays, alone>>

-----------------------------------------------------------------------------

Acquire(p) == Open(p) \/ Write(p) \/ Check(p) \/ Unlink(p)
Claim(p)   == Read(p) \/ Probe(p) \/ Identify(p) \/ Signal(p) \/ Grace(p) \/ Steal(p)
                \/ StealUnlink(p)
Serve(p)   == UnlinkSocket(p) \/ Bind(p) \/ Scan(p) \/ Listening(p) \/ SocketWatch(p)
Leave(p)   == Shutdown(p) \/ Release(p) \/ ReleaseUnlink(p) \/ Park(p)
Outside(p) == Spawn(p) \/ TurnBegins(p) \/ TurnIsOver(p) \/ Terminate(p) \/ Crash(p)
                \/ ReusePid(p)

ProcStep(p) == Acquire(p) \/ Claim(p) \/ Serve(p) \/ Leave(p)

Next == \E p \in Procs : ProcStep(p) \/ Outside(p)

Spec == Init /\ [][Next]_vars

(* A process that runs takes its next step; the watch is a timer and comes *)
(* round.  Nothing is assumed of users, crashes or the operating system.   *)
Fairness == \A p \in Procs : WF_vars(ProcStep(p))

FairSpec == Spec /\ Fairness

-----------------------------------------------------------------------------
(* Properties                                                              *)

TypeOK ==
    /\ pc \in [Procs -> PCs]
    /\ round \in [Procs -> 1..2]
    /\ attempt \in [Procs -> 0..1]
    /\ holder \in [Procs -> Procs \cup {Nobody}]
    /\ lock \in Locks
    /\ socket \in Procs \cup {Nobody}
    /\ boundIno \in [Procs -> Procs \cup {Nobody}]
    /\ term \subseteq Procs /\ busy \subseteq Procs /\ reused \subseteq Procs
    /\ strays \cup outrun \subseteq Procs
    /\ turnFile \in BOOLEAN
    /\ alone \in [who : Procs \cup {Nobody}, with : Procs \cup {Nobody}]

(* claimOwnership signals an unrelated process only if the writer of the   *)
(* lock exits, and its pid is handed out again, in the instant between the *)
(* look at its start time and the signal: never if that happened before,   *)
(* as in the two seconds of the probe or since another container's days.   *)
NoStrayKill == strays \subseteq outrun

(* A process that starts beside a daemon that works leaves it alone and    *)
(* exits: it takes neither the lock nor the socket, and signals nobody.    *)
LoneStartDefers ==
    alone.with # Nobody => pc[alone.who] \in {"open", "check", "read", "probe", "dead"}

(* A process that starts when no other runs becomes the daemon, whatever   *)
(* lock and socket earlier ones left behind: a crash at any step, or a pid *)
(* reused since, never locks the next daemon out.                          *)
LoneStartGetsThrough ==
    alone.who # Nobody /\ alone.with = Nobody => pc[alone.who] \notin Leaving \cup {"dead"}

(* Together: a start that meets no other start leaves exactly one daemon,  *)
(* the one that works or itself.                                           *)
LoneStartSettles == LoneStartDefers /\ LoneStartGetsThrough

(* Two daemons that each recorded their own socket do not both stay: the   *)
(* watch makes one of them stand down.                                     *)
Recorded == {p \in Procs : pc[p] = "up" /\ boundIno[p] = p}

DaemonsConverge == (Cardinality(Recorded) > 1) ~> (Cardinality(Recorded) <= 1)

(* An older build deletes the socket of the daemon that replaced it: a     *)
(* daemon that recorded its socket does not stay behind a path that is     *)
(* gone, where nobody reaches it and nobody can start another.             *)
LostSocketIsRebound ==
    \A p \in Procs : p \in Recorded /\ socket = Nobody ~> p \notin Recorded \/ socket # Nobody

-----------------------------------------------------------------------------
(* Statements of the code's comments that its behaviour does not bear out  *)

(* lock.ts: creating the file with O_EXCL "makes this actually exclusive". *)
ExclusiveClaim ==
    \A p, q \in Procs : pc[p] \in Starting /\ pc[q] \in Starting => p = q

(* README: a turn interrupted by a restart is "re-armed when the daemon    *)
(* comes back": the only daemon there is drives the turn on disk.          *)
HandoverKeepsTheTurn ==
    \A p \in Procs : turnFile /\ Settled(p) /\ (\A q \in Procs \ {p} : ~Alive(q)) => p \in busy
=============================================================================
