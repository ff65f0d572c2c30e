--------------------------- MODULE StartupProofs ----------------------------
(***************************************************************************)
(* Proofs about how a workspace gets its coordinator: the process that     *)
(* serves it and the store it opens.                                       *)
(*                                                                         *)
(* Lifecycle: for any number of processes that race to spawn, join, stop   *)
(* and lose the coordinator of a workspace, two servers never run on one   *)
(* store (adapters/claude_code/lifecycle.py).  The flock of an inode has   *)
(* one holder.  A call holds it from the moment it wins until it hands it  *)
(* to the server it bound, and that server holds it until its store is     *)
(* closed (SpawnerHolds, ServerHolds); conversely whoever the lock names   *)
(* is at such a point (HolderIsLive).  Two servers on one inode would both *)
(* hold its lock.                                                          *)
(*                                                                         *)
(* Schema: for any number of processes that open one store, race and are   *)
(* killed, the store says what it is, only moves forward, and stays usable *)
(* (sqlite_registry.py, SqliteArtifactRegistry.__init__).                  *)
(***************************************************************************)
EXTENDS Lifecycle, Schema, TLAPS

-----------------------------------------------------------------------------
(* Lifecycle: the inductive invariant.                                     *)

\* Where a call owns the lock of the file it has open, and where it owns a server.
Spawning == {"bind", "recheck", "publish", "serve"}
Binding == {"recheck", "publish", "serve"}

\* A call in the loop has a file open, and one that may still fail to find a port
\* has an attempt left.
CallsAreSound ==
  \A p \in Procs :
    /\ call[p].pc \in {"loop", "lock", "read"} \cup Spawning => call[p].fd \in Inodes
    /\ call[p].pc \in {"lock", "read"} => call[p].attempt < port_file_retry_attempts

\* The file at the path is the one made after the last removal.
PathIsLatest == path \in {0, removals + 1}

\* A call that spawns holds the lock of its file.
SpawnerHolds ==
  \A p \in Procs : call[p].pc \in Spawning => lock[call[p].fd] = <<p, Caller>>

\* The server a call has bound is its own, on its file, and not started yet.
SpawnerBinds ==
  \A p \in Procs : call[p].pc \in Binding =>
    /\ call[p].port \in Ports
    /\ server[call[p].port].phase = "bound"
    /\ server[call[p].port].proc = p
    /\ server[call[p].port].inode = call[p].fd

\* A server that is bound and not started belongs to a call on its way to start it.
BoundIsSpawned ==
  \A q \in Ports : server[q].phase = "bound" =>
    /\ server[q].proc \in Procs
    /\ call[server[q].proc].pc \in Binding
    /\ call[server[q].proc].port = q

\* A started server holds the lock of its file until its store is closed.
ServerHolds ==
  \A q \in Ports : server[q].phase \in Locked =>
    /\ server[q].proc \in Procs /\ server[q].inode \in Inodes
    /\ lock[server[q].inode] = <<server[q].proc, q>>

\* A server that let its lock go still belongs to a process.
ReleasedIsOwned ==
  \A q \in Ports : server[q].phase = "released" => server[q].proc \in Procs

\* A server that may still shut down has failures left.
FailuresLeft ==
  \A q \in Ports : server[q].phase # "released" => server[q].aborts < MAX_SHUTDOWN_RETRIES

\* The lock of a file names a call that spawns on it or a server that runs on it.
HolderIsLive ==
  \A i \in Inodes : lock[i] # None =>
    \/ lock[i][2] = Caller /\ call[lock[i][1]].pc \in Spawning /\ call[lock[i][1]].fd = i
    \/ /\ lock[i][2] \in Ports
       /\ server[lock[i][2]].phase \in Locked
       /\ server[lock[i][2]].proc = lock[i][1]
       /\ server[lock[i][2]].inode = i

\* A port that is advertised and not stale belongs to a server that serves, or to
\* one whose call has published it.
AdvertisedIsLive ==
  \A i \in Inodes : pidfile[i] # None /\ ~stale[i] =>
    /\ server[pidfile[i]].inode = i
    /\ \/ server[pidfile[i]].phase = "serving"
       \/ /\ server[pidfile[i]].phase = "bound"
          /\ call[server[pidfile[i]].proc].pc = "serve"

CallInv == CallsAreSound /\ PathIsLatest
LockInv == SpawnerHolds /\ SpawnerBinds /\ BoundIsSpawned /\ ServerHolds /\ HolderIsLive
ServerInv == ReleasedIsOwned /\ FailuresLeft /\ EntryIsOwn /\ AdvertisedIsLive

LifecycleInv == TypeOK /\ CallInv /\ LockInv /\ ServerInv

\* The conjuncts that a change of call or server can disturb.
ProtocolInv == CallsAreSound /\ LockInv /\ ServerInv

\* What the types say of a lock, a call and a server (the values the code stores).
LEMMA Typed ==
  ASSUME TypeOK
  PROVE  /\ \A i \in Inodes : lock[i] # None =>
              lock[i][1] \in Procs /\ lock[i][2] \in Ports \cup {Caller}
                /\ lock[i] = <<lock[i][1], lock[i][2]>>
         /\ \A p \in Procs : call[p] \in Call
         /\ \A q \in Ports : server[q] \in Server
  BY DEF TypeOK, Holder

\* A port is never taken for the file descriptor of a call, a process, or None.
LEMMA Distinct ==
  /\ Caller \notin Ports /\ None \notin Ports /\ None \notin Procs
  /\ \A p \in Procs, c \in Ports \cup {Caller} : <<p, c>> # None
  BY PortsAssumption, NoneAssumption DEF Caller, Holder

\* The initial state has no file, no call and no server (a workspace before the first
\* ensure_coordinator).
LEMMA InitEstablishes == Init => LifecycleInv
<1> SUFFICES ASSUME Init PROVE LifecycleInv
  OBVIOUS
<1>1. /\ port_file_retry_attempts \in Nat /\ inode_revalidation_budget \in Nat
      /\ MAX_SHUTDOWN_RETRIES \in Nat \ {0}
      /\ MaxCalls \in Nat /\ MaxRemovals \in Nat /\ MaxFaults \in Nat
  BY BoundsAssumption
<1>2. Idle \in Call /\ FreeServer \in Server
  BY <1>1 DEF Idle, Call, PCs, FreeServer, Server, Phases
<1>3. TypeOK
  BY <1>1, <1>2 DEF Init, TypeOK
<1>4. CallInv
  BY DEF Init, CallInv, CallsAreSound, PathIsLatest, Spawning, Idle
<1>5. LockInv
  BY DEF Init, LockInv, SpawnerHolds, SpawnerBinds, BoundIsSpawned, ServerHolds, HolderIsLive,
         Spawning, Binding, Locked, Idle, FreeServer
<1>6. ServerInv
  BY <1>1 DEF Init, ServerInv, ReleasedIsOwned, FailuresLeft, EntryIsOwn, AdvertisedIsLive,
              Locked, FreeServer
<1> QED
  BY <1>3, <1>4, <1>5, <1>6 DEF LifecycleInv

-----------------------------------------------------------------------------
(* Steps of a call.                                                        *)

\* A call that is not about to start a server does not decide whether one is
\* advertised (pid files, servers and the rest of the calls are left alone).
LEMMA AdvertisedKept ==
  ASSUME LifecycleInv, NEW p \in Procs, call[p].pc # "serve",
         \A r \in Procs : r # p => call'[r] = call[r],
         UNCHANGED <<pidfile, stale, server>>
  PROVE  AdvertisedIsLive'
<1> SUFFICES ASSUME NEW i \in Inodes, pidfile[i] # None, ~stale[i]
             PROVE  /\ server[pidfile[i]].inode = i
                    /\ \/ server[pidfile[i]].phase = "serving"
                       \/ /\ server[pidfile[i]].phase = "bound"
                          /\ call'[server[pidfile[i]].proc].pc = "serve"
  BY DEF AdvertisedIsLive
<1>1. pidfile[i] \in Ports
  BY DEF LifecycleInv, TypeOK
<1> QED
  BY <1>1 DEF LifecycleInv, ServerInv, AdvertisedIsLive, LockInv, BoundIsSpawned

\* A step of a call that neither holds the lock before nor after it disturbs nothing
\* (the probes and reads of connect_or_spawn and of ensure_coordinator's loop).
LEMMA QuietCall ==
  ASSUME LifecycleInv, NEW p \in Procs, NEW c \in Call,
         call[p].pc \notin Spawning, c.pc \notin Spawning,
         c.pc \in {"loop", "lock", "read"} => c.fd \in Inodes,
         c.pc \in {"lock", "read"} => c.attempt < port_file_retry_attempts,
         call' = [call EXCEPT ![p] = c],
         UNCHANGED <<pidfile, lock, stale, entry, server>>
  PROVE  ProtocolInv' /\ call' \in [Procs -> Call]
<1>1. /\ call' \in [Procs -> Call]
      /\ \A r \in Procs : call'[r] = IF r = p THEN c ELSE call[r]
  BY DEF LifecycleInv, TypeOK
<1>2. CallsAreSound'
  BY <1>1 DEF LifecycleInv, CallInv, CallsAreSound, Spawning
<1>3. SpawnerHolds' /\ SpawnerBinds'
  BY ZenonT(60), <1>1 DEF LifecycleInv, LockInv, SpawnerHolds, SpawnerBinds, Spawning, Binding
<1>4. BoundIsSpawned' /\ ServerHolds'
  BY <1>1 DEF LifecycleInv, LockInv, BoundIsSpawned, ServerHolds, Spawning, Binding
<1>5. HolderIsLive'
  BY <1>1, Typed DEF LifecycleInv, LockInv, HolderIsLive
<1>6. ServerInv'
  <2>1. AdvertisedIsLive'
    BY <1>1, AdvertisedKept DEF Spawning
  <2> QED
    BY <2>1 DEF LifecycleInv, ServerInv, ReleasedIsOwned, FailuresLeft, EntryIsOwn
<1> QED
  BY <1>1, <1>2, <1>3, <1>4, <1>5, <1>6 DEF ProtocolInv, LockInv

\* The parts of the invariant make the whole: a step that keeps the types, the path
\* and the protocol keeps it (any step of lifecycle.py).
LEMMA Together ==
  ASSUME TypeOK', PathIsLatest', ProtocolInv'
  PROVE  LifecycleInv'
  BY DEF LifecycleInv, CallInv, ProtocolInv

\* The bounds are numbers.
LEMMA Bounds ==
  /\ port_file_retry_attempts \in Nat /\ inode_revalidation_budget \in Nat
  /\ MAX_SHUTDOWN_RETRIES \in Nat \ {0}
  /\ MaxCalls \in Nat /\ MaxRemovals \in Nat /\ MaxFaults \in Nat
  BY BoundsAssumption

\* A call record with new fields is a call record (the local variables of
\* ensure_coordinator).
LEMMA CallShape ==
  /\ Idle \in Call
  /\ FreeServer \in Server
  /\ \A c \in Call, pc \in PCs : [c EXCEPT !.pc = pc] \in Call
  /\ \A port \in Ports \cup {None} :
       [Idle EXCEPT !.pc = "verify", !.port = port] \in Call
  /\ \A probes \in BOOLEAN, pc \in PCs : [Idle EXCEPT !.pc = pc, !.probes = probes] \in Call
<1>1. Idle \in Call /\ FreeServer \in Server
  BY Bounds DEF Idle, Call, PCs, FreeServer, Server, Phases
<1> QED
  BY ZenonT(60), <1>1 DEF Call, PCs

\* Moving on in the code keeps a call's local variables.
LEMMA StepCall ==
  ASSUME TypeOK, NEW p \in Procs, NEW pc \in PCs, Step(p, pc)
  PROVE  \E c \in Call : /\ c.pc = pc /\ c.fd = call[p].fd
                         /\ c.attempt = call[p].attempt /\ c.port = call[p].port
                         /\ call' = [call EXCEPT ![p] = c]
<1>1. PICK c : c = [call[p] EXCEPT !.pc = pc]
  BY ZenonT(60)
<1>2. call[p] \in Call
  BY DEF TypeOK
<1>3. c \in Call
  BY ZenonT(60), <1>1, <1>2, CallShape
<1>4. c.pc = pc /\ c.fd = call[p].fd /\ c.attempt = call[p].attempt /\ c.port = call[p].port
  BY <1>1, <1>2 DEF Call
<1>5. call' = [call EXCEPT ![p] = c]
  BY <1>1 DEF Step, TypeOK
<1> QED
  BY ZenonT(60), <1>3, <1>4, <1>5

\* Begin starts a call from idle (connect_or_spawn, or ensure_coordinator directly).
LEMMA BeginPreserves ==
  ASSUME LifecycleInv, NEW p \in Procs, NEW probes \in BOOLEAN, Begin(p, probes)
  PROVE  LifecycleInv'
<1>1. PICK pc \in {"connect", "enter"} : pc = IF probes THEN "connect" ELSE "enter"
  OBVIOUS
<1>2. PICK c : c = [Idle EXCEPT !.pc = pc, !.probes = probes]
  OBVIOUS
<1>3. c \in Call /\ c.pc = pc
  BY ZenonT(60), <1>1, <1>2, CallShape DEF PCs, Idle
<1>4. call' = [call EXCEPT ![p] = c]
  BY <1>1, <1>2 DEF Begin
<1>5. ProtocolInv' /\ call' \in [Procs -> Call]
  BY ZenonT(60), <1>1, <1>3, <1>4, QuietCall DEF Begin, Spawning
<1>6. TypeOK' /\ PathIsLatest'
  BY <1>5, Bounds DEF Begin, LifecycleInv, TypeOK, CallInv, PathIsLatest
<1> QED
  BY <1>5, <1>6, Together

\* The answers of ensure_coordinator: the call is over, or connect_or_spawn verifies.
LEMMA EnsuredCall ==
  ASSUME TypeOK, NEW p \in Procs, NEW port \in Ports \cup {None}, Ensured(p, port)
  PROVE  \E c \in Call : c.pc \in {"idle", "verify"} /\ call' = [call EXCEPT ![p] = c]
<1>1. CASE call[p].probes /\ port # None
  <2>1. PICK c : c = [Idle EXCEPT !.pc = "verify", !.port = port]
    OBVIOUS
  <2>2. c \in Call /\ c.pc = "verify"
    BY ZenonT(60), <2>1, CallShape DEF Idle
  <2> QED
    BY ZenonT(60), <1>1, <2>1, <2>2 DEF Ensured
<1>2. CASE ~(call[p].probes /\ port # None)
  BY ZenonT(60), <1>2, CallShape DEF Ensured, Returns, Idle
<1> QED
  BY <1>1, <1>2

\* Opening the pid file finds or makes the file of the latest directory.
LEMMA OpenedCall ==
  ASSUME LifecycleInv, NEW p \in Procs, NEW budget \in 0..inode_revalidation_budget,
         OpenPidfile(p, budget)
  PROVE  /\ path' \in Inodes /\ path' = removals + 1
         /\ \E c \in Call : /\ c.pc = "loop" /\ c.fd \in Inodes
                            /\ call' = [call EXCEPT ![p] = c]
<1>1. PICK inode : inode = IF path = 0 THEN removals + 1 ELSE path
  OBVIOUS
<1>2. inode \in Inodes /\ inode = removals + 1
  BY <1>1, Bounds DEF LifecycleInv, TypeOK, CallInv, PathIsLatest, Inodes
<1>3. PICK c : c = [call[p] EXCEPT !.pc = "loop", !.fd = inode, !.attempt = 0, !.budget = budget]
  OBVIOUS
<1>4. call[p] \in Call
  BY DEF LifecycleInv, TypeOK
<1>5. c \in Call /\ c.pc = "loop" /\ c.fd = inode
  <2>1. inode \in Inodes \cup {0} /\ "loop" \in PCs /\ 0 \in 0..port_file_retry_attempts
    BY <1>2, Bounds DEF PCs
  <2>2. c \in Call
    BY ZenonT(60), <1>3, <1>4, <2>1 DEF Call
  <2> QED
    BY <1>3, <1>4, <2>2 DEF Call
<1>6. call' = [call EXCEPT ![p] = c]
  BY ZenonT(60), <1>1, <1>3 DEF OpenPidfile, LifecycleInv, TypeOK
<1> QED
  BY ZenonT(60), <1>1, <1>2, <1>5, <1>6 DEF OpenPidfile

\* connect_or_spawn reads the port.
LEMMA ConnectPreserves ==
  ASSUME LifecycleInv, NEW p \in Procs, Connect(p)
  PROVE  LifecycleInv'
<1>1. PICK port : port = read_port_from_file
  OBVIOUS
<1>2. port \in Ports \cup {None}
  BY <1>1 DEF read_port_from_file, LifecycleInv, TypeOK
<1>3. PICK pc \in {"enter", "probe"} : pc = IF port = None THEN "enter" ELSE "probe"
  OBVIOUS
<1>4. PICK c : c = [call[p] EXCEPT !.pc = pc, !.port = port]
  OBVIOUS
<1>5. call[p] \in Call /\ pc \in PCs
  BY DEF LifecycleInv, TypeOK, PCs
<1>6. c \in Call
  BY ZenonT(60), <1>2, <1>4, <1>5 DEF Call
<1>7. c.pc = pc
  BY <1>4, <1>5 DEF Call
<1>8. call' = [call EXCEPT ![p] = c]
  BY ZenonT(60), <1>1, <1>3, <1>4 DEF Connect, LifecycleInv, TypeOK
<1>9. ProtocolInv' /\ call' \in [Procs -> Call]
  BY ZenonT(60), <1>6, <1>7, <1>8, QuietCall DEF Connect, Spawning
<1>10. TypeOK' /\ PathIsLatest'
  BY <1>9 DEF Connect, LifecycleInv, TypeOK, CallInv, PathIsLatest
<1> QED
  BY <1>9, <1>10, Together

\* The probe of the port, and the probe of what ensure_coordinator returned.
LEMMA ProbePreserves ==
  ASSUME LifecycleInv, NEW p \in Procs, Probe(p) \/ Verify(p)
  PROVE  LifecycleInv'
<1>1. call[p] \in Call /\ "enter" \in PCs
  BY DEF LifecycleInv, TypeOK, PCs
<1>2. PICK c : /\ c \in {Idle, [call[p] EXCEPT !.pc = "enter"]}
               /\ call' = [call EXCEPT ![p] = c]
  BY SMTT(60) DEF Probe, Verify, Returns, Step, LifecycleInv, TypeOK
<1>3. c \in Call
  BY ZenonT(60), <1>1, <1>2, CallShape
<1>4. c.pc \in {"idle", "enter"}
  BY <1>1, <1>2 DEF Call, Idle
<1>5. ProtocolInv' /\ call' \in [Procs -> Call]
  BY ZenonT(60), <1>2, <1>3, <1>4, QuietCall DEF Probe, Verify, Spawning
<1>6. TypeOK' /\ PathIsLatest'
  BY <1>5 DEF Probe, Verify, LifecycleInv, TypeOK, CallInv, PathIsLatest
<1> QED
  BY <1>5, <1>6, Together

\* ensure_coordinator answers with the server of its own process, or opens the file.
LEMMA EnterPreserves ==
  ASSUME LifecycleInv, NEW p \in Procs, Enter(p)
  PROVE  LifecycleInv'
<1>1. TypeOK
  BY DEF LifecycleInv
<1>2. /\ path' \in Inodes \cup {0} /\ path' \in {0, removals + 1}
      /\ \E c \in Call : /\ c.pc \in {"idle", "verify", "loop"}
                         /\ c.pc = "loop" => c.fd \in Inodes
                         /\ call' = [call EXCEPT ![p] = c]
  <2>1. CASE entry[p] # None /\ Listening(entry[p])
    <3>1. entry[p] \in Ports \cup {None}
      BY <1>1 DEF TypeOK
    <3>2. Ensured(p, entry[p]) /\ path' = path
      BY <2>1 DEF Enter
    <3> QED
      BY <1>1, <3>1, <3>2, EnsuredCall DEF LifecycleInv, TypeOK, CallInv, PathIsLatest
  <2>2. CASE ~(entry[p] # None /\ Listening(entry[p]))
    <3>1. OpenPidfile(p, inode_revalidation_budget)
      BY <2>2 DEF Enter
    <3>2. inode_revalidation_budget \in 0..inode_revalidation_budget
      BY Bounds
    <3> QED
      BY <3>1, <3>2, OpenedCall
  <2> QED
    BY <2>1, <2>2
<1>3. ProtocolInv' /\ call' \in [Procs -> Call]
  BY ZenonT(60), <1>2, QuietCall DEF Enter, Spawning
<1>4. TypeOK' /\ PathIsLatest'
  BY <1>1, <1>2, <1>3 DEF Enter, TypeOK, PathIsLatest
<1> QED
  BY <1>3, <1>4, Together

\* The top of ensure_coordinator's loop.
LEMMA LoopTopPreserves ==
  ASSUME LifecycleInv, NEW p \in Procs, LoopTop(p)
  PROVE  LifecycleInv'
<1>1. TypeOK /\ call[p] \in Call
  BY DEF LifecycleInv, TypeOK
<1>2. call[p].fd \in Inodes
  BY DEF LoopTop, LifecycleInv, CallInv, CallsAreSound
<1>3. /\ path' \in Inodes \cup {0} /\ path' \in {0, removals + 1}
      /\ \E c \in Call : /\ c.pc \in {"idle", "verify", "loop", "lock"}
                         /\ c.pc \in {"loop", "lock"} => c.fd \in Inodes
                         /\ c.pc = "lock" => c.attempt < port_file_retry_attempts
                         /\ call' = [call EXCEPT ![p] = c]
  <2>1. CASE Ensured(p, None) /\ UNCHANGED path
    BY <1>1, <2>1, EnsuredCall DEF LifecycleInv, TypeOK, CallInv, PathIsLatest
  <2>2. CASE call[p].budget # 0 /\ OpenPidfile(p, call[p].budget - 1)
    <3>1. call[p].budget - 1 \in 0..inode_revalidation_budget
      BY <1>1, <2>2, Bounds DEF Call
    <3> QED
      BY <2>2, <3>1, OpenedCall
  <2>3. CASE /\ call[p].attempt < port_file_retry_attempts
             /\ Step(p, "lock") /\ UNCHANGED path
    <3>1. PICK c \in Call : /\ c.pc = "lock" /\ c.fd = call[p].fd
                            /\ c.attempt = call[p].attempt
                            /\ call' = [call EXCEPT ![p] = c]
      BY <1>1, <2>3, StepCall DEF PCs
    <3> QED
      BY ZenonT(60), <1>2, <2>3, <3>1 DEF LifecycleInv, TypeOK, CallInv, PathIsLatest
  <2> QED
    BY <2>1, <2>2, <2>3 DEF LoopTop
<1>4. ProtocolInv' /\ call' \in [Procs -> Call]
  BY ZenonT(60), <1>3, QuietCall DEF LoopTop, Spawning
<1>5. TypeOK' /\ PathIsLatest'
  BY <1>1, <1>3, <1>4 DEF LoopTop, TypeOK, PathIsLatest
<1> QED
  BY <1>4, <1>5, Together

\* A call that lost the lock reads the winner's port, or tries again.
LEMMA ReadPortPreserves ==
  ASSUME LifecycleInv, NEW p \in Procs, ReadPort(p)
  PROVE  LifecycleInv'
<1>1. TypeOK /\ call[p] \in Call
  BY DEF LifecycleInv, TypeOK
<1>2. call[p].fd \in Inodes /\ call[p].attempt < port_file_retry_attempts
  BY DEF ReadPort, LifecycleInv, CallInv, CallsAreSound
<1>3. \E c \in Call : /\ c.pc \in {"idle", "verify", "loop"}
                      /\ c.pc = "loop" => c.fd \in Inodes
                      /\ call' = [call EXCEPT ![p] = c]
  <2>1. CASE read_port_from_file # None
    <3>1. read_port_from_file \in Ports \cup {None}
      BY <1>1 DEF read_port_from_file, TypeOK
    <3> QED
      BY <1>1, <2>1, <3>1, EnsuredCall DEF ReadPort
  <2>2. CASE read_port_from_file = None
    <3>1. PICK n : n = call[p].attempt + 1
      OBVIOUS
    <3>2. n \in 0..port_file_retry_attempts /\ "loop" \in PCs
      BY <1>1, <1>2, <3>1, Bounds DEF Call, PCs
    <3>3. PICK c : c = [call[p] EXCEPT !.pc = "loop", !.attempt = n]
      OBVIOUS
    <3>4. c \in Call
      BY ZenonT(60), <1>1, <3>2, <3>3 DEF Call
    <3>5. c.pc = "loop" /\ c.fd = call[p].fd
      BY <1>1, <3>3 DEF Call
    <3>6. call' = [call EXCEPT ![p] = c]
      BY ZenonT(60), <1>1, <2>2, <3>1, <3>3 DEF ReadPort, TypeOK
    <3> QED
      BY ZenonT(60), <1>2, <3>4, <3>5, <3>6
  <2> QED
    BY <2>1, <2>2
<1>4. ProtocolInv' /\ call' \in [Procs -> Call]
  BY ZenonT(60), <1>3, QuietCall DEF ReadPort, Spawning
<1>5. TypeOK' /\ PathIsLatest'
  BY <1>1, <1>4 DEF ReadPort, LifecycleInv, CallInv, TypeOK, PathIsLatest
<1> QED
  BY <1>4, <1>5, Together

-----------------------------------------------------------------------------
(* The lock is won, used and given back.                                   *)

\* acquire_exclusive_lock: only a free lock is won.
LEMMA TryLockPreserves ==
  ASSUME LifecycleInv, NEW p \in Procs, TryLock(p)
  PROVE  LifecycleInv'
<1>1. TypeOK /\ call[p] \in Call
  BY DEF LifecycleInv, TypeOK
<1>2. PICK fd \in Inodes : fd = call[p].fd
  BY DEF TryLock, LifecycleInv, CallInv, CallsAreSound
<1>3. call[p].attempt < port_file_retry_attempts /\ call[p].pc = "lock"
  BY DEF TryLock, LifecycleInv, CallInv, CallsAreSound
<1>4. CASE lock[fd] = None
  <2>1. lock' = [lock EXCEPT ![fd] = <<p, Caller>>] /\ Step(p, "bind")
    BY <1>2, <1>4 DEF TryLock
  <2>2. PICK c \in Call : c.pc = "bind" /\ c.fd = fd /\ call' = [call EXCEPT ![p] = c]
    BY <1>1, <1>2, <2>1, StepCall DEF PCs
  <2>3. /\ call' \in [Procs -> Call]
        /\ \A r \in Procs : call'[r] = IF r = p THEN c ELSE call[r]
    BY <1>1, <2>2 DEF TypeOK
  <2>4. /\ lock' \in [Inodes -> Holder \cup {None}]
        /\ \A i \in Inodes : lock'[i] = IF i = fd THEN <<p, Caller>> ELSE lock[i]
    BY <1>1, <2>1 DEF TypeOK, Holder
  <2>5. CallsAreSound'
    BY <2>2, <2>3 DEF LifecycleInv, CallInv, CallsAreSound, Spawning
  <2>6. SpawnerHolds'
    <3> SUFFICES ASSUME NEW r \in Procs, call'[r].pc \in Spawning
                 PROVE  lock'[call'[r].fd] = <<r, Caller>>
      BY DEF SpawnerHolds
    <3>1. CASE r = p
      BY <2>2, <2>3, <2>4, <3>1
    <3>2. CASE r # p
      <4>1. lock[call[r].fd] = <<r, Caller>> /\ call[r].fd \in Inodes
        BY SMTT(60), <2>3, <3>2 DEF LifecycleInv, LockInv, SpawnerHolds, CallInv, CallsAreSound
      <4> QED
        BY <1>4, <2>3, <2>4, <3>2, <4>1, Distinct
    <3> QED
      BY <3>1, <3>2
  <2>7. SpawnerBinds' /\ BoundIsSpawned'
    BY <1>3, <2>2, <2>3 DEF TryLock, LifecycleInv, LockInv, SpawnerBinds, BoundIsSpawned, Binding
  <2>8. ServerHolds'
    BY <1>4, <2>4, Distinct DEF TryLock, LifecycleInv, LockInv, ServerHolds
  <2>9. HolderIsLive'
    <3> SUFFICES ASSUME NEW i \in Inodes, lock'[i] # None
                 PROVE  \/ /\ lock'[i][2] = Caller
                           /\ call'[lock'[i][1]].pc \in Spawning /\ call'[lock'[i][1]].fd = i
                        \/ /\ lock'[i][2] \in Ports
                           /\ server[lock'[i][2]].phase \in Locked
                           /\ server[lock'[i][2]].proc = lock'[i][1]
                           /\ server[lock'[i][2]].inode = i
      BY DEF HolderIsLive, TryLock
    <3>1. CASE i = fd
      BY SMTT(60), <2>2, <2>3, <2>4, <3>1 DEF Spawning
    <3>2. CASE i # fd
      <4>1. lock'[i] = lock[i] /\ lock[i][1] \in Procs
        BY <1>1, <2>4, <3>2, Typed
      <4> QED
        BY <1>3, <2>3, <4>1 DEF LifecycleInv, LockInv, HolderIsLive, Spawning
    <3> QED
      BY <3>1, <3>2
  <2>10. ServerInv'
    <3>1. AdvertisedIsLive'
      BY SMTT(60), <1>3, <2>3, AdvertisedKept DEF TryLock
    <3> QED
      BY <3>1 DEF TryLock, LifecycleInv, ServerInv, ReleasedIsOwned, FailuresLeft, EntryIsOwn
  <2>11. TypeOK' /\ PathIsLatest'
    BY <1>1, <2>3, <2>4 DEF TryLock, LifecycleInv, TypeOK, CallInv, PathIsLatest
  <2> QED
    BY <2>5, <2>6, <2>7, <2>8, <2>9, <2>10, <2>11, Together DEF ProtocolInv, LockInv
<1>5. CASE lock[fd] # None
  <2>1. Step(p, "read") /\ UNCHANGED lock
    BY <1>2, <1>5 DEF TryLock
  <2>2. PICK c \in Call : /\ c.pc = "read" /\ c.fd = fd /\ c.attempt = call[p].attempt
                          /\ call' = [call EXCEPT ![p] = c]
    BY <1>1, <1>2, <2>1, StepCall DEF PCs
  <2>3. ProtocolInv' /\ call' \in [Procs -> Call]
    BY ZenonT(60), <1>3, <2>1, <2>2, QuietCall DEF TryLock, Spawning
  <2>4. TypeOK' /\ PathIsLatest'
    BY SMTT(60), <1>1, <2>1, <2>3 DEF TryLock, LifecycleInv, TypeOK, CallInv, PathIsLatest
  <2> QED
    BY <2>3, <2>4, Together
<1> QED
  BY <1>4, <1>5

\* A spawn that ends without a server gives the lock back and takes down what it had
\* bound (the error path of the constructor, and a directory that went away).
LEMMA SpawnEnds ==
  ASSUME LifecycleInv, NEW p \in Procs, call[p].pc \in {"bind", "recheck"},
         NEW c \in Call, c.pc \in {"idle", "loop"}, c.pc = "loop" => c.fd \in Inodes,
         call' = [call EXCEPT ![p] = c],
         lock' = [lock EXCEPT ![call[p].fd] = None],
         NEW F, F = (IF call[p].pc = "bind" THEN {} ELSE {call[p].port}),
         server' = [q \in Ports |-> IF q \in F THEN FreeServer ELSE server[q]],
         UNCHANGED <<pidfile, stale, entry>>
  PROVE  /\ ProtocolInv' /\ call' \in [Procs -> Call]
         /\ lock' \in [Inodes -> Holder \cup {None}] /\ server' \in [Ports -> Server]
<1>1. TypeOK
  BY DEF LifecycleInv
<1>2. PICK fd \in Inodes : fd = call[p].fd /\ lock[fd] = <<p, Caller>>
  BY ZenonT(60) DEF LifecycleInv, CallInv, CallsAreSound, LockInv, SpawnerHolds, Spawning
<1>3. /\ call' \in [Procs -> Call]
      /\ \A r \in Procs : call'[r] = IF r = p THEN c ELSE call[r]
  BY <1>1 DEF TypeOK
<1>4. /\ lock' \in [Inodes -> Holder \cup {None}]
      /\ \A i \in Inodes : lock'[i] = IF i = fd THEN None ELSE lock[i]
  BY <1>1, <1>2 DEF TypeOK
<1>5. server' \in [Ports -> Server]
  BY ZenonT(60), <1>1, CallShape DEF TypeOK
<1>6. \A q \in Ports : q \in F =>
        server[q].phase = "bound" /\ server[q].proc = p /\ call[p].port = q
  BY SMTT(60) DEF LifecycleInv, LockInv, SpawnerBinds, Binding
<1>7. \A q \in Ports : server[q].phase = "bound" /\ server[q].proc = p => q \in F
  BY DEF LifecycleInv, LockInv, BoundIsSpawned, Binding
<1>8. CallsAreSound'
  BY SMTT(60), <1>3 DEF LifecycleInv, CallInv, CallsAreSound, Spawning
<1>9. SpawnerHolds'
  <2> SUFFICES ASSUME NEW r \in Procs, r # p, call[r].pc \in Spawning
               PROVE  lock'[call[r].fd] = <<r, Caller>>
    BY <1>3 DEF SpawnerHolds, Spawning
  <2>1. lock[call[r].fd] = <<r, Caller>> /\ call[r].fd \in Inodes
    BY SMTT(60) DEF LifecycleInv, LockInv, SpawnerHolds, CallInv, CallsAreSound
  <2> QED
    BY <1>2, <1>4, <2>1
<1>10. SpawnerBinds'
  <2> SUFFICES ASSUME NEW r \in Procs, r # p, call[r].pc \in Binding
               PROVE  /\ call[r].port \in Ports
                      /\ server'[call[r].port] = server[call[r].port]
                      /\ server[call[r].port].phase = "bound"
                      /\ server[call[r].port].proc = r
                      /\ server[call[r].port].inode = call[r].fd
    BY <1>3 DEF SpawnerBinds, Binding
  <2> QED
    BY SMTT(60), <1>6 DEF LifecycleInv, LockInv, SpawnerBinds
<1>11. BoundIsSpawned'
  <2> SUFFICES ASSUME NEW q \in Ports, server'[q].phase = "bound"
               PROVE  /\ server'[q].proc \in Procs
                      /\ call'[server'[q].proc].pc \in Binding
                      /\ call'[server'[q].proc].port = q
    BY DEF BoundIsSpawned
  <2>1. q \notin F /\ server'[q] = server[q]
    BY DEF FreeServer
  <2>2. server[q].proc \in Procs /\ server[q].proc # p
    BY SMTT(60), <1>7, <2>1 DEF LifecycleInv, LockInv, BoundIsSpawned
  <2> QED
    BY SMTT(60), <1>3, <2>1, <2>2 DEF LifecycleInv, LockInv, BoundIsSpawned
<1>12. ServerHolds'
  <2> SUFFICES ASSUME NEW q \in Ports, server'[q].phase \in Locked
               PROVE  /\ server'[q].proc \in Procs /\ server'[q].inode \in Inodes
                      /\ lock'[server'[q].inode] = <<server'[q].proc, q>>
    BY DEF ServerHolds
  <2>1. server'[q] = server[q]
    BY DEF FreeServer, Locked
  <2>2. /\ server[q].proc \in Procs /\ server[q].inode \in Inodes
        /\ lock[server[q].inode] = <<server[q].proc, q>>
    BY ZenonT(60), <2>1 DEF LifecycleInv, LockInv, ServerHolds
  <2> QED
    BY SMTT(60), <1>2, <1>4, <2>1, <2>2, Distinct
<1>13. HolderIsLive'
  <2> SUFFICES ASSUME NEW i \in Inodes, lock'[i] # None
               PROVE  \/ /\ lock'[i][2] = Caller
                         /\ call'[lock'[i][1]].pc \in Spawning /\ call'[lock'[i][1]].fd = i
                      \/ /\ lock'[i][2] \in Ports
                         /\ server'[lock'[i][2]].phase \in Locked
                         /\ server'[lock'[i][2]].proc = lock'[i][1]
                         /\ server'[lock'[i][2]].inode = i
    BY DEF HolderIsLive
  <2>1. i # fd /\ lock'[i] = lock[i] /\ lock[i] # None /\ lock[i][1] \in Procs
    BY SMTT(60), <1>1, <1>4, Typed
  <2>2. CASE /\ lock[i][2] = Caller
             /\ call[lock[i][1]].pc \in Spawning /\ call[lock[i][1]].fd = i
    BY SMTT(60), <1>2, <1>3, <2>1, <2>2
  <2>3. CASE /\ lock[i][2] \in Ports /\ server[lock[i][2]].phase \in Locked
             /\ server[lock[i][2]].proc = lock[i][1] /\ server[lock[i][2]].inode = i
    <3>1. server'[lock[i][2]] = server[lock[i][2]]
      BY SMTT(60), <1>6, <2>3 DEF Locked
    <3> QED
      BY SMTT(60), <2>1, <2>3, <3>1
  <2> QED
    BY SMTT(60), <2>1, <2>2, <2>3 DEF LifecycleInv, LockInv, HolderIsLive
<1>14. ReleasedIsOwned' /\ FailuresLeft' /\ EntryIsOwn'
  <2>1. ReleasedIsOwned' /\ FailuresLeft'
    BY SMTT(60), Bounds DEF LifecycleInv, ServerInv, ReleasedIsOwned, FailuresLeft, FreeServer
  <2>2. EntryIsOwn'
    BY SMTT(60), <1>1, <1>6 DEF LifecycleInv, TypeOK, ServerInv, EntryIsOwn, Locked
  <2> QED
    BY SMTT(60), <2>1, <2>2
<1>15. AdvertisedIsLive'
  <2> SUFFICES ASSUME NEW i \in Inodes, pidfile[i] # None, ~stale[i]
               PROVE  /\ server'[pidfile[i]].inode = i
                      /\ \/ server'[pidfile[i]].phase = "serving"
                         \/ /\ server'[pidfile[i]].phase = "bound"
                            /\ call'[server'[pidfile[i]].proc].pc = "serve"
    BY DEF AdvertisedIsLive
  <2>1. pidfile[i] \in Ports
    BY SMTT(60), <1>1 DEF TypeOK
  <2>2. /\ server[pidfile[i]].inode = i
        /\ \/ server[pidfile[i]].phase = "serving"
           \/ /\ server[pidfile[i]].phase = "bound"
              /\ call[server[pidfile[i]].proc].pc = "serve"
    BY SMTT(60) DEF LifecycleInv, ServerInv, AdvertisedIsLive
  <2>3. pidfile[i] \notin F
    BY <1>6, <2>1, <2>2
  <2>4. server'[pidfile[i]] = server[pidfile[i]]
    BY SMTT(60), <2>1, <2>3
  <2>5. server[pidfile[i]].phase = "bound" =>
          server[pidfile[i]].proc \in Procs /\ server[pidfile[i]].proc # p
    BY <1>7, <2>1, <2>3 DEF LifecycleInv, LockInv, BoundIsSpawned
  <2> QED
    BY SMTT(60), <1>3, <2>2, <2>4, <2>5
<1> QED
  BY SMTT(60), <1>3, <1>4, <1>5, <1>8, <1>9, <1>10, <1>11, <1>12, <1>13, <1>14, <1>15
  DEF ProtocolInv, LockInv, ServerInv

\* The constructor raises.
LEMMA BindRaisesPreserves ==
  ASSUME LifecycleInv, NEW p \in Procs, BindRaises(p)
  PROVE  LifecycleInv'
<1>0. PICK F : F = (IF call[p].pc = "bind" THEN {} ELSE {call[p].port})
  BY ZenonT(60)
<1>1. /\ call[p].pc = "bind" /\ call' = [call EXCEPT ![p] = Idle]
      /\ lock' = [lock EXCEPT ![call[p].fd] = None] /\ UNCHANGED <<pidfile, stale, entry>>
      /\ server' = [q \in Ports |-> IF q \in F THEN FreeServer ELSE server[q]]
  BY <1>0 DEF BindRaises, Returns, LifecycleInv, TypeOK
<1>2. /\ ProtocolInv' /\ call' \in [Procs -> Call]
      /\ lock' \in [Inodes -> Holder \cup {None}] /\ server' \in [Ports -> Server]
  <2>1. Idle \in Call /\ Idle.pc = "idle"
    BY ZenonT(60), CallShape DEF Idle
  <2> QED
    BY ZenonT(60), <1>0, <1>1, <2>1, SpawnEnds
<1>3. TypeOK' /\ PathIsLatest'
  BY <1>2, Bounds DEF BindRaises, Fault, LifecycleInv, TypeOK, CallInv, PathIsLatest
<1> QED
  BY <1>2, <1>3, Together

\* A spawn moves on with its server bound and its lock held (the check after the
\* constructor, and _write_pidfile).
LEMMA SpawnMoves ==
  ASSUME LifecycleInv, NEW p \in Procs, call[p].pc \in {"recheck", "publish"},
         NEW c \in Call, c.pc \in {"publish", "serve"},
         c.fd = call[p].fd, c.port = call[p].port,
         call' = [call EXCEPT ![p] = c],
         UNCHANGED <<lock, entry, server>>
  PROVE  CallsAreSound' /\ LockInv' /\ call' \in [Procs -> Call]
<1>1. /\ call' \in [Procs -> Call]
      /\ \A r \in Procs : call'[r] = IF r = p THEN c ELSE call[r]
  BY DEF LifecycleInv, TypeOK
<1>2. CallsAreSound'
  BY SMTT(60), <1>1 DEF LifecycleInv, CallInv, CallsAreSound, Spawning
<1>3. SpawnerHolds' /\ SpawnerBinds'
  BY ZenonT(60), <1>1 DEF LifecycleInv, LockInv, SpawnerHolds, SpawnerBinds, Spawning, Binding
<1>4. BoundIsSpawned' /\ ServerHolds'
  BY ZenonT(60), <1>1 DEF LifecycleInv, LockInv, BoundIsSpawned, ServerHolds, Binding
<1>5. HolderIsLive'
  BY ZenonT(60), <1>1, Typed DEF LifecycleInv, LockInv, HolderIsLive, Spawning
<1> QED
  BY <1>1, <1>2, <1>3, <1>4, <1>5 DEF LockInv

\* The check that the file is still the one that was locked.
LEMMA RecheckPreserves ==
  ASSUME LifecycleInv, NEW p \in Procs, Recheck(p)
  PROVE  LifecycleInv'
<1>1. TypeOK /\ call[p].pc = "recheck" /\ call[p].fd \in Inodes /\ call[p].port \in Ports
  BY DEF Recheck, LifecycleInv, CallInv, CallsAreSound, LockInv, SpawnerBinds, Spawning, Binding
<1>2. CASE inode_matches(call[p].fd)
  <2>1. PICK c \in Call : /\ c.pc = "publish" /\ c.fd = call[p].fd /\ c.port = call[p].port
                          /\ call' = [call EXCEPT ![p] = c]
    BY <1>1, <1>2, StepCall DEF Recheck, PCs
  <2>2. UNCHANGED <<path, pidfile, lock, stale, entry, server, calls, removals, faults>>
    BY <1>2 DEF Recheck
  <2>3. CallsAreSound' /\ LockInv' /\ call' \in [Procs -> Call]
    BY ZenonT(60), <1>1, <2>1, <2>2, SpawnMoves
  <2>4. \A r \in Procs : r # p => call'[r] = call[r]
    BY <1>1, <2>1 DEF TypeOK
  <2>5. ServerInv'
    <3>1. AdvertisedIsLive'
      BY SMTT(60), <1>1, <2>2, <2>4, AdvertisedKept
    <3> QED
      BY <2>2, <3>1 DEF LifecycleInv, ServerInv, ReleasedIsOwned, FailuresLeft, EntryIsOwn
  <2>6. TypeOK' /\ PathIsLatest'
    BY <1>1, <2>2, <2>3 DEF LifecycleInv, TypeOK, CallInv, PathIsLatest
  <2> QED
    BY <2>3, <2>5, <2>6, Together DEF ProtocolInv
<1>3. CASE ~inode_matches(call[p].fd)
  <2>0. PICK F : F = (IF call[p].pc = "bind" THEN {} ELSE {call[p].port})
    BY ZenonT(60)
  <2>1. PICK c \in Call : /\ c.pc = "loop" /\ c.fd = call[p].fd
                          /\ call' = [call EXCEPT ![p] = c]
    BY <1>1, <1>3, StepCall DEF Recheck, PCs
  <2>2. /\ server' = [server EXCEPT ![call[p].port] = FreeServer]
        /\ lock' = [lock EXCEPT ![call[p].fd] = None]
        /\ UNCHANGED <<path, pidfile, stale, entry, calls, removals, faults>>
    BY <1>3 DEF Recheck
  <2>3. server' = [q \in Ports |-> IF q \in F THEN FreeServer ELSE server[q]]
    BY ZenonT(60), <1>1, <2>0, <2>2 DEF TypeOK
  <2>4. /\ ProtocolInv' /\ call' \in [Procs -> Call]
        /\ lock' \in [Inodes -> Holder \cup {None}] /\ server' \in [Ports -> Server]
    <3>1. /\ call[p].pc \in {"bind", "recheck"} /\ c.pc \in {"idle", "loop"} /\ c.fd \in Inodes
          /\ call' = [call EXCEPT ![p] = c]
          /\ lock' = [lock EXCEPT ![call[p].fd] = None]
          /\ UNCHANGED <<pidfile, stale, entry>>
      BY <1>1, <2>1, <2>2
    <3> QED
      BY ZenonT(60), <2>0, <2>3, <3>1, SpawnEnds
  <2>5. TypeOK' /\ PathIsLatest'
    BY <1>1, <2>2, <2>4 DEF LifecycleInv, TypeOK, CallInv, PathIsLatest
  <2> QED
    BY SMTT(60), <2>4, <2>5, Together
<1> QED
  BY <1>2, <1>3

\* _write_pidfile puts the port of the bound server into the file.
LEMMA PublishPreserves ==
  ASSUME LifecycleInv, NEW p \in Procs, Publish(p)
  PROVE  LifecycleInv'
<1>1. TypeOK /\ call[p].pc = "publish" /\ call[p].fd \in Inodes /\ call[p].port \in Ports
  BY DEF Publish, LifecycleInv, CallInv, CallsAreSound, LockInv, SpawnerBinds, Spawning, Binding
<1>2. PICK c \in Call : /\ c.pc = "serve" /\ c.fd = call[p].fd /\ c.port = call[p].port
                        /\ call' = [call EXCEPT ![p] = c]
  BY <1>1, StepCall DEF Publish, PCs
<1>3. CallsAreSound' /\ LockInv' /\ call' \in [Procs -> Call]
  BY ZenonT(60), <1>1, <1>2, SpawnMoves DEF Publish
<1>4. \A r \in Procs : call'[r] = IF r = p THEN c ELSE call[r]
  BY <1>1, <1>2 DEF TypeOK
<1>5. /\ pidfile' \in [Inodes -> Ports \cup {None}] /\ stale' \in [Inodes -> BOOLEAN]
      /\ \A i \in Inodes : /\ pidfile'[i] = IF i = call[p].fd THEN call[p].port ELSE pidfile[i]
                           /\ stale'[i] = IF i = call[p].fd THEN FALSE ELSE stale[i]
  BY <1>1 DEF Publish, TypeOK
<1>6. AdvertisedIsLive'
  <2> SUFFICES ASSUME NEW i \in Inodes, pidfile'[i] # None, ~stale'[i]
               PROVE  /\ server[pidfile'[i]].inode = i
                      /\ \/ server[pidfile'[i]].phase = "serving"
                         \/ /\ server[pidfile'[i]].phase = "bound"
                            /\ call'[server[pidfile'[i]].proc].pc = "serve"
    BY SMTT(60) DEF AdvertisedIsLive, Publish
  <2>1. CASE i = call[p].fd
    <3>1. /\ server[call[p].port].phase = "bound" /\ server[call[p].port].proc = p
          /\ server[call[p].port].inode = call[p].fd
      BY <1>1 DEF LifecycleInv, LockInv, SpawnerBinds, Binding
    <3>2. pidfile'[i] = call[p].port /\ call'[p].pc = "serve"
      BY ZenonT(60), <1>2, <1>4, <1>5, <2>1
    <3> QED
      BY <2>1, <3>1, <3>2
  <2>2. CASE i # call[p].fd
    <3>1. pidfile'[i] = pidfile[i] /\ stale'[i] = stale[i] /\ pidfile[i] \in Ports
      BY ZenonT(60), <1>1, <1>5, <2>2 DEF TypeOK
    <3> QED
      BY <1>2, <1>4, <3>1 DEF LifecycleInv, ServerInv, AdvertisedIsLive, LockInv, BoundIsSpawned
  <2> QED
    BY SMTT(60), <2>1, <2>2
<1>7. ServerInv'
  BY SMTT(60), <1>6 DEF Publish, LifecycleInv, ServerInv, ReleasedIsOwned, FailuresLeft, EntryIsOwn
<1>8. TypeOK' /\ PathIsLatest'
  BY <1>1, <1>3, <1>5 DEF Publish, LifecycleInv, TypeOK, CallInv, PathIsLatest
<1> QED
  BY <1>3, <1>7, <1>8, Together DEF ProtocolInv

\* The constructor of the server binds a free port.
LEMMA BindPreserves ==
  ASSUME LifecycleInv, NEW p \in Procs, Bind(p)
  PROVE  LifecycleInv'
<1>1. TypeOK /\ call[p] \in Call /\ call[p].pc = "bind"
  BY SMTT(60) DEF Bind, LifecycleInv, TypeOK
<1>2. PICK fd \in Inodes : fd = call[p].fd /\ lock[fd] = <<p, Caller>>
  BY <1>1 DEF LifecycleInv, CallInv, CallsAreSound, LockInv, SpawnerHolds, Spawning
<1>3. PICK q \in Ports :
        /\ server[q].phase = "free"
        /\ server' = [server EXCEPT ![q] = [FreeServer EXCEPT !.phase = "bound", !.proc = p,
                                                              !.inode = fd]]
        /\ call' = [call EXCEPT ![p].pc = "recheck", ![p].port = q]
  BY ZenonT(60), <1>2 DEF Bind
<1>4. UNCHANGED <<path, pidfile, lock, stale, entry, calls, removals, faults>>
  BY DEF Bind
<1>5. PICK c : c = [call[p] EXCEPT !.pc = "recheck", !.port = q]
  OBVIOUS
<1>6. c \in Call /\ c.pc = "recheck" /\ c.port = q /\ c.fd = fd
  BY ZenonT(60), <1>1, <1>2, <1>5 DEF Call, PCs
<1>7. /\ call' \in [Procs -> Call]
      /\ \A r \in Procs : call'[r] = IF r = p THEN c ELSE call[r]
  BY <1>1, <1>3, <1>5, <1>6 DEF TypeOK
<1>8. PICK s : s = [FreeServer EXCEPT !.phase = "bound", !.proc = p, !.inode = fd]
  OBVIOUS
<1>9. s \in Server /\ s.phase = "bound" /\ s.proc = p /\ s.inode = fd /\ s.aborts = 0
  <2>1. /\ FreeServer \in Server /\ "bound" \in Phases
        /\ p \in Procs \cup {None} /\ fd \in Inodes \cup {0}
    BY ZenonT(60), CallShape DEF Phases
  <2>2. s \in Server
    BY ZenonT(60), <1>8, <2>1 DEF Server
  <2> QED
    BY <1>8, <2>2 DEF FreeServer
<1>10. /\ server' \in [Ports -> Server]
       /\ \A k \in Ports : server'[k] = IF k = q THEN s ELSE server[k]
  BY SMTT(60), <1>1, <1>3, <1>8, <1>9 DEF TypeOK
<1>11. CallsAreSound'
  BY SMTT(60), <1>6, <1>7 DEF LifecycleInv, CallInv, CallsAreSound, Spawning
<1>12. SpawnerHolds'
  BY ZenonT(60), <1>1, <1>2, <1>4, <1>6, <1>7 DEF LifecycleInv, LockInv, SpawnerHolds, Spawning
<1>13. SpawnerBinds'
  <2> SUFFICES ASSUME NEW r \in Procs, call'[r].pc \in Binding
               PROVE  /\ call'[r].port \in Ports
                      /\ server'[call'[r].port].phase = "bound"
                      /\ server'[call'[r].port].proc = r
                      /\ server'[call'[r].port].inode = call'[r].fd
    BY DEF SpawnerBinds
  <2>1. CASE r = p
    BY SMTT(60), <1>6, <1>7, <1>9, <1>10, <2>1
  <2>2. CASE r # p
    <3>1. call'[r] = call[r] /\ call[r].port \in Ports /\ server[call[r].port].phase = "bound"
      BY <1>7, <2>2 DEF LifecycleInv, LockInv, SpawnerBinds
    <3>2. server'[call[r].port] = server[call[r].port]
      BY SMTT(60), <1>3, <1>10, <3>1
    <3> QED
      BY <3>1, <3>2 DEF LifecycleInv, LockInv, SpawnerBinds
  <2> QED
    BY <2>1, <2>2
<1>14. BoundIsSpawned'
  BY SMTT(60), <1>1, <1>6, <1>7, <1>9, <1>10 DEF LifecycleInv, LockInv, BoundIsSpawned, Binding
<1>15. ServerHolds'
  BY ZenonT(60), <1>4, <1>9, <1>10 DEF LifecycleInv, LockInv, ServerHolds, Locked
<1>16. HolderIsLive'
  <2> SUFFICES ASSUME NEW i \in Inodes, lock[i] # None
               PROVE  \/ /\ lock[i][2] = Caller
                         /\ call'[lock[i][1]].pc \in Spawning /\ call'[lock[i][1]].fd = i
                      \/ /\ lock[i][2] \in Ports
                         /\ server'[lock[i][2]].phase \in Locked
                         /\ server'[lock[i][2]].proc = lock[i][1]
                         /\ server'[lock[i][2]].inode = i
    BY <1>4 DEF HolderIsLive
  <2>1. lock[i][1] \in Procs
    BY SMTT(60), <1>1, Typed
  <2>2. CASE /\ lock[i][2] = Caller
             /\ call[lock[i][1]].pc \in Spawning /\ call[lock[i][1]].fd = i
    BY SMTT(60), <1>2, <1>6, <1>7, <2>1, <2>2 DEF Spawning
  <2>3. CASE /\ lock[i][2] \in Ports /\ server[lock[i][2]].phase \in Locked
             /\ server[lock[i][2]].proc = lock[i][1] /\ server[lock[i][2]].inode = i
    <3>1. server'[lock[i][2]] = server[lock[i][2]]
      BY <1>3, <1>10, <2>3 DEF Locked
    <3> QED
      BY <2>3, <3>1
  <2> QED
    BY <2>2, <2>3 DEF LifecycleInv, LockInv, HolderIsLive
<1>17. ReleasedIsOwned' /\ FailuresLeft' /\ EntryIsOwn'
  <2>1. ReleasedIsOwned' /\ FailuresLeft'
    BY <1>9, <1>10, Bounds DEF LifecycleInv, ServerInv, ReleasedIsOwned, FailuresLeft
  <2>2. EntryIsOwn'
    BY SMTT(60), <1>1, <1>3, <1>4, <1>10 DEF LifecycleInv, TypeOK, ServerInv, EntryIsOwn, Locked
  <2> QED
    BY <2>1, <2>2
<1>18. AdvertisedIsLive'
  <2> SUFFICES ASSUME NEW i \in Inodes, pidfile[i] # None, ~stale[i]
               PROVE  /\ server'[pidfile[i]].inode = i
                      /\ \/ server'[pidfile[i]].phase = "serving"
                         \/ /\ server'[pidfile[i]].phase = "bound"
                            /\ call'[server'[pidfile[i]].proc].pc = "serve"
    BY <1>4 DEF AdvertisedIsLive
  <2>1. pidfile[i] \in Ports
    BY SMTT(60), <1>1 DEF TypeOK
  <2>2. /\ server[pidfile[i]].inode = i
        /\ \/ server[pidfile[i]].phase = "serving"
           \/ /\ server[pidfile[i]].phase = "bound"
              /\ call[server[pidfile[i]].proc].pc = "serve"
    BY DEF LifecycleInv, ServerInv, AdvertisedIsLive
  <2>3. server'[pidfile[i]] = server[pidfile[i]]
    BY SMTT(60), <1>3, <1>10, <2>1, <2>2
  <2>4. server[pidfile[i]].phase = "bound" => server[pidfile[i]].proc \in Procs
    BY SMTT(60), <2>1 DEF LifecycleInv, LockInv, BoundIsSpawned
  <2> QED
    BY SMTT(60), <1>1, <1>7, <2>2, <2>3, <2>4
<1>19. TypeOK' /\ PathIsLatest'
  BY <1>1, <1>4, <1>7, <1>10 DEF LifecycleInv, TypeOK, CallInv, PathIsLatest
<1>20. LockInv' /\ ServerInv'
  BY <1>12, <1>13, <1>14, <1>15, <1>16, <1>17, <1>18 DEF LockInv, ServerInv
<1> QED
  BY <1>11, <1>19, <1>20, Together DEF ProtocolInv

\* The spawn hands the lock to the server it starts (serve_in_thread).
LEMMA ServePreserves ==
  ASSUME LifecycleInv, NEW p \in Procs, Serve(p)
  PROVE  LifecycleInv'
<1>1. TypeOK /\ call[p] \in Call /\ call[p].pc = "serve"
  BY SMTT(60) DEF Serve, LifecycleInv, TypeOK
<1>2. PICK fd \in Inodes : fd = call[p].fd /\ lock[fd] = <<p, Caller>>
  BY SMTT(60), <1>1 DEF LifecycleInv, CallInv, CallsAreSound, LockInv, SpawnerHolds, Spawning
<1>3. PICK q \in Ports : /\ q = call[p].port /\ server[q].phase = "bound"
                         /\ server[q].proc = p /\ server[q].inode = fd
  BY <1>1, <1>2 DEF LifecycleInv, LockInv, SpawnerBinds, Binding
<1>4. PICK c \in Call : c.pc \in {"idle", "verify"} /\ call' = [call EXCEPT ![p] = c]
  BY <1>1, <1>3, EnsuredCall DEF Serve
<1>5. /\ call' \in [Procs -> Call]
      /\ \A r \in Procs : call'[r] = IF r = p THEN c ELSE call[r]
  BY <1>1, <1>4 DEF TypeOK
<1>6. PICK s : s = [server[q] EXCEPT !.phase = "serving"]
  BY ZenonT(60)
<1>7. server[q] \in Server
  BY <1>1 DEF TypeOK
<1>8. /\ s \in Server /\ s.phase = "serving" /\ s.proc = p /\ s.inode = fd
      /\ s.aborts = server[q].aborts
  BY <1>3, <1>6, <1>7 DEF Server, Phases
<1>9. /\ server' \in [Ports -> Server]
      /\ \A k \in Ports : server'[k] = IF k = q THEN s ELSE server[k]
  BY <1>1, <1>3, <1>6, <1>8 DEF Serve, TypeOK
<1>10. /\ lock' \in [Inodes -> Holder \cup {None}]
       /\ \A i \in Inodes : lock'[i] = IF i = fd THEN <<p, q>> ELSE lock[i]
  BY <1>1, <1>2, <1>3 DEF Serve, TypeOK, Holder
<1>11. /\ entry' \in [Procs -> Ports \cup {None}]
       /\ \A r \in Procs : entry'[r] = IF r = p THEN q ELSE entry[r]
  BY <1>1, <1>3 DEF Serve, TypeOK
<1>12. UNCHANGED <<path, pidfile, stale, calls, removals, faults>>
  BY DEF Serve
<1>13. CallsAreSound'
  BY SMTT(60), <1>4, <1>5 DEF LifecycleInv, CallInv, CallsAreSound, Spawning
<1>14. SpawnerHolds'
  <2> SUFFICES ASSUME NEW r \in Procs, r # p, call[r].pc \in Spawning
               PROVE  lock'[call[r].fd] = <<r, Caller>>
    BY ZenonT(60), <1>4, <1>5 DEF SpawnerHolds, Spawning
  <2>1. lock[call[r].fd] = <<r, Caller>> /\ call[r].fd \in Inodes
    BY SMTT(60) DEF LifecycleInv, LockInv, SpawnerHolds, CallInv, CallsAreSound
  <2> QED
    BY <1>2, <1>10, <2>1
<1>15. SpawnerBinds'
  <2> SUFFICES ASSUME NEW r \in Procs, r # p, call[r].pc \in Binding
               PROVE  /\ call[r].port \in Ports
                      /\ server'[call[r].port] = server[call[r].port]
                      /\ server[call[r].port].phase = "bound"
                      /\ server[call[r].port].proc = r
                      /\ server[call[r].port].inode = call[r].fd
    BY SMTT(60), <1>4, <1>5 DEF SpawnerBinds, Binding
  <2> QED
    BY SMTT(60), <1>3, <1>9 DEF LifecycleInv, LockInv, SpawnerBinds
<1>16. BoundIsSpawned'
  <2> SUFFICES ASSUME NEW k \in Ports, server'[k].phase = "bound"
               PROVE  /\ server'[k].proc \in Procs
                      /\ call'[server'[k].proc].pc \in Binding
                      /\ call'[server'[k].proc].port = k
    BY DEF BoundIsSpawned
  <2>1. k # q /\ server'[k] = server[k]
    BY SMTT(60), <1>8, <1>9
  <2>2. server[k].proc \in Procs /\ server[k].proc # p
    BY SMTT(60), <1>3, <2>1 DEF LifecycleInv, LockInv, BoundIsSpawned
  <2> QED
    BY <1>5, <2>1, <2>2 DEF LifecycleInv, LockInv, BoundIsSpawned
<1>17. ServerHolds'
  <2> SUFFICES ASSUME NEW k \in Ports, server'[k].phase \in Locked
               PROVE  /\ server'[k].proc \in Procs /\ server'[k].inode \in Inodes
                      /\ lock'[server'[k].inode] = <<server'[k].proc, k>>
    BY DEF ServerHolds
  <2>1. CASE k = q
    BY SMTT(60), <1>8, <1>9, <1>10, <2>1
  <2>2. CASE k # q
    <3>1. /\ server'[k] = server[k]
          /\ server[k].proc \in Procs /\ server[k].inode \in Inodes
          /\ lock[server[k].inode] = <<server[k].proc, k>>
      BY SMTT(60), <1>9, <2>2 DEF LifecycleInv, LockInv, ServerHolds
    <3> QED
      BY SMTT(60), <1>2, <1>10, <3>1, Distinct
  <2> QED
    BY <2>1, <2>2
<1>18. HolderIsLive'
  <2> SUFFICES ASSUME NEW i \in Inodes, lock'[i] # None
               PROVE  \/ /\ lock'[i][2] = Caller
                         /\ call'[lock'[i][1]].pc \in Spawning /\ call'[lock'[i][1]].fd = i
                      \/ /\ lock'[i][2] \in Ports
                         /\ server'[lock'[i][2]].phase \in Locked
                         /\ server'[lock'[i][2]].proc = lock'[i][1]
                         /\ server'[lock'[i][2]].inode = i
    BY SMTT(60) DEF HolderIsLive
  <2>1. CASE i = fd
    BY SMTT(60), <1>8, <1>9, <1>10, <2>1 DEF Locked
  <2>2. CASE i # fd
    <3>1. lock'[i] = lock[i] /\ lock[i][1] \in Procs
      BY SMTT(60), <1>1, <1>10, <2>2, Typed
    <3>2. CASE /\ lock[i][2] = Caller
               /\ call[lock[i][1]].pc \in Spawning /\ call[lock[i][1]].fd = i
      BY SMTT(60), <1>2, <1>5, <2>2, <3>1, <3>2
    <3>3. CASE /\ lock[i][2] \in Ports /\ server[lock[i][2]].phase \in Locked
               /\ server[lock[i][2]].proc = lock[i][1] /\ server[lock[i][2]].inode = i
      <4>1. server'[lock[i][2]] = server[lock[i][2]]
        BY SMTT(60), <1>3, <1>9, <3>3 DEF Locked
      <4> QED
        BY SMTT(60), <3>1, <3>3, <4>1
    <3> QED
      BY SMTT(60), <3>1, <3>2, <3>3 DEF LifecycleInv, LockInv, HolderIsLive
  <2> QED
    BY SMTT(60), <2>1, <2>2
<1>19. ReleasedIsOwned' /\ FailuresLeft'
  BY <1>3, <1>8, <1>9 DEF LifecycleInv, ServerInv, ReleasedIsOwned, FailuresLeft
<1>20. EntryIsOwn'
  <2> SUFFICES ASSUME NEW r \in Procs, entry'[r] # None
               PROVE  /\ server'[entry'[r]].phase \in Locked \cup {"released"}
                      /\ server'[entry'[r]].proc = r
    BY DEF EntryIsOwn
  <2>1. CASE r = p
    BY SMTT(60), <1>8, <1>9, <1>11, <2>1 DEF Locked
  <2>2. CASE r # p
    <3>1. /\ entry'[r] = entry[r] /\ entry[r] \in Ports
          /\ server[entry[r]].phase \in Locked \cup {"released"} /\ server[entry[r]].proc = r
      BY SMTT(60), <1>1, <1>11, <2>2 DEF LifecycleInv, TypeOK, ServerInv, EntryIsOwn
    <3>2. server'[entry[r]] = server[entry[r]]
      BY SMTT(60), <1>3, <1>9, <3>1, <2>2
    <3> QED
      BY SMTT(60), <3>1, <3>2
  <2> QED
    BY <2>1, <2>2
<1>21. AdvertisedIsLive'
  <2> SUFFICES ASSUME NEW i \in Inodes, pidfile[i] # None, ~stale[i]
               PROVE  /\ server'[pidfile[i]].inode = i
                      /\ \/ server'[pidfile[i]].phase = "serving"
                         \/ /\ server'[pidfile[i]].phase = "bound"
                            /\ call'[server'[pidfile[i]].proc].pc = "serve"
    BY <1>12 DEF AdvertisedIsLive
  <2>1. pidfile[i] \in Ports
    BY SMTT(60), <1>1 DEF TypeOK
  <2>2. /\ server[pidfile[i]].inode = i
        /\ \/ server[pidfile[i]].phase = "serving"
           \/ /\ server[pidfile[i]].phase = "bound"
              /\ call[server[pidfile[i]].proc].pc = "serve"
    BY SMTT(60) DEF LifecycleInv, ServerInv, AdvertisedIsLive
  <2>3. CASE pidfile[i] = q
    BY SMTT(60), <1>3, <1>8, <1>9, <2>2, <2>3
  <2>4. CASE pidfile[i] # q
    <3>1. server'[pidfile[i]] = server[pidfile[i]]
      BY SMTT(60), <1>9, <2>1, <2>4
    <3>2. server[pidfile[i]].phase = "bound" =>
            server[pidfile[i]].proc \in Procs /\ server[pidfile[i]].proc # p
      BY SMTT(60), <1>3, <2>1, <2>4 DEF LifecycleInv, LockInv, BoundIsSpawned
    <3> QED
      BY <1>5, <2>2, <3>1, <3>2
  <2> QED
    BY SMTT(60), <2>3, <2>4
<1>22. TypeOK' /\ PathIsLatest'
  BY <1>1, <1>5, <1>9, <1>10, <1>11, <1>12 DEF LifecycleInv, TypeOK, CallInv, PathIsLatest
<1>23. LockInv' /\ ServerInv'
  BY SMTT(60), <1>14, <1>15, <1>16, <1>17, <1>18, <1>19, <1>20, <1>21 DEF LockInv, ServerInv
<1> QED
  BY <1>13, <1>22, <1>23, Together DEF ProtocolInv

-----------------------------------------------------------------------------
(* Steps of a server.                                                      *)

\* A server that holds its lock goes down one step and keeps it; one that served is
\* no longer advertised (the shutdown sequence up to the release of the lock).
LEMMA ServerSinks ==
  ASSUME LifecycleInv, NEW q \in Ports, server[q].phase \in Locked,
         NEW s \in Server, s.phase \in Locked,
         s.proc = server[q].proc, s.inode = server[q].inode, s.aborts < MAX_SHUTDOWN_RETRIES,
         server' = [server EXCEPT ![q] = s],
         UNCHANGED <<lock, call, entry>>,
         \A i \in Inodes : pidfile'[i] # None /\ ~stale'[i] =>
           pidfile'[i] = pidfile[i] /\ ~stale[i],
         server[q].phase = "serving" =>
           pidfile'[server[q].inode] = None \/ stale'[server[q].inode]
  PROVE  ProtocolInv' /\ server' \in [Ports -> Server]
<1>1. TypeOK
  BY DEF LifecycleInv
<1>2. /\ server' \in [Ports -> Server]
      /\ \A k \in Ports : server'[k] = IF k = q THEN s ELSE server[k]
  BY SMTT(60), <1>1 DEF TypeOK
<1>3. CallsAreSound' /\ SpawnerHolds'
  BY SMTT(60) DEF LifecycleInv, CallInv, CallsAreSound, LockInv, SpawnerHolds
<1>4. SpawnerBinds'
  BY SMTT(60), <1>2 DEF LifecycleInv, LockInv, SpawnerBinds, Locked
<1>5. BoundIsSpawned'
  BY SMTT(60), <1>2 DEF LifecycleInv, LockInv, BoundIsSpawned, Locked
<1>6. ServerHolds'
  BY ZenonT(60), <1>2 DEF LifecycleInv, LockInv, ServerHolds
<1>7. HolderIsLive'
  <2> SUFFICES ASSUME NEW i \in Inodes, lock[i] # None
               PROVE  \/ /\ lock[i][2] = Caller
                         /\ call[lock[i][1]].pc \in Spawning /\ call[lock[i][1]].fd = i
                      \/ /\ lock[i][2] \in Ports
                         /\ server'[lock[i][2]].phase \in Locked
                         /\ server'[lock[i][2]].proc = lock[i][1]
                         /\ server'[lock[i][2]].inode = i
    BY SMTT(60) DEF HolderIsLive
  <2> QED
    BY SMTT(60), <1>2 DEF LifecycleInv, LockInv, HolderIsLive
<1>8. ReleasedIsOwned' /\ FailuresLeft'
  BY SMTT(60), <1>2 DEF LifecycleInv, ServerInv, ReleasedIsOwned, FailuresLeft, Locked
<1>9. EntryIsOwn'
  BY SMTT(60), <1>1, <1>2 DEF LifecycleInv, TypeOK, ServerInv, EntryIsOwn
<1>10. AdvertisedIsLive'
  <2> SUFFICES ASSUME NEW i \in Inodes, pidfile'[i] # None, ~stale'[i]
               PROVE  /\ server'[pidfile[i]].inode = i
                      /\ \/ server'[pidfile[i]].phase = "serving"
                         \/ /\ server'[pidfile[i]].phase = "bound"
                            /\ call[server'[pidfile[i]].proc].pc = "serve"
    BY DEF AdvertisedIsLive
  <2>1. pidfile[i] \in Ports /\ pidfile[i] # None /\ ~stale[i]
    BY SMTT(60), <1>1 DEF TypeOK
  <2>2. /\ server[pidfile[i]].inode = i
        /\ \/ server[pidfile[i]].phase = "serving"
           \/ /\ server[pidfile[i]].phase = "bound"
              /\ call[server[pidfile[i]].proc].pc = "serve"
    BY SMTT(60), <2>1 DEF LifecycleInv, ServerInv, AdvertisedIsLive
  <2>3. pidfile[i] # q
    BY SMTT(60), <2>1, <2>2 DEF Locked
  <2> QED
    BY SMTT(60), <1>2, <2>1, <2>2, <2>3
<1>11. LockInv' /\ ServerInv'
  BY <1>3, <1>4, <1>5, <1>6, <1>7, <1>8, <1>9, <1>10 DEF LockInv, ServerInv
<1> QED
  BY <1>2, <1>3, <1>11 DEF ProtocolInv

\* A server record in a new phase.
LEMMA ServerShape ==
  ASSUME TypeOK, NEW q \in Ports, NEW phase \in Phases
  PROVE  LET s == [server[q] EXCEPT !.phase = phase] IN
         /\ s \in Server /\ s.phase = phase
         /\ s.proc = server[q].proc /\ s.inode = server[q].inode /\ s.aborts = server[q].aborts
<1>1. server[q] \in Server
  BY DEF TypeOK
<1> QED
  BY <1>1 DEF Server

\* _rewrite_pidfile_drop_port, from the idle thread or from stop_coordinator.
LEMMA DropPortPreserves ==
  ASSUME LifecycleInv, NEW q \in Ports, server[q].phase \in {"serving", "aborted"},
         DropPort(q), UNCHANGED <<path, lock, call, entry, removals>>, calls' \in 0..MaxCalls
  PROVE  LifecycleInv'
<1>1. TypeOK
  BY DEF LifecycleInv
<1>2. PICK s : s = [server[q] EXCEPT !.phase = "dropped"]
  BY ZenonT(60)
<1>3. /\ s \in Server /\ s.phase = "dropped"
      /\ s.proc = server[q].proc /\ s.inode = server[q].inode /\ s.aborts = server[q].aborts
  BY ZenonT(60), <1>1, <1>2, ServerShape DEF Phases
<1>4. server' = [server EXCEPT ![q] = s]
  BY <1>1, <1>2 DEF DropPort, TypeOK
<1>5. PICK i \in Inodes : i = server[q].inode
  BY DEF LifecycleInv, LockInv, ServerHolds, Locked
<1>6. /\ pidfile' \in [Inodes -> Ports \cup {None}] /\ stale' \in [Inodes -> BOOLEAN]
      /\ faults' \in 0..MaxFaults
      /\ \A k \in Inodes : pidfile'[k] # None /\ ~stale'[k] =>
           pidfile'[k] = pidfile[k] /\ ~stale[k]
      /\ pidfile'[i] = None \/ stale'[i]
  <2>1. CASE pidfile' = [pidfile EXCEPT ![i] = None] /\ UNCHANGED <<stale, faults>>
    BY SMTT(60), <1>1, <2>1 DEF TypeOK
  <2>2. CASE Fault /\ stale' = [stale EXCEPT ![i] = TRUE] /\ UNCHANGED pidfile
    BY SMTT(60), <1>1, <2>2, Bounds DEF TypeOK, Fault
  <2> QED
    BY <1>5, <2>1, <2>2 DEF DropPort
<1>7. s.aborts < MAX_SHUTDOWN_RETRIES
  BY SMTT(60), <1>3 DEF LifecycleInv, ServerInv, FailuresLeft
<1>8. ProtocolInv' /\ server' \in [Ports -> Server]
  BY ZenonT(60), <1>3, <1>4, <1>5, <1>6, <1>7, ServerSinks DEF Locked
<1>9. TypeOK' /\ PathIsLatest'
  BY <1>1, <1>6, <1>8 DEF LifecycleInv, TypeOK, CallInv, PathIsLatest
<1> QED
  BY <1>8, <1>9, Together

\* The two callers of the shutdown sequence.
LEMMA StopsPreserve ==
  ASSUME LifecycleInv,
         \/ \E q \in Ports : IdleShutdown(q)
         \/ \E p \in Procs : stop_coordinator(p)
  PROVE  LifecycleInv'
<1>1. ASSUME NEW q \in Ports, IdleShutdown(q) PROVE LifecycleInv'
  BY ZenonT(60), <1>1, DropPortPreserves DEF IdleShutdown, LifecycleInv, TypeOK
<1>2. ASSUME NEW p \in Procs, stop_coordinator(p) PROVE LifecycleInv'
  <2>1. PICK q \in Ports : q = entry[p]
    BY <1>2 DEF stop_coordinator, LifecycleInv, TypeOK
  <2>2. calls' \in 0..MaxCalls
    BY <1>2, Bounds DEF stop_coordinator, LifecycleInv, TypeOK
  <2> QED
    BY SMTT(60), <1>2, <2>1, <2>2, DropPortPreserves DEF stop_coordinator
<1> QED
  BY SMTT(60), <1>1, <1>2

\* CoordinatorHTTPServer.shutdown begins and ends.
LEMMA ShutdownPreserves ==
  ASSUME LifecycleInv, NEW q \in Ports, ShutdownBegins(q) \/ ShutdownEnds(q)
  PROVE  LifecycleInv'
<1>1. TypeOK /\ server[q] \in Server
  BY DEF LifecycleInv, TypeOK
<1>2. PICK s : /\ s \in Server /\ s.phase \in {"closed", "stopping"}
               /\ s.proc = server[q].proc /\ s.inode = server[q].inode
               /\ s.aborts = server[q].aborts
               /\ server' = [server EXCEPT ![q] = s]
  <2>1. CASE ShutdownBegins(q)
    <3>1. PICK phase \in {"closed", "stopping"} :
            phase = IF server[q].shutting_down THEN "closed" ELSE "stopping"
      OBVIOUS
    <3>2. PICK s : s = [server[q] EXCEPT !.phase = phase, !.shutting_down = TRUE]
      OBVIOUS
    <3>3. s \in Server /\ s.phase = phase
      BY ZenonT(60), <1>1, <3>2 DEF Server, Phases
    <3>4. s.proc = server[q].proc /\ s.inode = server[q].inode /\ s.aborts = server[q].aborts
      BY <1>1, <3>2 DEF Server
    <3>5. server' = [server EXCEPT ![q] = s]
      BY ZenonT(60), <1>1, <2>1, <3>1, <3>2 DEF ShutdownBegins, TypeOK
    <3> QED
      BY ZenonT(60), <3>3, <3>4, <3>5
  <2>2. CASE ShutdownEnds(q)
    <3>1. server' = [server EXCEPT ![q] = [server[q] EXCEPT !.phase = "closed"]]
      BY <1>1, <2>2 DEF ShutdownEnds, TypeOK
    <3> QED
      BY ZenonT(60), <1>1, <3>1, ServerShape DEF Phases
  <2> QED
    BY <2>1, <2>2
<1>3. /\ server[q].phase \in {"dropped", "stopping"}
      /\ UNCHANGED <<path, pidfile, lock, stale, call, entry, calls, removals, faults>>
  BY DEF ShutdownBegins, ShutdownEnds
<1>4. s.aborts < MAX_SHUTDOWN_RETRIES
  BY <1>2, <1>3 DEF LifecycleInv, ServerInv, FailuresLeft
<1>5. ProtocolInv' /\ server' \in [Ports -> Server]
  BY ZenonT(60), <1>2, <1>3, <1>4, ServerSinks DEF Locked
<1>6. TypeOK' /\ PathIsLatest'
  BY <1>1, <1>3, <1>5 DEF LifecycleInv, TypeOK, CallInv, PathIsLatest
<1> QED
  BY <1>5, <1>6, Together

\* A server lets its lock go: nobody else held it (release_lock at the end of the
\* sequence, or after too many failures).
LEMMA LockIsLetGo ==
  ASSUME LifecycleInv, NEW q \in Ports, server[q].phase \in {"closed", "stopping"},
         NEW s \in Server, s.phase = "released", s.proc = server[q].proc,
         server' = [server EXCEPT ![q] = s],
         lock' = [lock EXCEPT ![server[q].inode] = None],
         UNCHANGED <<pidfile, stale, call, entry>>
  PROVE  /\ ProtocolInv' /\ server' \in [Ports -> Server]
         /\ lock' \in [Inodes -> Holder \cup {None}]
<1>1. TypeOK
  BY DEF LifecycleInv
<1>2. PICK i \in Inodes : /\ i = server[q].inode /\ server[q].proc \in Procs
                          /\ lock[i] = <<server[q].proc, q>>
  BY ZenonT(60) DEF LifecycleInv, LockInv, ServerHolds, Locked
<1>3. /\ server' \in [Ports -> Server]
      /\ \A k \in Ports : server'[k] = IF k = q THEN s ELSE server[k]
  BY SMTT(60), <1>1 DEF TypeOK
<1>4. /\ lock' \in [Inodes -> Holder \cup {None}]
      /\ \A k \in Inodes : lock'[k] = IF k = i THEN None ELSE lock[k]
  BY SMTT(60), <1>1, <1>2 DEF TypeOK
<1>5. CallsAreSound'
  BY SMTT(60) DEF LifecycleInv, CallInv, CallsAreSound
<1>6. SpawnerHolds'
  <2> SUFFICES ASSUME NEW r \in Procs, call[r].pc \in Spawning
               PROVE  lock'[call[r].fd] = <<r, Caller>>
    BY SMTT(60) DEF SpawnerHolds
  <2>1. lock[call[r].fd] = <<r, Caller>> /\ call[r].fd \in Inodes
    BY SMTT(60) DEF LifecycleInv, LockInv, SpawnerHolds, CallInv, CallsAreSound
  <2> QED
    BY SMTT(60), <1>2, <1>4, <2>1, Distinct
<1>7. SpawnerBinds' /\ BoundIsSpawned'
  BY SMTT(60), <1>3 DEF LifecycleInv, LockInv, SpawnerBinds, BoundIsSpawned
<1>8. ServerHolds'
  <2> SUFFICES ASSUME NEW k \in Ports, server'[k].phase \in Locked
               PROVE  /\ server'[k].proc \in Procs /\ server'[k].inode \in Inodes
                      /\ lock'[server'[k].inode] = <<server'[k].proc, k>>
    BY DEF ServerHolds
  <2>1. k # q /\ server'[k] = server[k]
    BY SMTT(60), <1>3 DEF Locked
  <2>2. /\ server[k].proc \in Procs /\ server[k].inode \in Inodes
        /\ lock[server[k].inode] = <<server[k].proc, k>>
    BY SMTT(60), <2>1 DEF LifecycleInv, LockInv, ServerHolds
  <2> QED
    BY SMTT(60), <1>2, <1>4, <2>1, <2>2
<1>9. HolderIsLive'
  <2> SUFFICES ASSUME NEW k \in Inodes, lock'[k] # None
               PROVE  \/ /\ lock'[k][2] = Caller
                         /\ call[lock'[k][1]].pc \in Spawning /\ call[lock'[k][1]].fd = k
                      \/ /\ lock'[k][2] \in Ports
                         /\ server'[lock'[k][2]].phase \in Locked
                         /\ server'[lock'[k][2]].proc = lock'[k][1]
                         /\ server'[lock'[k][2]].inode = k
    BY DEF HolderIsLive
  <2>1. k # i /\ lock'[k] = lock[k] /\ lock[k] # None
    BY SMTT(60), <1>4
  <2>2. CASE /\ lock[k][2] \in Ports /\ server[lock[k][2]].phase \in Locked
             /\ server[lock[k][2]].proc = lock[k][1] /\ server[lock[k][2]].inode = k
    <3>1. server'[lock[k][2]] = server[lock[k][2]]
      BY SMTT(60), <1>2, <1>3, <2>1, <2>2
    <3> QED
      BY SMTT(60), <2>1, <2>2, <3>1
  <2> QED
    BY SMTT(60), <2>1, <2>2 DEF LifecycleInv, LockInv, HolderIsLive
<1>10. ReleasedIsOwned' /\ FailuresLeft'
  BY SMTT(60), <1>2, <1>3 DEF LifecycleInv, ServerInv, ReleasedIsOwned, FailuresLeft
<1>11. EntryIsOwn'
  BY SMTT(60), <1>1, <1>3 DEF LifecycleInv, TypeOK, ServerInv, EntryIsOwn
<1>12. AdvertisedIsLive'
  <2> SUFFICES ASSUME NEW k \in Inodes, pidfile[k] # None, ~stale[k]
               PROVE  /\ server'[pidfile[k]].inode = k
                      /\ \/ server'[pidfile[k]].phase = "serving"
                         \/ /\ server'[pidfile[k]].phase = "bound"
                            /\ call[server'[pidfile[k]].proc].pc = "serve"
    BY DEF AdvertisedIsLive
  <2>1. pidfile[k] \in Ports
    BY <1>1 DEF TypeOK
  <2> QED
    BY SMTT(60), <1>3, <2>1 DEF LifecycleInv, ServerInv, AdvertisedIsLive
<1>13. LockInv' /\ ServerInv'
  BY <1>6, <1>7, <1>8, <1>9, <1>10, <1>11, <1>12 DEF LockInv, ServerInv
<1> QED
  BY <1>3, <1>4, <1>5, <1>13 DEF ProtocolInv

\* The end of the shutdown sequence.
LEMMA ReleasePreserves ==
  ASSUME LifecycleInv, NEW q \in Ports, Release(q)
  PROVE  LifecycleInv'
<1>1. TypeOK
  BY DEF LifecycleInv
<1>2. PICK s : s = [server[q] EXCEPT !.phase = "released"]
  BY ZenonT(60)
<1>3. s \in Server /\ s.phase = "released" /\ s.proc = server[q].proc
  BY ZenonT(60), <1>1, <1>2, ServerShape DEF Phases
<1>4. server' = [server EXCEPT ![q] = s]
  BY <1>1, <1>2 DEF Release, TypeOK
<1>5. /\ ProtocolInv' /\ server' \in [Ports -> Server]
      /\ lock' \in [Inodes -> Holder \cup {None}]
  BY ZenonT(60), <1>3, <1>4, LockIsLetGo DEF Release
<1>6. TypeOK' /\ PathIsLatest'
  BY <1>1, <1>5 DEF Release, LifecycleInv, TypeOK, CallInv, PathIsLatest
<1> QED
  BY <1>5, <1>6, Together

\* A shutdown that raises keeps the lock, until it has failed too often.
LEMMA ShutdownRaisesPreserves ==
  ASSUME LifecycleInv, NEW q \in Ports, ShutdownRaises(q)
  PROVE  LifecycleInv'
<1>1. TypeOK /\ server[q] \in Server /\ server[q].phase = "stopping"
  BY DEF ShutdownRaises, LifecycleInv, TypeOK
<1>2. PICK n : n = server[q].aborts + 1
  OBVIOUS
<1>3. n \in 0..MAX_SHUTDOWN_RETRIES
  BY <1>1, <1>2, Bounds DEF Server, LifecycleInv, ServerInv, FailuresLeft
<1>4. PICK phase \in {"released", "aborted"} :
        phase = IF n >= MAX_SHUTDOWN_RETRIES THEN "released" ELSE "aborted"
  OBVIOUS
<1>5. PICK s : s = [server[q] EXCEPT !.phase = phase, !.aborts = n]
  OBVIOUS
<1>6. s \in Server
  <2>1. phase \in Phases
    BY DEF Phases
  <2> QED
    BY ZenonT(60), <1>1, <1>3, <1>5, <2>1 DEF Server
<1>7. /\ s.phase = phase /\ s.aborts = n
      /\ s.proc = server[q].proc /\ s.inode = server[q].inode
  BY <1>1, <1>5 DEF Server
<1>8. server' = [server EXCEPT ![q] = s]
  BY ZenonT(60), <1>1, <1>2, <1>4, <1>5 DEF ShutdownRaises, TypeOK
<1>9. /\ ProtocolInv' /\ server' \in [Ports -> Server]
      /\ lock' \in [Inodes -> Holder \cup {None}]
  <2>1. CASE n >= MAX_SHUTDOWN_RETRIES
    BY ZenonT(60), <1>1, <1>2, <1>4, <1>6, <1>7, <1>8, <2>1, LockIsLetGo DEF ShutdownRaises
  <2>2. CASE ~(n >= MAX_SHUTDOWN_RETRIES)
    <3>1. s.aborts < MAX_SHUTDOWN_RETRIES
      BY <1>3, <1>7, <2>2, Bounds
    <3>2. UNCHANGED <<pidfile, lock, stale, call, entry>>
      BY <1>2, <2>2 DEF ShutdownRaises
    <3>3. ProtocolInv' /\ server' \in [Ports -> Server]
      BY ZenonT(60), <1>1, <1>4, <1>6, <1>7, <1>8, <2>2, <3>1, <3>2, ServerSinks DEF Locked
    <3> QED
      BY <1>1, <3>2, <3>3 DEF TypeOK
  <2> QED
    BY <2>1, <2>2
<1>10. TypeOK' /\ PathIsLatest'
  BY <1>1, <1>9, Bounds DEF ShutdownRaises, Fault, LifecycleInv, TypeOK, CallInv, PathIsLatest
<1> QED
  BY <1>9, <1>10, Together

\* The registry entry goes with the server it names.
LEMMA PopPreserves ==
  ASSUME LifecycleInv, NEW q \in Ports, Pop(q)
  PROVE  LifecycleInv'
<1>1. TypeOK /\ server[q].phase = "released"
  BY DEF Pop, LifecycleInv
<1>2. /\ server' \in [Ports -> Server]
      /\ \A k \in Ports : server'[k] = IF k = q THEN FreeServer ELSE server[k]
  BY ZenonT(60), <1>1, CallShape DEF Pop, TypeOK
<1>3. PICK p \in Procs : p = server[q].proc
  BY SMTT(60), <1>1 DEF LifecycleInv, ServerInv, ReleasedIsOwned
<1>4. /\ entry' \in [Procs -> Ports \cup {None}]
      /\ \A r \in Procs : entry'[r] = IF r = p THEN None ELSE entry[r]
  BY <1>1, <1>3 DEF Pop, TypeOK
<1>5. UNCHANGED <<path, pidfile, lock, stale, call, calls, removals, faults>>
  BY SMTT(60) DEF Pop
<1>6. CallsAreSound' /\ SpawnerHolds'
  BY SMTT(60), <1>5 DEF LifecycleInv, CallInv, CallsAreSound, LockInv, SpawnerHolds
<1>7. SpawnerBinds' /\ BoundIsSpawned'
  BY SMTT(60), <1>1, <1>2, <1>5 DEF LifecycleInv, LockInv, SpawnerBinds, BoundIsSpawned, FreeServer
<1>8. ServerHolds'
  <2>1. FreeServer.phase \notin Locked
    BY ZenonT(60) DEF FreeServer, Locked
  <2> QED
    BY ZenonT(60), <1>2, <1>5, <2>1 DEF LifecycleInv, LockInv, ServerHolds
<1>9. HolderIsLive'
  BY ZenonT(60), <1>1, <1>2, <1>5 DEF LifecycleInv, LockInv, HolderIsLive, Locked
<1>10. ReleasedIsOwned' /\ FailuresLeft'
  BY SMTT(60), <1>2, Bounds DEF LifecycleInv, ServerInv, ReleasedIsOwned, FailuresLeft, FreeServer
<1>11. EntryIsOwn'
  <2> SUFFICES ASSUME NEW r \in Procs, entry'[r] # None
               PROVE  /\ server'[entry'[r]].phase \in Locked \cup {"released"}
                      /\ server'[entry'[r]].proc = r
    BY SMTT(60) DEF EntryIsOwn
  <2>1. /\ r # p /\ entry'[r] = entry[r] /\ entry[r] \in Ports
        /\ server[entry[r]].phase \in Locked \cup {"released"} /\ server[entry[r]].proc = r
    BY SMTT(60), <1>1, <1>4 DEF LifecycleInv, TypeOK, ServerInv, EntryIsOwn
  <2>2. server'[entry[r]] = server[entry[r]]
    BY SMTT(60), <1>2, <1>3, <2>1
  <2> QED
    BY SMTT(60), <2>1, <2>2
<1>12. AdvertisedIsLive'
  <2> SUFFICES ASSUME NEW k \in Inodes, pidfile[k] # None, ~stale[k]
               PROVE  /\ server'[pidfile[k]].inode = k
                      /\ \/ server'[pidfile[k]].phase = "serving"
                         \/ /\ server'[pidfile[k]].phase = "bound"
                            /\ call[server'[pidfile[k]].proc].pc = "serve"
    BY <1>5 DEF AdvertisedIsLive
  <2>1. pidfile[k] \in Ports
    BY SMTT(60), <1>1 DEF TypeOK
  <2> QED
    BY SMTT(60), <1>1, <1>2, <2>1 DEF LifecycleInv, ServerInv, AdvertisedIsLive
<1>13. TypeOK' /\ PathIsLatest'
  BY <1>1, <1>2, <1>4, <1>5 DEF LifecycleInv, TypeOK, CallInv, PathIsLatest
<1>14. LockInv' /\ ServerInv'
  BY <1>6, <1>7, <1>8, <1>9, <1>10, <1>11, <1>12 DEF LockInv, ServerInv
<1> QED
  BY <1>6, <1>13, <1>14, Together DEF ProtocolInv

-----------------------------------------------------------------------------
(* The world.                                                              *)

\* A process dies with its locks and its servers; the ports it leaves in a file are
\* stale.
LEMMA CrashPreserves ==
  ASSUME LifecycleInv, NEW p \in Procs, Crash(p)
  PROVE  LifecycleInv'
<1>1. TypeOK
  BY DEF LifecycleInv
<1>2. PICK dead : dead = {q \in Ports : server[q].phase # "free" /\ server[q].proc = p}
  BY ZenonT(60)
<1>3. /\ call' \in [Procs -> Call]
      /\ \A r \in Procs : call'[r] = IF r = p THEN Idle ELSE call[r]
  BY ZenonT(60), <1>1, CallShape DEF Crash, TypeOK
<1>4. /\ entry' \in [Procs -> Ports \cup {None}]
      /\ \A r \in Procs : entry'[r] = IF r = p THEN None ELSE entry[r]
  BY SMTT(60), <1>1 DEF Crash, TypeOK
<1>5. /\ server' \in [Ports -> Server]
      /\ \A k \in Ports : server'[k] = IF k \in dead THEN FreeServer ELSE server[k]
  BY ZenonT(60), <1>1, <1>2, CallShape DEF Crash, TypeOK
<1>6. /\ lock' \in [Inodes -> Holder \cup {None}]
      /\ \A i \in Inodes : lock'[i] = IF lock[i] # None /\ lock[i][1] = p THEN None ELSE lock[i]
  BY SMTT(60), <1>1 DEF Crash, TypeOK
<1>7. /\ stale' \in [Inodes -> BOOLEAN]
      /\ \A i \in Inodes : ~stale'[i] => ~stale[i] /\ pidfile[i] \notin dead
  BY ZenonT(60), <1>1, <1>2 DEF Crash, TypeOK
<1>8. UNCHANGED <<path, pidfile, calls, removals>> /\ faults' \in 0..MaxFaults
  BY SMTT(60), <1>1, Bounds DEF Crash, Fault, TypeOK
<1>9. CallsAreSound'
  BY SMTT(60), <1>3 DEF LifecycleInv, CallInv, CallsAreSound, Idle, Spawning
<1>10. SpawnerHolds'
  <2> SUFFICES ASSUME NEW r \in Procs, r # p, call[r].pc \in Spawning
               PROVE  lock'[call[r].fd] = <<r, Caller>>
    <3>1. Idle.pc \notin Spawning
      BY SMTT(60) DEF Idle, Spawning
    <3> QED
      BY SMTT(60), <1>3, <3>1 DEF SpawnerHolds
  <2>1. lock[call[r].fd] = <<r, Caller>> /\ call[r].fd \in Inodes
    BY SMTT(60) DEF LifecycleInv, LockInv, SpawnerHolds, CallInv, CallsAreSound
  <2> QED
    BY SMTT(60), <1>6, <2>1
<1>11. SpawnerBinds'
  <2> SUFFICES ASSUME NEW r \in Procs, r # p, call[r].pc \in Binding
               PROVE  /\ call[r].port \in Ports
                      /\ server'[call[r].port] = server[call[r].port]
                      /\ server[call[r].port].phase = "bound"
                      /\ server[call[r].port].proc = r
                      /\ server[call[r].port].inode = call[r].fd
    BY SMTT(60), <1>3 DEF SpawnerBinds, Binding, Idle
  <2> QED
    BY SMTT(60), <1>2, <1>5 DEF LifecycleInv, LockInv, SpawnerBinds
<1>12. BoundIsSpawned'
  <2> SUFFICES ASSUME NEW k \in Ports, server'[k].phase = "bound"
               PROVE  /\ server'[k].proc \in Procs
                      /\ call'[server'[k].proc].pc \in Binding
                      /\ call'[server'[k].proc].port = k
    BY SMTT(60) DEF BoundIsSpawned
  <2>1. k \notin dead /\ server'[k] = server[k]
    BY SMTT(60), <1>5 DEF FreeServer
  <2>2. server[k].proc \in Procs /\ server[k].proc # p
    BY SMTT(60), <1>2, <2>1 DEF LifecycleInv, LockInv, BoundIsSpawned
  <2> QED
    BY SMTT(60), <1>3, <2>1, <2>2 DEF LifecycleInv, LockInv, BoundIsSpawned
<1>13. ServerHolds'
  <2> SUFFICES ASSUME NEW k \in Ports, server'[k].phase \in Locked
               PROVE  /\ server'[k].proc \in Procs /\ server'[k].inode \in Inodes
                      /\ lock'[server'[k].inode] = <<server'[k].proc, k>>
    BY SMTT(60) DEF ServerHolds
  <2>1. k \notin dead /\ server'[k] = server[k]
    BY SMTT(60), <1>5 DEF FreeServer, Locked
  <2>2. /\ server[k].proc \in Procs /\ server[k].inode \in Inodes
        /\ lock[server[k].inode] = <<server[k].proc, k>>
    BY SMTT(60), <2>1 DEF LifecycleInv, LockInv, ServerHolds
  <2>3. server[k].proc # p
    BY ZenonT(60), <1>2, <2>1 DEF Locked
  <2> QED
    BY SMTT(60), <1>6, <2>1, <2>2, <2>3
<1>14. HolderIsLive'
  <2> SUFFICES ASSUME NEW i \in Inodes, lock'[i] # None
               PROVE  \/ /\ lock'[i][2] = Caller
                         /\ call'[lock'[i][1]].pc \in Spawning /\ call'[lock'[i][1]].fd = i
                      \/ /\ lock'[i][2] \in Ports
                         /\ server'[lock'[i][2]].phase \in Locked
                         /\ server'[lock'[i][2]].proc = lock'[i][1]
                         /\ server'[lock'[i][2]].inode = i
    BY SMTT(60) DEF HolderIsLive
  <2>1. lock'[i] = lock[i] /\ lock[i] # None /\ lock[i][1] # p /\ lock[i][1] \in Procs
    BY SMTT(60), <1>1, <1>6, Typed
  <2>2. CASE /\ lock[i][2] = Caller
             /\ call[lock[i][1]].pc \in Spawning /\ call[lock[i][1]].fd = i
    BY SMTT(60), <1>3, <2>1, <2>2
  <2>3. CASE /\ lock[i][2] \in Ports /\ server[lock[i][2]].phase \in Locked
             /\ server[lock[i][2]].proc = lock[i][1] /\ server[lock[i][2]].inode = i
    <3>1. server'[lock[i][2]] = server[lock[i][2]]
      BY SMTT(60), <1>2, <1>5, <2>1, <2>3
    <3> QED
      BY SMTT(60), <2>1, <2>3, <3>1
  <2> QED
    BY SMTT(60), <2>1, <2>2, <2>3 DEF LifecycleInv, LockInv, HolderIsLive
<1>15. ReleasedIsOwned' /\ FailuresLeft'
  BY SMTT(60), <1>5, Bounds DEF LifecycleInv, ServerInv, ReleasedIsOwned, FailuresLeft, FreeServer
<1>16. EntryIsOwn'
  <2> SUFFICES ASSUME NEW r \in Procs, entry'[r] # None
               PROVE  /\ server'[entry'[r]].phase \in Locked \cup {"released"}
                      /\ server'[entry'[r]].proc = r
    BY SMTT(60) DEF EntryIsOwn
  <2>1. /\ r # p /\ entry'[r] = entry[r] /\ entry[r] \in Ports
        /\ server[entry[r]].phase \in Locked \cup {"released"} /\ server[entry[r]].proc = r
    BY SMTT(60), <1>1, <1>4 DEF LifecycleInv, TypeOK, ServerInv, EntryIsOwn
  <2>2. server'[entry[r]] = server[entry[r]]
    BY SMTT(60), <1>2, <1>5, <2>1
  <2> QED
    BY SMTT(60), <2>1, <2>2
<1>17. AdvertisedIsLive'
  <2> SUFFICES ASSUME NEW i \in Inodes, pidfile[i] # None, ~stale'[i]
               PROVE  /\ server'[pidfile[i]].inode = i
                      /\ \/ server'[pidfile[i]].phase = "serving"
                         \/ /\ server'[pidfile[i]].phase = "bound"
                            /\ call'[server'[pidfile[i]].proc].pc = "serve"
    BY <1>8 DEF AdvertisedIsLive
  <2>1. pidfile[i] \in Ports /\ pidfile[i] \notin dead /\ ~stale[i]
    BY SMTT(60), <1>1, <1>7 DEF TypeOK
  <2>2. /\ server[pidfile[i]].inode = i
        /\ \/ server[pidfile[i]].phase = "serving"
           \/ /\ server[pidfile[i]].phase = "bound"
              /\ call[server[pidfile[i]].proc].pc = "serve"
    BY SMTT(60), <2>1 DEF LifecycleInv, ServerInv, AdvertisedIsLive
  <2>3. server'[pidfile[i]] = server[pidfile[i]]
    BY SMTT(60), <1>5, <2>1
  <2>4. server[pidfile[i]].phase = "bound" =>
          server[pidfile[i]].proc \in Procs /\ server[pidfile[i]].proc # p
    BY SMTT(60), <1>2, <2>1 DEF LifecycleInv, LockInv, BoundIsSpawned
  <2> QED
    BY SMTT(60), <1>3, <2>2, <2>3, <2>4
<1>18. TypeOK' /\ PathIsLatest'
  BY SMTT(60), <1>1, <1>3, <1>4, <1>5, <1>6, <1>7, <1>8
  DEF LifecycleInv, TypeOK, CallInv, PathIsLatest
<1>19. LockInv' /\ ServerInv'
  BY SMTT(60), <1>10, <1>11, <1>12, <1>13, <1>14, <1>15, <1>16, <1>17 DEF LockInv, ServerInv
<1> QED
  BY SMTT(60), <1>9, <1>18, <1>19, Together DEF ProtocolInv

\* The directory goes; the next one gets a new inode.
LEMMA RemovePreserves ==
  ASSUME LifecycleInv, Remove
  PROVE  LifecycleInv'
<1>1. TypeOK' /\ PathIsLatest'
  BY SMTT(60), Bounds DEF Remove, Fault, LifecycleInv, TypeOK, PathIsLatest
<1>2. CallsAreSound' /\ LockInv'
  BY ZenonT(60) DEF Remove, LifecycleInv, CallInv, CallsAreSound, LockInv, SpawnerHolds, SpawnerBinds,
         BoundIsSpawned, ServerHolds, HolderIsLive
<1>3. ServerInv'
  BY DEF Remove, LifecycleInv, ServerInv, ReleasedIsOwned, FailuresLeft, EntryIsOwn,
         AdvertisedIsLive
<1> QED
  BY SMTT(60), <1>1, <1>2, <1>3, Together DEF ProtocolInv

-----------------------------------------------------------------------------
(* The theorems.                                                           *)

\* A step of a call preserves the invariant.
LEMMA CallStepPreserves ==
  ASSUME LifecycleInv, NEW p \in Procs, CallStep(p)
  PROVE  LifecycleInv'
  BY ConnectPreserves, ProbePreserves, EnterPreserves, LoopTopPreserves, TryLockPreserves,
     ReadPortPreserves, BindPreserves, BindRaisesPreserves, RecheckPreserves,
     PublishPreserves, ServePreserves DEF CallStep

\* A step of a shutdown preserves the invariant.
LEMMA StopStepPreserves ==
  ASSUME LifecycleInv, NEW q \in Ports, StopStep(q)
  PROVE  LifecycleInv'
  BY ShutdownPreserves, ShutdownRaisesPreserves, ReleasePreserves, PopPreserves DEF StopStep

\* Every step of every process, server and outsider preserves the invariant.
LEMMA NextPreserves ==
  ASSUME LifecycleInv, [Next]_vars
  PROVE  LifecycleInv'
<1>1. CASE UNCHANGED vars
  <2>1. TypeOK' /\ CallInv'
    BY SMTT(60), <1>1 DEF vars, LifecycleInv, TypeOK, CallInv, CallsAreSound, PathIsLatest
  <2>2. LockInv'
    BY SMTT(60), <1>1 DEF vars, LifecycleInv, LockInv, SpawnerHolds, SpawnerBinds, BoundIsSpawned,
                ServerHolds, HolderIsLive
  <2>3. ServerInv'
    BY <1>1 DEF vars, LifecycleInv, ServerInv, ReleasedIsOwned, FailuresLeft, EntryIsOwn,
                AdvertisedIsLive
  <2> QED
    BY SMTT(60), <2>1, <2>2, <2>3 DEF LifecycleInv
<1>2. CASE Next
  BY <1>2, BeginPreserves, CallStepPreserves, StopsPreserve, StopStepPreserves,
     CrashPreserves, RemovePreserves DEF Next
<1> QED
  BY <1>1, <1>2

\* The invariant gives what the run checks: a server that runs holds the lock of its
\* file or is covered by its spawner's, so there is one (lifecycle.py's flock).
LEMMA InvariantServes ==
  ASSUME LifecycleInv
  PROVE  ServedOnce
<1>1. TypeOK /\ EntryIsOwn
  BY SMTT(60) DEF LifecycleInv, ServerInv
<1>2. OneServerPerStore
  <2> SUFFICES ASSUME NEW q1 \in Ports, NEW q2 \in Ports, OpenStore(q1), OpenStore(q2),
                      server[q1].inode = server[q2].inode
               PROVE  q1 = q2
    BY SMTT(60) DEF OneServerPerStore
  <2>1. ASSUME NEW q \in Ports, OpenStore(q)
        PROVE  \/ lock[server[q].inode] = <<server[q].proc, q>>
               \/ /\ lock[server[q].inode] = <<server[q].proc, Caller>>
                  /\ call[server[q].proc].port = q
    <3>1. CASE server[q].phase \in Locked
      BY SMTT(60), <3>1 DEF LifecycleInv, LockInv, ServerHolds
    <3>2. CASE server[q].phase = "bound"
      <4>1. PICK p \in Procs : p = server[q].proc /\ call[p].pc \in Binding /\ call[p].port = q
        BY SMTT(60), <3>2 DEF LifecycleInv, LockInv, BoundIsSpawned
      <4>2. server[q].inode = call[p].fd /\ lock[call[p].fd] = <<p, Caller>>
        BY ZenonT(60), <4>1 DEF LifecycleInv, LockInv, SpawnerBinds, SpawnerHolds, Binding, Spawning
      <4> QED
        BY SMTT(60), <4>1, <4>2
    <3> QED
      BY SMTT(60), <2>1, <3>1, <3>2 DEF OpenStore, Locked
  <2> QED
    BY <2>1, Distinct
<1>3. AdvertisedServes
  BY SMTT(60) DEF LifecycleInv, ServerInv, AdvertisedIsLive, AdvertisedServes
<1>4. NoLeakedLock
  <2> SUFFICES ASSUME NEW i \in Inodes, lock[i] # None
               PROVE  IF lock[i][2] = Caller
                      THEN /\ call[lock[i][1]].pc \in {"bind", "recheck", "publish", "serve"}
                           /\ call[lock[i][1]].fd = i
                      ELSE server[lock[i][2]].proc = lock[i][1] /\ server[lock[i][2]].inode = i
    BY DEF NoLeakedLock
  <2> QED
    BY SMTT(60), Distinct DEF LifecycleInv, LockInv, HolderIsLive, Spawning
<1> QED
  BY <1>1, <1>2, <1>3, <1>4 DEF ServedOnce

\* The lock protocol of the pid file is kept in every reachable state, for any number
\* of processes, ports and removals.
THEOREM LifecycleInvariance == Spec => []LifecycleInv
<1>1. Init => LifecycleInv
  BY InitEstablishes
<1>2. LifecycleInv /\ [Next]_vars => LifecycleInv'
  BY NextPreserves
<1> QED
  BY <1>1, <1>2, PTL DEF Spec

\* Two servers never run on one store, an advertised server serves, a lock has an
\* owner, and a process has registered its own server: across races, aborted
\* shutdowns, deaths and removals (connect_or_spawn, ensure_coordinator,
\* stop_coordinator and the shutdown sequence).
THEOREM ServedOnceAlways == Spec => []ServedOnce
<1>1. LifecycleInv => ServedOnce
  BY InvariantServes
<1> QED
  BY <1>1, LifecycleInvariance, PTL

-----------------------------------------------------------------------------
(* Schema: what a version requires.                                        *)

\* A version requires what the version below requires and what it adds (the chain
\* of migrations).
LEMMA RequiredStep ==
  ASSUME NEW n \in Nat
  PROVE  Required(n + 1) = Required(n) \cup Added(n + 1)
<1>1. 1..(n + 1) = (1..n) \cup {n + 1}
  OBVIOUS
<1> QED
  BY <1>1, Zenon DEF Required

\* A later version requires all that an earlier one does: no migration drops
\* anything.
LEMMA RequiredGrows ==
  ASSUME NEW m \in Nat, NEW n \in Nat, m <= n
  PROVE  Required(m) \subseteq Required(n)
<1>1. 1..m \subseteq 1..n
  OBVIOUS
<1> QED
  BY <1>1, Zenon DEF Required

\* The objects that _reject_foreign_ledger_db probes for come with their versions.
LEMMA RequiredMarkers ==
  ASSUME NEW n \in Nat
  PROVE  /\ n >= 2 => "artifact_versions" \in Required(n)
         /\ n >= 3 => "session_pins" \in Required(n)
         /\ n >= 5 => "workspace_checkpoints" \in Required(n)
         /\ n >= 1 => Required(n) # {}
<1>1. /\ "tables" \in Added(1) /\ "artifact_versions" \in Added(2)
      /\ "session_pins" \in Added(3) /\ "workspace_checkpoints" \in Added(5)
  BY DEF Added, Shims
<1>2. \A k \in 1..n : Added(k) \subseteq Required(n)
  BY Zenon DEF Required
<1> QED
  BY <1>1, <1>2

\* This runtime's versions have no watchdog column, and what they add are objects.
LEMMA AddedAreObjects ==
  ASSUME NEW k \in 1..SCHEMA_USER_VERSION
  PROVE  Added(k) \subseteq Objects /\ "deadline_tick" \notin Added(k)
<1>1. Added(k) \subseteq Required(SCHEMA_USER_VERSION)
  BY Zenon DEF Required
<1>2. "deadline_tick" \notin Added(k)
  BY DEF Added, Shims
<1> QED
  BY <1>1, <1>2 DEF Objects

\* The same of all that the current version requires (the tables of a fresh store).
LEMMA CurrentObjects ==
  /\ Required(SCHEMA_USER_VERSION) \subseteq Objects
  /\ "deadline_tick" \notin Required(SCHEMA_USER_VERSION)
<1>1. \A k \in 1..SCHEMA_USER_VERSION : "deadline_tick" \notin Added(k)
  BY AddedAreObjects
<1> QED
  BY <1>1, Zenon DEF Objects, Required

-----------------------------------------------------------------------------
(* Our stores and the others.                                              *)

\* A store is not both ours and one to leave alone: the markers tell them apart.
LEMMA OwnIsNotUntouchable ==
  ASSUME NEW f \in File, IsOwn(f)
  PROVE  ~Untouchable(f) /\ ~Marked(f)
<1>1. f.stamp \in Nat /\ f.stamp <= 7
  BY DEF IsOwn, SCHEMA_USER_VERSION
<1>2. f.stamp >= 2 => "artifact_versions" \in f.objects
  BY SMTT(60), <1>1, RequiredMarkers DEF IsOwn
<1>3. ~IsForeign(f)
  <2>1. f.runtime # "node"
    BY UnsetAssumption DEF IsOwn, Runtimes
  <2> QED
    BY <1>2, <2>1 DEF IsForeign, IsOwn
<1> QED
  BY <1>1, <1>3 DEF Untouchable, Marked, SCHEMA_USER_VERSION

\* A store that shows its marker is one to leave alone.
LEMMA MarkedIsUntouchable ==
  ASSUME NEW f, Marked(f)
  PROVE  Untouchable(f)
  BY SMTT(60) DEF Marked, Untouchable

\* _reject_foreign_ledger_db passes our store, also to an opener that read an
\* earlier version of it.
LEMMA OwnIsNotForeign ==
  ASSUME NEW f \in File, IsOwn(f), NEW v \in Nat, v <= f.stamp
  PROVE  ~Foreign(f, v)
<1>1. f.stamp \in Nat
  BY DEF File
<1>2. /\ v >= 2 => "artifact_versions" \in f.objects
      /\ v >= 3 => "session_pins" \in f.objects
      /\ v >= 5 => "workspace_checkpoints" \in f.objects
  BY SMTT(60), <1>1, RequiredMarkers DEF IsOwn
<1> QED
  BY <1>2 DEF Foreign, IsOwn
-----------------------------------------------------------------------------
(* What the transactions do to our store.                                  *)

\* A transaction of some opener, as the other openers see it: the stamp does not
\* fall, an empty store becomes complete at once, a complete one is not touched
\* again, and an epoch stays.
Advances(f, g) ==
  /\ g.stamp >= f.stamp
  /\ f.stamp = 0 => g.stamp \in {0, SCHEMA_USER_VERSION}
  /\ f.stamp = SCHEMA_USER_VERSION => g.stamp = SCHEMA_USER_VERSION
  /\ f.epoch # Unset => g.epoch = f.epoch

\* apply_v2_schema meets an empty store and makes it a complete one.
LEMMA CreatedIsOwn ==
  ASSUME NEW f \in File, IsOwn(f), f.objects = {}, NEW e \in Epochs,
         NEW g, g = [stamp |-> SCHEMA_USER_VERSION,
                     objects |-> Required(SCHEMA_USER_VERSION),
                     runtime |-> "python", epoch |-> e]
  PROVE  g \in File /\ IsOwn(g) /\ Advances(f, g) /\ f.stamp = 0
<1>1. f.stamp \in 0..7 /\ f.stamp \in Nat
  BY SMTT(60) DEF IsOwn, SCHEMA_USER_VERSION
<1>2. f.stamp = 0
  BY SMTT(60), <1>1, RequiredMarkers DEF IsOwn
<1>3. f.epoch = Unset
  BY SMTT(60), <1>2 DEF IsOwn
<1>4. g \in File
  BY SMTT(60), CurrentObjects DEF File, Runtimes, SCHEMA_USER_VERSION
<1>5. IsOwn(g)
  BY SMTT(60), CurrentObjects, UnsetAssumption DEF IsOwn, SCHEMA_USER_VERSION
<1> QED
  BY SMTT(60), <1>2, <1>3, <1>4, <1>5 DEF Advances, SCHEMA_USER_VERSION

\* A step of the chain that is due stamps its version, adds its objects and keeps
\* the rest (migrate_v1_to_v2 to migrate_v6_to_v7).
LEMMA MigratedFields ==
  ASSUME NEW f \in File, NEW n \in 2..7, NEW e \in Epochs, f.runtime \in {Unset, "python"},
         n >= 3 => f.epoch # Unset
  PROVE  LET g == MigratedFile(f, n, e) IN
         /\ g \in [stamp : Nat, objects : SUBSET Objects,
                   runtime : Runtimes \cup {Unset}, epoch : Epochs]
         /\ g.stamp = n
         /\ g.objects = f.objects \cup Added(n)
         /\ g.runtime \in {Unset, "python"}
         /\ f.epoch # Unset => g.epoch = f.epoch
<1>1. Added(n) \subseteq Objects
  BY AddedAreObjects DEF SCHEMA_USER_VERSION
<1>2. PICK s : s = Stamped(f, n)
  BY ZenonT(60)
<1>3. /\ s \in File /\ s.stamp = n /\ s.objects = f.objects \cup Added(n)
      /\ s.runtime = f.runtime /\ s.epoch = f.epoch
  <2>1. PICK A : A = Added(n) /\ A \subseteq Objects
    BY <1>1
  <2>2. s = [f EXCEPT !.stamp = n, !.objects = @ \cup A]
    BY <1>2, <2>1 DEF Stamped
  <2>3. PICK B : B = f.objects \cup A /\ B \in SUBSET Objects
    BY ZenonT(60), <2>1 DEF File
  <2>4. s = [[f EXCEPT !.stamp = n] EXCEPT !.objects = B]
    BY <2>2, <2>3 DEF File
  <2>5. s.stamp = n /\ s.objects = B /\ s.runtime = f.runtime /\ s.epoch = f.epoch
    BY <2>4 DEF File
  <2>6. n \in Nat
    OBVIOUS
  <2>7. s \in File
    BY ZenonT(60), <2>3, <2>4, <2>6 DEF File
  <2> QED
    BY <2>1, <2>3, <2>5, <2>7
<1>4. CASE n = 2
  <2>1. PICK g : g = [s EXCEPT !.epoch = IF @ = Unset THEN e ELSE @,
                               !.runtime = IF @ = Unset THEN "python" ELSE @]
    OBVIOUS
  <2>2. MigratedFile(f, n, e) = g
    BY <1>2, <1>4, <2>1 DEF MigratedFile, migrate_v1_to_v2
  <2>3. /\ g.stamp = s.stamp /\ g.objects = s.objects
        /\ g.epoch = IF s.epoch = Unset THEN e ELSE s.epoch
        /\ g.runtime = IF s.runtime = Unset THEN "python" ELSE s.runtime
        /\ g \in [stamp : Nat, objects : SUBSET Objects,
                  runtime : Runtimes \cup {Unset}, epoch : Epochs]
    BY ZenonT(60), <1>3, <2>1 DEF File, Runtimes
  <2> QED
    BY <1>3, <2>2, <2>3
<1>5. CASE n \in 3..7
  <2>1. MigratedFile(f, n, e) = s
    BY <1>2, <1>5 DEF MigratedFile, migrate_v2_to_v3, migrate_v3_to_v4, migrate_v4_to_v5,
                      migrate_v5_to_v6, migrate_v6_to_v7, SCHEMA_USER_VERSION
  <2>2. s \in [stamp : Nat, objects : SUBSET Objects,
               runtime : Runtimes \cup {Unset}, epoch : Epochs]
    BY SMTT(60), <1>3, <1>5 DEF File
  <2> QED
    BY <1>3, <2>1, <2>2
<1> QED
  BY <1>4, <1>5

\* Also where a racing opener was faster, a step of the chain leaves a store of ours
\* that has reached its version.
LEMMA MigratedIsOwn ==
  ASSUME NEW f \in File, IsOwn(f), NEW n \in 2..7, n - 1 <= f.stamp, NEW e \in Epochs
  PROVE  LET g == Migrated(f, n, e) IN
         /\ g \in File /\ IsOwn(g) /\ Advances(f, g)
         /\ n <= g.stamp /\ g.epoch \in Epochs
<1>1. f.stamp \in Nat /\ f.stamp <= 7 /\ f.epoch \in Epochs \cup {Unset}
  BY SMTT(60) DEF IsOwn, SCHEMA_USER_VERSION, File
<1>2. CASE f.stamp >= n
  <2>1. Migrated(f, n, e) = f /\ f.epoch # Unset
    BY SMTT(60), <1>1, <1>2 DEF Migrated, IsOwn
  <2> QED
    BY SMTT(60), <1>1, <1>2, <2>1 DEF Advances
<1>3. CASE ~(f.stamp >= n)
  <2>1. f.stamp = n - 1 /\ f.stamp # 0 /\ f.stamp # 7
    BY SMTT(60), <1>1, <1>3
  <2>2. n >= 3 => f.epoch # Unset
    BY <1>1, <2>1 DEF IsOwn
  <2>3. PICK g : g = MigratedFile(f, n, e)
    BY ZenonT(60)
  <2>4. /\ g \in [stamp : Nat, objects : SUBSET Objects,
                  runtime : Runtimes \cup {Unset}, epoch : Epochs]
        /\ g.stamp = n
        /\ g.objects = f.objects \cup Added(n)
        /\ g.runtime \in {Unset, "python"}
        /\ f.epoch # Unset => g.epoch = f.epoch
    BY SMTT(60), <2>2, <2>3, MigratedFields DEF IsOwn
  <2>5. g \in File /\ g.epoch \in Epochs
    BY SMTT(60), <2>4 DEF File
  <2>6. Required(n) \subseteq g.objects
    <3>1. Required(n) = Required(f.stamp) \cup Added(n)
      BY SMTT(60), <1>1, <2>1, RequiredStep
    <3>2. Required(f.stamp) \subseteq f.objects
      BY SMTT(60), <2>1 DEF IsOwn
    <3> QED
      BY <2>4, <3>1, <3>2
  <2>7. "deadline_tick" \notin g.objects
    BY SMTT(60), <2>4, AddedAreObjects DEF IsOwn, SCHEMA_USER_VERSION
  <2>8. IsOwn(g)
    BY SMTT(60), <2>4, <2>5, <2>6, <2>7, UnsetAssumption DEF IsOwn, SCHEMA_USER_VERSION
  <2>9. Advances(f, g)
    BY <1>1, <2>1, <2>4 DEF Advances, SCHEMA_USER_VERSION
  <2>10. Migrated(f, n, e) = g
    BY <1>3, <2>3 DEF Migrated
  <2> QED
    BY <2>4, <2>5, <2>8, <2>9, <2>10
<1> QED
  BY <1>2, <1>3

\* ensure_conflict_counters_table adds a table of no version.
LEMMA CountersIsOwn ==
  ASSUME NEW f \in File, IsOwn(f), f.stamp = SCHEMA_USER_VERSION,
         NEW g, g = [f EXCEPT !.objects = @ \cup {"conflict_counters"}]
  PROVE  g \in File /\ IsOwn(g) /\ Advances(f, g)
<1>1. /\ g.stamp = f.stamp /\ g.runtime = f.runtime /\ g.epoch = f.epoch
      /\ g.objects = f.objects \cup {"conflict_counters"} /\ g \in File
  BY SMTT(60) DEF File, Objects
<1> QED
  BY <1>1 DEF IsOwn, Advances, SCHEMA_USER_VERSION
-----------------------------------------------------------------------------
(* Steps on a store that is to be left alone.                              *)

\* Connecting reads the version and writes nothing.
LEMMA ReadVersionEffect ==
  ASSUME SchemaTypeOK, NEW o \in Openers, NEW read_only \in BOOLEAN, ReadVersion(o, read_only)
  PROVE  /\ SchemaTypeOK' /\ file' = file
         /\ opener'[o].pc = "dispatch" /\ opener'[o].seen = file.stamp
         /\ \A p \in Openers : p # o => opener'[p] = opener[p]
<1>1. PICK x : x = [pc |-> "dispatch", read_only |-> read_only, seen |-> file.stamp, epoch |-> Unset]
  BY ZenonT(60)
<1>2. x \in Opener
  BY SMTT(60), <1>1 DEF Opener, PC, SchemaTypeOK, File
<1>3. /\ opener' = [opener EXCEPT ![o] = x] /\ file' = file
      /\ opens' = [opens EXCEPT ![o] = @ + 1] /\ opens[o] < MaxOpens
  BY <1>1 DEF ReadVersion
<1>4. opens' \in [Openers -> 0..MaxOpens]
  BY <1>3, MaxOpensAssumption DEF SchemaTypeOK
<1>5. opener' \in [Openers -> Opener] /\ opener'[o] = x
  BY SMTT(60), <1>2, <1>3 DEF SchemaTypeOK
<1> QED
  BY <1>1, <1>3, <1>4, <1>5 DEF SchemaTypeOK

\* Nobody gets past the dispatch, and nothing is written: _reject_foreign_ledger_db
\* or the version check refuses.
LEMMA MarkedStep ==
  ASSUME SchemaTypeOK, Marked(file), \A o \in Openers : LeftAlone(o), SchemaNext
  PROVE  SchemaTypeOK' /\ file' = file /\ \A o \in Openers : LeftAlone(o)'
<1>0. file \in File /\ file.stamp \in Nat /\ opener \in [Openers -> Opener]
  BY DEF SchemaTypeOK, File
<1>1. PICK o \in Openers :
        \/ \E read_only \in BOOLEAN : ReadVersion(o, read_only)
        \/ Dispatch(o)
        \/ apply_v2_schema(o)
        \/ migrate(o)
        \/ rehydrate_meta(o)
        \/ ensure_conflict_counters_table(o)
        \/ Kill(o)
  BY SMTT(60) DEF SchemaNext
<1>2. opener[o].pc \in {"idle", "dispatch", "refused"}
  BY SMTT(60) DEF LeftAlone
<1>3. ASSUME NEW read_only \in BOOLEAN, ReadVersion(o, read_only)
      PROVE  SchemaTypeOK' /\ file' = file /\ \A p \in Openers : LeftAlone(p)'
  BY <1>3, ReadVersionEffect DEF LeftAlone
<1>4. CASE Dispatch(o)
  <2>1. Foreign(file, opener[o].seen) \/ NextPhase(opener[o].seen, opener[o].read_only) = "refused"
    <3>1. opener[o].seen = file.stamp
      BY <1>4 DEF Dispatch, LeftAlone
    <3> QED
      BY SMTT(60), <1>0, <3>1 DEF Marked, NextPhase, SCHEMA_USER_VERSION
  <2>2. opener' = [opener EXCEPT ![o].pc = "refused"] /\ UNCHANGED <<file, opens>>
    BY ZenonT(60), <1>4, <2>1 DEF Dispatch, Move
  <2> QED
    BY <1>0, <2>2 DEF SchemaTypeOK, LeftAlone, Opener, PC
<1>5. CASE Kill(o)
  BY <1>0, <1>5 DEF Kill, Closed, SchemaTypeOK, LeftAlone, Opener, PC
<1>6. ~apply_v2_schema(o) /\ ~migrate(o) /\ ~rehydrate_meta(o) /\ ~ensure_conflict_counters_table(o)
  BY SMTT(60), <1>2 DEF apply_v2_schema, migrate, rehydrate_meta, ensure_conflict_counters_table
<1> QED
  BY <1>1, <1>3, <1>4, <1>5, <1>6

-----------------------------------------------------------------------------
(* Steps on our store.                                                     *)

\* The version of a store of ours is one this build knows, and the current one
\* comes with an epoch.
LEMMA OwnStamp ==
  ASSUME NEW f \in File, IsOwn(f)
  PROVE  /\ f.stamp \in Nat /\ f.stamp <= 7
         /\ f.stamp = 7 => f.epoch # Unset
         /\ f.objects # {} => f.stamp # 0
  BY SMTT(60) DEF IsOwn, SCHEMA_USER_VERSION

\* After a migration the open stands at the next one, or past the chain's end.
LEMMA MigratedStands ==
  ASSUME NEW x, NEW f, NEW n \in 2..7, f.stamp \in Nat, n <= f.stamp, f.stamp <= 7,
         x.pc = IF n = 7 THEN "counters" ELSE "migrate",
         x.seen = n, x.epoch = f.epoch, ~x.read_only
  PROVE  Stands(x, f)
  BY SMTT(60) DEF Stands, SCHEMA_USER_VERSION

\* After the dispatch the open stands where the version it read sends it.
LEMMA DispatchedStands ==
  ASSUME NEW x, NEW f, f.stamp \in Nat, f.stamp <= 7, x.seen \in Nat, x.seen <= f.stamp,
         x.pc \in {"rehydrate", "create", "migrate", "refused"},
         x.pc = "rehydrate" => x.seen = 7,
         x.pc = "create" => x.seen = 0 /\ ~x.read_only,
         x.pc = "migrate" => x.seen \in 1..6 /\ ~x.read_only,
         x.pc = "refused" => x.read_only,
         x.seen = 0 => f.stamp \in {0, 7}
  PROVE  Stands(x, f)
  BY SMTT(60) DEF Stands, SCHEMA_USER_VERSION

\* The current version, as a number.
LEMMA CurrentVersion == SCHEMA_USER_VERSION = 7 /\ 7 \in Nat
  BY DEF SCHEMA_USER_VERSION

\* A step that does not write leaves the store as advanced as it is.
LEMMA StaysAsItIs ==
  ASSUME NEW f \in File
  PROVE  Advances(f, f)
<1>1. f.stamp \in Nat
  BY DEF File
<1> QED
  BY <1>1 DEF Advances

\* An open that is over, that has just read the version, or that works on a store
\* of the current version.
LEMMA PlainlyStands ==
  ASSUME NEW x, NEW f, f.stamp \in Nat,
         \/ x.pc = "idle"
         \/ x.pc = "dispatch" /\ x.seen = f.stamp
         \/ x.pc \in {"failed", "counters", "open"} /\ f.stamp = 7
            /\ (x.pc # "failed" => x.epoch = f.epoch)
  PROVE  Stands(x, f)
  BY SMTT(60) DEF Stands, SCHEMA_USER_VERSION

\* What an open that stands at a point relies on there.
LEMMA StandsThere ==
  ASSUME NEW x, NEW f, Stands(x, f)
  PROVE  /\ x.pc = "dispatch" => x.seen <= f.stamp
         /\ x.pc = "dispatch" /\ x.seen = 0 => f.stamp \in {0, 7}
         /\ x.pc = "create" => f.stamp \in {0, 7} /\ ~x.read_only
         /\ x.pc = "migrate" => x.seen \in 1..6 /\ x.seen <= f.stamp /\ ~x.read_only
         /\ x.pc \in {"rehydrate", "counters"} => f.stamp = 7
         /\ x.pc = "counters" => x.epoch = f.epoch
  BY SMTT(60) DEF Stands, SCHEMA_USER_VERSION

\* The transaction of another leaves an open standing.
LEMMA StandsOn ==
  ASSUME NEW x \in Opener, NEW f \in File, NEW g \in File, IsOwn(f), IsOwn(g), Advances(f, g),
         Stands(x, f)
  PROVE  Stands(x, g)
<1>1. /\ f.stamp \in Nat /\ g.stamp \in Nat /\ f.stamp <= 7 /\ g.stamp <= 7
      /\ f.stamp = 7 => f.epoch # Unset
  BY ZenonT(60), OwnStamp
<1>2. x.seen \in Nat
  BY DEF Opener
<1> QED
  BY SMTT(60), <1>1, <1>2 DEF Stands, Advances, SCHEMA_USER_VERSION

\* An open that does not move stands as well after the transaction of another.
LEMMA OthersUnderWay ==
  ASSUME SchemaTypeOK, IsOwn(file), file' \in File, IsOwn(file'), Advances(file, file'),
         NEW p \in Openers, UnderWay(p), opener'[p] = opener[p]
  PROVE  UnderWay(p)'
<1>1. PICK x, f, g : x = opener[p] /\ f = file /\ g = file'
  BY ZenonT(60)
<1>2. x \in Opener /\ f \in File
  BY ZenonT(60), <1>1 DEF SchemaTypeOK
<1>3. Stands(x, g)
  BY ZenonT(60), <1>1, <1>2, StandsOn DEF UnderWay
<1> QED
  BY ZenonT(60), <1>1, <1>3 DEF UnderWay

\* What one opener does: it reads the version and dispatches.
LEMMA ReadStep ==
  ASSUME SchemaTypeOK, IsOwn(file), NEW o \in Openers, UnderWay(o),
         \/ \E read_only \in BOOLEAN : ReadVersion(o, read_only)
         \/ Dispatch(o)
         \/ Kill(o)
  PROVE  SchemaTypeOK' /\ file' = file /\ UnderWay(o)'
<1>0. /\ file \in File /\ file.stamp \in Nat /\ file.stamp <= 7
      /\ opener \in [Openers -> Opener] /\ opener[o] \in Opener /\ opener[o].seen \in Nat
  <2>1. file \in File /\ opener \in [Openers -> Opener]
    BY ZenonT(60) DEF SchemaTypeOK
  <2>2. file.stamp \in Nat /\ file.stamp <= 7
    BY ZenonT(60), <2>1, OwnStamp
  <2> QED
    BY ZenonT(60), <2>1, <2>2 DEF Opener
<1>1. ASSUME NEW read_only \in BOOLEAN, ReadVersion(o, read_only)
      PROVE  SchemaTypeOK' /\ file' = file /\ UnderWay(o)'
  BY ZenonT(60), <1>0, <1>1, ReadVersionEffect, PlainlyStands DEF UnderWay
<1>2. CASE Kill(o)
  <2>1. Closed \in Opener /\ Closed.pc = "idle"
    BY DEF Closed, Opener, PC
  <2>2. opener' \in [Openers -> Opener] /\ opener'[o] = Closed /\ file' = file /\ opens' = opens
    BY ZenonT(60), <1>0, <1>2, <2>1 DEF Kill
  <2>3. UnderWay(o)'
    BY ZenonT(60), <1>0, <2>1, <2>2, PlainlyStands DEF UnderWay
  <2> QED
    BY ZenonT(60), <2>2, <2>3 DEF SchemaTypeOK
<1>3. CASE Dispatch(o)
  <2>1. PICK x : x = opener[o] /\ x \in Opener
    BY ZenonT(60), <1>0
  <2>2. x.pc = "dispatch" /\ x.seen \in Nat /\ x.seen <= file.stamp
    BY ZenonT(60), <1>0, <1>3, <2>1, StandsThere DEF Dispatch, UnderWay
  <2>3. ~Foreign(file, x.seen)
    BY <1>0, <2>2, OwnIsNotForeign
  <2>4. PICK q : q = NextPhase(x.seen, x.read_only)
    OBVIOUS
  <2>5. /\ q \in {"rehydrate", "create", "migrate", "refused"}
        /\ q = "rehydrate" => x.seen = 7
        /\ q = "create" => x.seen = 0 /\ ~x.read_only
        /\ q = "migrate" => x.seen \in 1..6 /\ ~x.read_only
        /\ q = "refused" => x.read_only
    BY <1>0, <2>1, <2>2, <2>4 DEF NextPhase, SCHEMA_USER_VERSION, Opener
  <2>6. /\ opener' = [opener EXCEPT ![o].pc = q] /\ UNCHANGED <<file, opens>>
    BY <1>3, <2>1, <2>3, <2>4 DEF Dispatch, Move
  <2>7. opener' \in [Openers -> Opener]
    BY <1>0, <2>5, <2>6 DEF Opener, PC
  <2>8. /\ opener'[o].pc = q /\ opener'[o].seen = x.seen
        /\ opener'[o].read_only = x.read_only
    BY SMTT(60), <1>0, <2>1, <2>6 DEF Opener
  <2>9. x.seen = 0 => file.stamp \in {0, 7}
    BY ZenonT(60), <2>1, <2>2, StandsThere DEF UnderWay
  <2>10. UnderWay(o)'
    <3>1. PICK y, f : y = opener'[o] /\ f = file'
      BY ZenonT(60)
    <3>2. y.pc = q /\ y.seen = x.seen /\ y.read_only = x.read_only /\ f = file
      BY ZenonT(60), <2>6, <2>8, <3>1
    <3>3. Stands(y, f)
      BY ZenonT(60), <1>0, <2>2, <2>5, <2>9, <3>2, DispatchedStands
    <3> QED
      BY ZenonT(60), <3>1, <3>3 DEF UnderWay
  <2> QED
    BY <2>6, <2>7, <2>10 DEF SchemaTypeOK
<1> QED
  BY SMTT(60), <1>1, <1>2, <1>3

\* A fresh store: the winner of the race creates it, and the loser finds it complete.
LEMMA CreateStep ==
  ASSUME SchemaTypeOK, IsOwn(file), NEW o \in Openers, UnderWay(o), apply_v2_schema(o)
  PROVE  SchemaTypeOK' /\ IsOwn(file') /\ Advances(file, file') /\ UnderWay(o)'
<1>0. /\ file \in File /\ opener \in [Openers -> Opener] /\ opener[o] \in Opener
      /\ file.stamp \in {0, 7} /\ ~opener[o].read_only /\ opens' = opens
  BY ZenonT(60), StandsThere DEF SchemaTypeOK, UnderWay, apply_v2_schema
<1>1. CASE file.objects = {}
  <2>1. PICK e \in Epochs :
          /\ file' = [stamp |-> SCHEMA_USER_VERSION,
                      objects |-> Required(SCHEMA_USER_VERSION),
                      runtime |-> "python", epoch |-> e]
          /\ opener' = [opener EXCEPT ![o].pc = "counters", ![o].epoch = e]
    BY <1>1 DEF apply_v2_schema
  <2>2. file' \in File /\ IsOwn(file') /\ Advances(file, file')
    BY <1>0, <1>1, <2>1, CreatedIsOwn
  <2>3. file'.stamp = SCHEMA_USER_VERSION /\ file'.epoch = e
    BY <2>1
  <2>4. /\ opener' \in [Openers -> Opener]
        /\ opener'[o].pc = "counters" /\ opener'[o].epoch = e
    BY ZenonT(60), <1>0, <2>1 DEF Opener, PC
  <2> QED
    <3>1. UnderWay(o)'
      BY ZenonT(60), <2>3, <2>4, PlainlyStands, CurrentVersion DEF UnderWay
    <3> QED
      BY ZenonT(60), <1>0, <2>2, <2>4, <3>1 DEF SchemaTypeOK
<1>2. CASE file.objects # {}
  <2>1. opener' = [opener EXCEPT ![o].pc = "failed"] /\ file' = file
    BY <1>2 DEF apply_v2_schema, Move
  <2>2. opener' \in [Openers -> Opener] /\ opener'[o].pc = "failed"
    BY SMTT(60), <1>0, <2>1 DEF Opener, PC
  <2>3. file.stamp = 7
    BY ZenonT(60), <1>0, <1>2, OwnStamp
  <2> QED
    <3>1. UnderWay(o)'
      BY ZenonT(60), <2>1, <2>2, <2>3, PlainlyStands, CurrentVersion DEF UnderWay
    <3> QED
      BY ZenonT(60), <1>0, <2>1, <2>2, <3>1, StaysAsItIs DEF SchemaTypeOK
<1> QED
  BY <1>1, <1>2

\* One migration of the chain, made or found made.
LEMMA MigrateStep ==
  ASSUME SchemaTypeOK, IsOwn(file), NEW o \in Openers, UnderWay(o), migrate(o)
  PROVE  SchemaTypeOK' /\ IsOwn(file') /\ Advances(file, file') /\ UnderWay(o)'
<1>0. /\ file \in File /\ file.stamp \in Nat
      /\ opener \in [Openers -> Opener] /\ opener[o] \in Opener
      /\ opener[o].seen \in 1..6 /\ opener[o].seen <= file.stamp /\ ~opener[o].read_only
      /\ opens' = opens
  <2>1. file \in File /\ opener \in [Openers -> Opener]
    BY ZenonT(60) DEF SchemaTypeOK
  <2>2. file.stamp \in Nat
    BY ZenonT(60), <2>1, OwnStamp
  <2> QED
    BY ZenonT(60), <2>1, <2>2, StandsThere DEF UnderWay, migrate
<1>1. PICK n : n = opener[o].seen + 1 /\ n \in 2..7 /\ n - 1 <= file.stamp
  BY SMTT(60), <1>0
<1>2. PICK e \in Epochs :
        /\ file' = Migrated(file, n, e)
        /\ Rehydrated(o, file', IF n = SCHEMA_USER_VERSION THEN "counters" ELSE "migrate", n)
  BY ZenonT(60), <1>1 DEF migrate
<1>3. /\ file' \in File /\ IsOwn(file') /\ Advances(file, file')
      /\ n <= file'.stamp /\ file'.epoch \in Epochs
  BY <1>0, <1>1, <1>2, MigratedIsOwn
<1>4. PICK q : q = (IF n = 7 THEN "counters" ELSE "migrate")
  OBVIOUS
<1>5. opener' = [opener EXCEPT ![o].pc = q, ![o].epoch = file'.epoch, ![o].seen = n]
  BY ZenonT(60), <1>2, <1>3, <1>4, UnsetAssumption DEF Rehydrated, SCHEMA_USER_VERSION
<1>6. /\ opener' \in [Openers -> Opener]
      /\ opener'[o].pc = q /\ opener'[o].epoch = file'.epoch /\ opener'[o].seen = n
      /\ opener'[o].read_only = opener[o].read_only
  BY SMTT(60), <1>0, <1>1, <1>3, <1>4, <1>5 DEF Opener, PC
<1>7. file'.stamp \in Nat /\ file'.stamp <= 7
  BY ZenonT(60), <1>3, OwnStamp
<1>8. UnderWay(o)'
  <2>1. PICK x, f : x = opener'[o] /\ f = file'
    BY ZenonT(60)
  <2>2. /\ n \in 2..7 /\ f.stamp \in Nat /\ n <= f.stamp /\ f.stamp <= 7
        /\ x.pc = IF n = 7 THEN "counters" ELSE "migrate"
        /\ x.seen = n /\ x.epoch = f.epoch /\ ~x.read_only
    BY ZenonT(60), <1>0, <1>1, <1>3, <1>4, <1>6, <1>7, <2>1
  <2>3. Stands(x, f)
    BY ZenonT(60), <2>2, MigratedStands
  <2> QED
    BY ZenonT(60), <2>1, <2>3 DEF UnderWay
<1> QED
  BY SMTT(60), <1>0, <1>3, <1>6, <1>8 DEF SchemaTypeOK

\* A current store is opened without a write, and the conflict counters are ensured.
LEMMA FinishStep ==
  ASSUME SchemaTypeOK, IsOwn(file), NEW o \in Openers, UnderWay(o),
         rehydrate_meta(o) \/ ensure_conflict_counters_table(o)
  PROVE  SchemaTypeOK' /\ IsOwn(file') /\ Advances(file, file') /\ UnderWay(o)'
<1>0. /\ file \in File /\ file.stamp = 7 /\ file.epoch # Unset /\ file.epoch \in Epochs \cup {Unset}
      /\ opener \in [Openers -> Opener] /\ opener[o] \in Opener /\ opens' = opens
  <2>1. file \in File /\ opener \in [Openers -> Opener]
    BY ZenonT(60) DEF SchemaTypeOK
  <2>2. file.epoch \in Epochs \cup {Unset}
    BY <2>1 DEF File
  <2>3. file.stamp = 7 /\ opens' = opens
    BY ZenonT(60), StandsThere DEF UnderWay, rehydrate_meta, ensure_conflict_counters_table
  <2> QED
    BY ZenonT(60), <2>1, <2>2, <2>3, OwnStamp
<1>1. CASE rehydrate_meta(o)
  <2>1. PICK q : q = (IF opener[o].read_only THEN "open" ELSE "counters")
    OBVIOUS
  <2>2. /\ opener' = [opener EXCEPT ![o].pc = q, ![o].epoch = file.epoch,
                                    ![o].seen = opener[o].seen]
        /\ file' = file
    BY <1>0, <1>1, <2>1 DEF rehydrate_meta, Rehydrated
  <2>3. /\ opener' \in [Openers -> Opener] /\ opener'[o].pc = q
        /\ opener'[o].epoch = file.epoch
    BY ZenonT(60), <1>0, <2>1, <2>2 DEF Opener, PC
  <2> QED
    <3>1. UnderWay(o)'
      BY ZenonT(60), <1>0, <2>1, <2>2, <2>3, PlainlyStands, CurrentVersion DEF UnderWay
    <3> QED
      BY ZenonT(60), <1>0, <2>2, <2>3, <3>1, StaysAsItIs DEF SchemaTypeOK
<1>2. CASE ensure_conflict_counters_table(o)
  <2>1. /\ opener' = [opener EXCEPT ![o].pc = "open"]
        /\ file' = [file EXCEPT !.objects = @ \cup {"conflict_counters"}]
        /\ opener[o].epoch = file.epoch
    BY ZenonT(60), <1>2, StandsThere DEF ensure_conflict_counters_table, Move, UnderWay
  <2>2. /\ opener' \in [Openers -> Opener] /\ opener'[o].pc = "open"
        /\ opener'[o].epoch = file.epoch
    BY <1>0, <2>1 DEF Opener, PC
  <2>3. file' \in File /\ IsOwn(file') /\ Advances(file, file')
    BY <1>0, <2>1, CountersIsOwn DEF SCHEMA_USER_VERSION
  <2>4. file'.stamp = 7 /\ file'.epoch = file.epoch
    BY <1>0, <2>3 DEF Advances, SCHEMA_USER_VERSION
  <2> QED
    <3>1. UnderWay(o)'
      BY ZenonT(60), <2>2, <2>4, PlainlyStands, CurrentVersion DEF UnderWay
    <3> QED
      BY ZenonT(60), <1>0, <2>2, <2>3, <3>1 DEF SchemaTypeOK
<1> QED
  BY <1>1, <1>2

\* Any step of any opener on our store.
LEMMA OwnStep ==
  ASSUME SchemaTypeOK, IsOwn(file), \A p \in Openers : UnderWay(p), SchemaNext
  PROVE  /\ SchemaTypeOK' /\ IsOwn(file') /\ Advances(file, file')
         /\ \A p \in Openers : UnderWay(p)'
<1>1. PICK o \in Openers :
        \/ \E read_only \in BOOLEAN : ReadVersion(o, read_only)
        \/ Dispatch(o)
        \/ apply_v2_schema(o)
        \/ migrate(o)
        \/ rehydrate_meta(o)
        \/ ensure_conflict_counters_table(o)
        \/ Kill(o)
  BY DEF SchemaNext
<1>2. file' = file => Advances(file, file') /\ (IsOwn(file) => IsOwn(file'))
  BY SMTT(60) DEF Advances, SchemaTypeOK, File
<1>3. SchemaTypeOK' /\ IsOwn(file') /\ Advances(file, file') /\ UnderWay(o)'
  <2>1. CASE apply_v2_schema(o)
    BY <2>1, CreateStep
  <2>2. CASE migrate(o)
    BY <2>2, MigrateStep
  <2>3. CASE rehydrate_meta(o) \/ ensure_conflict_counters_table(o)
    BY <2>3, FinishStep
  <2>4. CASE \/ \E read_only \in BOOLEAN : ReadVersion(o, read_only)
             \/ Dispatch(o)
             \/ Kill(o)
    BY <1>2, <2>4, ReadStep
  <2> QED
    BY <1>1, <2>1, <2>2, <2>3, <2>4
<1>4. \A p \in Openers : p # o => opener'[p] = opener[p]
  BY ZenonT(60), <1>1 DEF SchemaTypeOK, ReadVersion, Dispatch, apply_v2_schema, migrate, rehydrate_meta,
              ensure_conflict_counters_table, Kill, Move, Rehydrated
<1>5. ASSUME NEW p \in Openers, p # o PROVE UnderWay(p)'
  <2>1. file' \in File
    BY <1>3 DEF SchemaTypeOK
  <2> QED
    BY <1>3, <1>4, <1>5, <2>1, OthersUnderWay
<1> QED
  BY <1>3, <1>5

\* Before the first open, the file is ours or marked, and nobody is opening it.
LEMMA InitSchemaInv ==
  SchemaInit => SchemaInv
<1> SUFFICES ASSUME SchemaInit PROVE SchemaInv
  OBVIOUS
<1>1. file \in File /\ (IsOwn(file) \/ Marked(file))
  BY InitialFilesAssumption DEF SchemaInit
<1>2. Closed \in Opener /\ Closed.pc = "idle"
  BY DEF Closed, Opener, PC
<1>3. /\ opener \in [Openers -> Opener] /\ \A o \in Openers : opener[o].pc = "idle"
      /\ opens \in [Openers -> 0..MaxOpens]
  BY <1>2, MaxOpensAssumption DEF SchemaInit
<1>4. SchemaTypeOK
  BY <1>1, <1>3 DEF SchemaTypeOK
<1>5. \A o \in Openers : UnderWay(o) /\ LeftAlone(o)
  BY ZenonT(60), <1>3 DEF UnderWay, Stands, LeftAlone
<1> QED
  BY <1>1, <1>4, <1>5 DEF SchemaInv

\* What a step of an opener does to the store: nothing where it is marked, and
\* otherwise it only adds.
LEMMA NextSchemaInv ==
  ASSUME SchemaInv, SchemaNext
  PROVE  /\ SchemaInv'
         /\ Untouchable(file) => file' = file
         /\ file'.stamp >= file.stamp
         /\ file.epoch # Unset => file'.epoch = file.epoch
<1>0. SchemaTypeOK /\ file \in File /\ file.stamp \in Nat
  BY DEF SchemaInv, SchemaTypeOK, File
<1>1. CASE IsOwn(file) /\ \A o \in Openers : UnderWay(o)
  <2>1. /\ SchemaTypeOK' /\ IsOwn(file') /\ Advances(file, file')
        /\ \A p \in Openers : UnderWay(p)'
    BY <1>0, <1>1, OwnStep
  <2>2. SchemaInv'
    BY <2>1 DEF SchemaInv
  <2>3. ~Untouchable(file)
    BY <1>0, <1>1, OwnIsNotUntouchable
  <2> QED
    BY <2>1, <2>2, <2>3 DEF Advances
<1>2. CASE Marked(file) /\ \A o \in Openers : LeftAlone(o)
  <2>1. SchemaTypeOK' /\ file' = file /\ \A o \in Openers : LeftAlone(o)'
    BY <1>0, <1>2, MarkedStep
  <2>2. Marked(file')
    BY <1>2, <2>1
  <2>3. SchemaInv'
    BY <2>1, <2>2 DEF SchemaInv
  <2> QED
    BY <1>0, <2>1, <2>3
<1> QED
  BY <1>1, <1>2 DEF SchemaInv

\* A step that changes nothing keeps the invariant and moves no store.
LEMMA StutterSchemaInv ==
  ASSUME SchemaInv, UNCHANGED schemaVars
  PROVE  SchemaInv' /\ file' = file
<1>1. file' = file /\ opener' = opener /\ opens' = opens
  BY DEF schemaVars
<1>2. SchemaTypeOK' <=> SchemaTypeOK
  BY <1>1 DEF SchemaTypeOK
<1>3. /\ IsOwn(file)' <=> IsOwn(file)
      /\ Marked(file)' <=> Marked(file)
  BY SMTT(60), <1>1
<1>4. \A o \in Openers : (UnderWay(o)' <=> UnderWay(o)) /\ (LeftAlone(o)' <=> LeftAlone(o))
  BY <1>1 DEF UnderWay, LeftAlone
<1> QED
  BY <1>1, <1>2, <1>3, <1>4 DEF SchemaInv

\* For any number of processes that create, migrate, open and are killed on one
\* store (the constructor of SqliteArtifactRegistry), the inductive invariant
\* holds.
THEOREM SchemaInvariance ==
  SchemaSpec => []SchemaInv
<1>1. SchemaInit => SchemaInv
  BY InitSchemaInv
<1>2. SchemaInv /\ [SchemaNext]_schemaVars => SchemaInv'
  BY NextSchemaInv, StutterSchemaInv
<1> QED
  BY <1>1, <1>2, PTL DEF SchemaSpec

\* A store of this ledger has at every instant what its version promises, every
\* completed open holds the store's epoch, and a writer is refused only where the
\* store belongs to another ledger or to a newer build.
THEOREM StoresOpen ==
  SchemaSpec => []StoreOpens
<1>1. SchemaInv => StoreOpens
  <2> SUFFICES ASSUME SchemaInv PROVE StoreOpens
    OBVIOUS
  <2>0. SchemaTypeOK
    BY DEF SchemaInv
  <2>1. CASE IsOwn(file) /\ \A o \in Openers : UnderWay(o)
    <3>1. StampMeansObjects
      BY ZenonT(60), <2>1 DEF StampMeansObjects
    <3>2. OpenersAgree /\ NeverUnbootable
      BY SMTT(60), <2>1 DEF UnderWay, Stands, OpenersAgree, NeverUnbootable
    <3> QED
      BY <2>0, <3>1, <3>2 DEF StoreOpens
  <2>2. CASE Marked(file) /\ \A o \in Openers : LeftAlone(o)
    <3>1. Untouchable(file)
      BY <2>2, MarkedIsUntouchable
    <3>2. \A o \in Openers : opener[o].pc \notin {"open", "failed"}
      BY ZenonT(60), <2>2 DEF LeftAlone
    <3> QED
      BY <2>0, <3>1, <3>2 DEF StoreOpens, StampMeansObjects, OpenersAgree, NeverUnbootable
  <2> QED
    BY <2>1, <2>2 DEF SchemaInv
<1> QED
  BY <1>1, SchemaInvariance, PTL

\* No opener lowers the version or replaces a stored epoch, and a store of the
\* sibling runtime or of a newer build is never written.
THEOREM StoresMoveForward ==
  SchemaSpec => StoreMovesForward
<1>1. SchemaInv /\ [SchemaNext]_schemaVars => [Untouchable(file) => file' = file]_schemaVars
  BY NextSchemaInv
<1>2. SchemaInv /\ [SchemaNext]_schemaVars =>
        [/\ file'.stamp >= file.stamp
         /\ file.epoch # Unset => file'.epoch = file.epoch]_schemaVars
  BY NextSchemaInv
<1> QED
  BY <1>1, <1>2, SchemaInvariance, PTL
     DEF SchemaSpec, StoreMovesForward, ForeignUntouched, StampNeverFalls
=============================================================================
