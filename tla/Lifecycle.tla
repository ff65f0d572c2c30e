----------------------------- MODULE Lifecycle ------------------------------
(***************************************************************************)
(* Finding, starting and stopping the one coordinator of a workspace       *)
(* (adapters/claude_code/lifecycle.py).  Every process may call            *)
(* connect_or_spawn or ensure_coordinator; the winner of a file lock on    *)
(* .coherence/server.pid binds a server, writes its port into the file and *)
(* serves; the others read the port.  A server stops when it is idle or    *)
(* when its process asks; processes die; the directory is removed and      *)
(* comes back with a new inode.                                            *)
(*                                                                         *)
(* A step ends where another process or thread can come between: at every  *)
(* file, lock and socket operation.                                        *)
(*                                                                         *)
(* Abstractions.  A server is known by its port.  Sleeps and clocks are    *)
(* left out: a server may be found idle at any time, and a loop runs its   *)
(* bounded number of attempts.  The read-only directory and the platform   *)
(* without file locks, where every call answers -1, are left out.          *)
(***************************************************************************)
EXTENDS Integers

CONSTANTS Procs, Ports, None,
          port_file_retry_attempts,       \* attempts to join or spawn
          inode_revalidation_budget,      \* re-opens after a removed directory
          MAX_SHUTDOWN_RETRIES,           \* failed shutdowns before the lock is let go
          MaxCalls,                       \* bound on the calls of all processes
          MaxRemovals,                    \* bound on removals of the directory
          MaxFaults                       \* bound on removals, deaths and errors together

ASSUME BoundsAssumption ==
  {port_file_retry_attempts, inode_revalidation_budget, MAX_SHUTDOWN_RETRIES,
   MaxCalls, MaxRemovals, MaxFaults} \subseteq Nat /\ MAX_SHUTDOWN_RETRIES # 0

\* Ports are numbers; the system hands out one that is free.
ASSUME PortsAssumption == Ports \subseteq Nat \ {0}

VARIABLES path,          \* the inode at server.pid, 0 when there is none
          pidfile,       \* per inode: the port in the file, or None
          lock,          \* per inode: who holds the flock
          stale,         \* per inode: the port outlived its server (a crash, a failed rewrite)
          call,          \* per process: where its call stands
          entry,         \* per process: _SPAWNED_REGISTRY
          server,        \* per port: the server bound to it
          calls, removals, faults

vars == <<path, pidfile, lock, stale, call, entry, server, calls, removals, faults>>

Inodes == 1..(MaxRemovals + 1)

\* A holder is a process and the file descriptor it holds the lock with: its
\* call's, or that of a server it runs.
Caller == 0

Holder == Procs \X (Ports \cup {Caller})

ASSUME NoneAssumption == None \notin Procs \cup Ports \cup Holder

Phases == {"free", "bound", "serving", "dropped", "stopping", "closed", "aborted", "released"}

FreeServer == [phase |-> "free", proc |-> None, inode |-> 0, shutting_down |-> FALSE,
               aborts |-> 0]

Server == [phase : Phases, proc : Procs \cup {None}, inode : Inodes \cup {0},
           shutting_down : BOOLEAN, aborts : 0..MAX_SHUTDOWN_RETRIES]

PCs == {"idle", "connect", "probe", "verify", "enter", "loop", "lock", "read", "bind",
        "recheck", "publish", "serve"}

Call == [pc : PCs, fd : Inodes \cup {0}, attempt : 0..port_file_retry_attempts,
         budget : 0..inode_revalidation_budget, port : Ports \cup {None}, probes : BOOLEAN]

Idle == [pc |-> "idle", fd |-> 0, attempt |-> 0, budget |-> 0, port |-> None, probes |-> FALSE]

\* A TCP connect succeeds from the constructor's bind to server_close.
Listening(q) == server[q].phase \in {"bound", "serving", "dropped", "stopping"}

inode_matches(fd) == path # 0 /\ fd = path

read_port_from_file == IF path = 0 THEN None ELSE pidfile[path]

Step(p, pc) == call' = [call EXCEPT ![p].pc = pc]

Returns(p) == call' = [call EXCEPT ![p] = Idle]

Fault == faults < MaxFaults /\ faults' = faults + 1

-----------------------------------------------------------------------------
(* connect_or_spawn and ensure_coordinator.                                *)

Begin(p, probes) ==
  /\ call[p].pc = "idle"
  /\ calls < MaxCalls
  /\ calls' = calls + 1
  /\ call' = [call EXCEPT ![p] = [Idle EXCEPT !.pc = IF probes THEN "connect" ELSE "enter",
                                              !.probes = probes]]
  /\ UNCHANGED <<path, pidfile, lock, stale, entry, server, removals, faults>>

\* connect_or_spawn: the port in the file, when something answers there.
Connect(p) ==
  /\ call[p].pc = "connect"
  /\ call' = [call EXCEPT ![p].pc = IF read_port_from_file = None THEN "enter" ELSE "probe",
                          ![p].port = read_port_from_file]
  /\ UNCHANGED <<path, pidfile, lock, stale, entry, server, calls, removals, faults>>

Probe(p) ==
  /\ call[p].pc = "probe"
  /\ IF Listening(call[p].port)
       THEN Returns(p)
       ELSE Step(p, "enter")
  /\ UNCHANGED <<path, pidfile, lock, stale, entry, server, calls, removals, faults>>

\* ensure_coordinator returns; connect_or_spawn probes what it returned.
Ensured(p, port) ==
  IF call[p].probes /\ port # None
    THEN call' = [call EXCEPT ![p] = [Idle EXCEPT !.pc = "verify", !.port = port]]
    ELSE Returns(p)

Verify(p) ==
  /\ call[p].pc = "verify"
  /\ Returns(p)
  /\ UNCHANGED <<path, pidfile, lock, stale, entry, server, calls, removals, faults>>

\* A server this process runs already is returned when it answers.  Otherwise
\* the pid file is opened, which creates it where it is missing.
OpenPidfile(p, budget) ==
  LET inode == IF path = 0 THEN removals + 1 ELSE path IN
  /\ path' = inode
  /\ call' = [call EXCEPT ![p].pc = "loop", ![p].fd = inode,
                          ![p].attempt = 0, ![p].budget = budget]

Enter(p) ==
  /\ call[p].pc = "enter"
  /\ IF entry[p] # None /\ Listening(entry[p])
       THEN Ensured(p, entry[p]) /\ UNCHANGED path
       ELSE OpenPidfile(p, inode_revalidation_budget)
  /\ UNCHANGED <<pidfile, lock, stale, entry, server, calls, removals, faults>>

\* The top of the loop: out of attempts; the file is not the one that was
\* opened (re-open it, within the budget); or try the lock.
LoopTop(p) ==
  /\ call[p].pc = "loop"
  /\ \/ /\ call[p].attempt >= port_file_retry_attempts
        /\ Ensured(p, None) /\ UNCHANGED path
     \/ /\ call[p].attempt < port_file_retry_attempts
        /\ ~inode_matches(call[p].fd)
        /\ IF call[p].budget = 0
             THEN Ensured(p, None) /\ UNCHANGED path
             ELSE OpenPidfile(p, call[p].budget - 1)
     \/ /\ call[p].attempt < port_file_retry_attempts
        /\ inode_matches(call[p].fd)
        /\ Step(p, "lock") /\ UNCHANGED path
  /\ UNCHANGED <<pidfile, lock, stale, entry, server, calls, removals, faults>>

TryLock(p) ==
  LET fd == call[p].fd IN
  /\ call[p].pc = "lock"
  /\ \/ /\ lock[fd] = None
        /\ lock' = [lock EXCEPT ![fd] = <<p, Caller>>]
        /\ Step(p, "bind")
     \/ /\ lock[fd] # None
        /\ Step(p, "read")
        /\ UNCHANGED lock
  /\ UNCHANGED <<path, pidfile, stale, entry, server, calls, removals, faults>>

\* Mutant: a file without a port does not cost an attempt.
ReadPort_NoCount(p) ==
  /\ call[p].pc = "read"
  /\ IF read_port_from_file # None
       THEN Ensured(p, read_port_from_file)
       ELSE Step(p, "loop")
  /\ UNCHANGED <<path, pidfile, lock, stale, entry, server, calls, removals, faults>>

\* The lock is taken: the holder's port if it is in the file, else another
\* attempt.
ReadPort(p) ==
  /\ call[p].pc = "read"
  /\ IF read_port_from_file # None
       THEN Ensured(p, read_port_from_file)
       ELSE call' = [call EXCEPT ![p].pc = "loop", ![p].attempt = @ + 1]
  /\ UNCHANGED <<path, pidfile, lock, stale, entry, server, calls, removals, faults>>

\* The winner opens the store and binds a port the system hands out.
Bind(p) ==
  /\ call[p].pc = "bind"
  /\ \E q \in Ports :
       /\ server[q].phase = "free"
       /\ \A k \in Ports : server[k].phase = "free" => q <= k
       /\ server' = [server EXCEPT ![q] = [FreeServer EXCEPT !.phase = "bound", !.proc = p,
                                                             !.inode = call[p].fd]]
       /\ call' = [call EXCEPT ![p].pc = "recheck", ![p].port = q]
  /\ UNCHANGED <<path, pidfile, lock, stale, entry, calls, removals, faults>>

\* The constructor raises (a store it cannot open): the lock is given back.
BindRaises(p) ==
  /\ call[p].pc = "bind"
  /\ Fault
  /\ lock' = [lock EXCEPT ![call[p].fd] = None]
  /\ Returns(p)
  /\ UNCHANGED <<path, pidfile, stale, entry, server, calls, removals>>

\* The directory went away during construction: tear down and start over.
Recheck(p) ==
  LET q == call[p].port IN
  /\ call[p].pc = "recheck"
  /\ IF inode_matches(call[p].fd)
       THEN Step(p, "publish") /\ UNCHANGED <<lock, server>>
       ELSE /\ server' = [server EXCEPT ![q] = FreeServer]
            /\ lock' = [lock EXCEPT ![call[p].fd] = None]
            /\ Step(p, "loop")
  /\ UNCHANGED <<path, pidfile, stale, entry, calls, removals, faults>>

\* _write_pidfile.
Publish(p) ==
  LET fd == call[p].fd IN
  /\ call[p].pc = "publish"
  /\ pidfile' = [pidfile EXCEPT ![fd] = call[p].port]
  /\ stale' = [stale EXCEPT ![fd] = FALSE]
  /\ Step(p, "serve")
  /\ UNCHANGED <<path, lock, entry, server, calls, removals, faults>>

\* serve_in_thread, the registry entry and the background threads; the self
\* probe finds the listening socket.
Serve(p) ==
  LET q == call[p].port IN
  /\ call[p].pc = "serve"
  /\ server' = [server EXCEPT ![q].phase = "serving"]
  /\ entry' = [entry EXCEPT ![p] = q]
  /\ lock' = [lock EXCEPT ![call[p].fd] = <<p, q>>]
  /\ Ensured(p, q)
  /\ UNCHANGED <<path, pidfile, stale, calls, removals, faults>>

-----------------------------------------------------------------------------
(* The server's threads.                                                   *)

\* _rewrite_pidfile_drop_port, first of all; a failed rewrite is only logged.
DropPort(q) ==
  /\ server' = [server EXCEPT ![q].phase = "dropped"]
  /\ \/ /\ pidfile' = [pidfile EXCEPT ![server[q].inode] = None]
        /\ UNCHANGED <<stale, faults>>
     \/ /\ Fault
        /\ stale' = [stale EXCEPT ![server[q].inode] = TRUE]
        /\ UNCHANGED pidfile

\* _idle_shutdown_loop: its condition is that shutdown has not begun.
IdleShutdown(q) ==
  /\ server[q].phase \in {"serving", "aborted"}
  /\ ~server[q].shutting_down
  /\ DropPort(q)
  /\ UNCHANGED <<path, lock, call, entry, calls, removals>>

\* stop_coordinator, from another thread of the process.
stop_coordinator(p) ==
  LET q == entry[p] IN
  /\ q # None
  /\ server[q].phase \in {"serving", "aborted"}
  /\ calls < MaxCalls
  /\ calls' = calls + 1
  /\ DropPort(q)
  /\ UNCHANGED <<path, lock, call, entry, removals>>

\* CoordinatorHTTPServer.shutdown: a second call returns at once.
ShutdownBegins(q) ==
  /\ server[q].phase = "dropped"
  /\ server' = [server EXCEPT
                  ![q].phase = IF server[q].shutting_down THEN "closed" ELSE "stopping",
                  ![q].shutting_down = TRUE]
  /\ UNCHANGED <<path, pidfile, lock, stale, call, entry, calls, removals, faults>>

\* The handlers drain, or their deadline passes; the store is closed.
ShutdownEnds(q) ==
  /\ server[q].phase = "stopping"
  /\ server' = [server EXCEPT ![q].phase = "closed"]
  /\ UNCHANGED <<path, pidfile, lock, stale, call, entry, calls, removals, faults>>

\* shutdown raises: the sequence stops with the lock held, until too many
\* failures let it go.
ShutdownRaises(q) ==
  LET gives_up == server[q].aborts + 1 >= MAX_SHUTDOWN_RETRIES IN
  /\ server[q].phase = "stopping"
  /\ Fault
  /\ server' = [server EXCEPT ![q].phase = IF gives_up THEN "released" ELSE "aborted",
                              ![q].aborts = @ + 1]
  /\ lock' = IF gives_up THEN [lock EXCEPT ![server[q].inode] = None] ELSE lock
  /\ UNCHANGED <<path, pidfile, stale, call, entry, calls, removals>>

\* Mutant: the lock is given back before the server is down.
Release_Early(q) ==
  /\ server[q].phase \in {"stopping", "closed"}
  /\ lock[server[q].inode] = <<server[q].proc, q>>
  /\ lock' = [lock EXCEPT ![server[q].inode] = None]
  /\ server' = [server EXCEPT ![q].phase = IF @ = "closed" THEN "released" ELSE @]
  /\ UNCHANGED <<path, pidfile, stale, call, entry, calls, removals, faults>>

Release(q) ==
  /\ server[q].phase = "closed"
  /\ lock' = [lock EXCEPT ![server[q].inode] = None]
  /\ server' = [server EXCEPT ![q].phase = "released"]
  /\ UNCHANGED <<path, pidfile, stale, call, entry, calls, removals, faults>>

\* The thread that ran the sequence removes the process's registry entry.
Pop(q) ==
  /\ server[q].phase = "released"
  /\ entry' = [entry EXCEPT ![server[q].proc] = None]
  /\ server' = [server EXCEPT ![q] = FreeServer]
  /\ UNCHANGED <<path, pidfile, lock, stale, call, calls, removals, faults>>

-----------------------------------------------------------------------------
(* The world.                                                              *)

\* The process dies: its locks go, its files stay as they are.
Crash(p) ==
  LET dead == {q \in Ports : server[q].phase # "free" /\ server[q].proc = p} IN
  /\ Fault
  /\ call' = [call EXCEPT ![p] = Idle]
  /\ entry' = [entry EXCEPT ![p] = None]
  /\ server' = [q \in Ports |-> IF q \in dead THEN FreeServer ELSE server[q]]
  /\ lock' = [i \in Inodes |-> IF lock[i] # None /\ lock[i][1] = p THEN None ELSE lock[i]]
  /\ stale' = [i \in Inodes |-> stale[i] \/ pidfile[i] \in dead]
  /\ UNCHANGED <<path, pidfile, calls, removals>>

\* Someone removes .coherence; the next open makes a new file.
Remove ==
  /\ path # 0
  /\ Fault
  /\ removals < MaxRemovals
  /\ removals' = removals + 1
  /\ path' = 0
  /\ UNCHANGED <<pidfile, lock, stale, call, entry, server, calls>>

Init ==
  /\ path = 0
  /\ pidfile = [i \in Inodes |-> None]
  /\ lock = [i \in Inodes |-> None]
  /\ stale = [i \in Inodes |-> FALSE]
  /\ call = [p \in Procs |-> Idle]
  /\ entry = [p \in Procs |-> None]
  /\ server = [q \in Ports |-> FreeServer]
  /\ calls = 0 /\ removals = 0 /\ faults = 0

CallStep(p) ==
  \/ Connect(p) \/ Probe(p) \/ Verify(p) \/ Enter(p) \/ LoopTop(p) \/ TryLock(p)
  \/ ReadPort(p) \/ Bind(p) \/ BindRaises(p) \/ Recheck(p) \/ Publish(p) \/ Serve(p)

StopStep(q) ==
  ShutdownBegins(q) \/ ShutdownEnds(q) \/ ShutdownRaises(q) \/ Release(q) \/ Pop(q)

Next ==
  \/ \E p \in Procs : \/ \E probes \in BOOLEAN : Begin(p, probes)
                      \/ CallStep(p) \/ stop_coordinator(p) \/ Crash(p)
  \/ \E q \in Ports : IdleShutdown(q) \/ StopStep(q)
  \/ Remove

\* A call runs on, a shutdown that has begun runs on, and the idle thread
\* tries a shutdown that was aborted again if its loop condition lets it.
Fairness ==
  /\ \A p \in Procs : WF_vars(CallStep(p))
  /\ \A q \in Ports : WF_vars(StopStep(q)) /\ WF_vars(server[q].phase = "aborted" /\ IdleShutdown(q))

Spec == Init /\ [][Next]_vars

FairSpec == Spec /\ Fairness

-----------------------------------------------------------------------------
(* Properties.                                                             *)

\* Files, locks, calls and servers have the shapes the code gives them.
TypeOK ==
  /\ path \in Inodes \cup {0}
  /\ pidfile \in [Inodes -> Ports \cup {None}]
  /\ lock \in [Inodes -> Holder \cup {None}]
  /\ stale \in [Inodes -> BOOLEAN]
  /\ call \in [Procs -> Call]
  /\ entry \in [Procs -> Ports \cup {None}]
  /\ server \in [Ports -> Server]
  /\ calls \in 0..MaxCalls /\ removals \in 0..MaxRemovals /\ faults \in 0..MaxFaults

\* Two servers never run on one store: from its bind until its store is
\* closed, a server is alone on its inode, across spawns that race, servers
\* that stop, and processes that die.
OpenStore(q) == server[q].phase \in {"bound", "serving", "dropped", "stopping"}

OneServerPerStore ==
  \A q1, q2 \in Ports :
    OpenStore(q1) /\ OpenStore(q2) /\ server[q1].inode = server[q2].inode => q1 = q2

\* A port in the file belongs to a server on that file that has not begun to
\* go down, unless its process died or the rewrite of the file failed: a
\* process that joins is not sent to a server on its way out.
AdvertisedServes ==
  \A i \in Inodes :
    pidfile[i] # None /\ ~stale[i] =>
      /\ server[pidfile[i]].phase \in {"bound", "serving"}
      /\ server[pidfile[i]].inode = i

\* The lock of a file is held by a call that is about to spawn on it or by
\* the server that runs on it: no error path leaves it to nobody.
NoLeakedLock ==
  \A i \in Inodes : lock[i] # None =>
    LET p == lock[i][1]
        by == lock[i][2]
    IN  IF by = Caller THEN call[p].pc \in {"bind", "recheck", "publish", "serve"} /\ call[p].fd = i
        ELSE server[by].proc = p /\ server[by].inode = i

\* The phases in which a started server owns the lock of its file.
Locked == {"serving", "dropped", "stopping", "closed", "aborted"}

\* The server a process has registered is one it started itself: it is never
\* answered with, and never stops, the server of another process that was given
\* the same port later (_SPAWNED_REGISTRY).
EntryIsOwn ==
  \A p \in Procs : entry[p] # None =>
    server[entry[p]].phase \in Locked \cup {"released"} /\ server[entry[p]].proc = p

\* One server per store, found where it is advertised, with a lock that always has
\* an owner who gives it back, and registered by the process that runs it
\* (connect_or_spawn, ensure_coordinator, stop_coordinator and shutdown).
ServedOnce ==
  TypeOK /\ OneServerPerStore /\ AdvertisedServes /\ NoLeakedLock /\ EntryIsOwn

\* Every call returns: no order of spawns, removals and deaths keeps a
\* process in the loop.
EveryCallReturns ==
  \A p \in Procs : call[p].pc # "idle" ~> call[p].pc = "idle"

\* lifecycle.py:885: after an aborted shutdown the "loop continues so the
\* next sweep tick will retry".
AbortedShutdownRetried ==
  \A q \in Ports : server[q].phase = "aborted" ~> server[q].phase # "aborted"
=============================================================================
