------------------------------- MODULE Session -------------------------------
(***************************************************************************)
(* A session of the user programs: Spring (user/init) starts the services, *)
(* the compositor Reflection, its clients and the terminal, one after the  *)
(* other; they talk over two ports.                                        *)
(*                                                                         *)
(* A step is one system call.  The kernel appears as what Sched and Ipc    *)
(* show of it: waitpid returns once the child is dead, ipc_recv takes the  *)
(* oldest message and waits while there is none, ipc_send fails on a full  *)
(* port.  A message is the name of the program that sends it, which its    *)
(* first word tells.  What the programs print and draw is left out.        *)
(***************************************************************************)
EXTENDS Integers, Sequences

CONSTANTS MAX_IN_FLIGHT,  \* port.rs: messages queued in a port
          MaxRuns         \* bound: how often the user types run-vfsd

\* What the proofs assume of the constants.
SessionSizes == MAX_IN_FLIGHT \in Nat /\ MaxRuns \in Nat

Service == {"vfsd", "netd", "audiod"}
Client  == {"desktop", "tide", "skim", "stones", "drift", "surface_demo"}
\* vfsd2 is the vfsd that the shell starts.
Program == Service \cup Client \cup {"reflection", "depth", "shore", "vfsd2"}

VARIABLES spring,     \* the program Spring is busy with, and its next call
          program,    \* the next call of every other program
          supervisor, \* the queue of Spring's port
          surface,    \* the queue of Reflection's port
          published,  \* the names in the registry
          drawn,      \* what Reflection has drawn
          runs        \* how often the shell has started vfsd

sesVars == <<spring, program, supervisor, surface, published, drawn, runs>>

Goto(p, l) == program' = [program EXCEPT ![p] = l]
Sent(q, m) == IF Len(q) >= MAX_IN_FLIGHT THEN q ELSE Append(q, m)

SessionInit ==
    /\ spring = [on |-> "spring", do |-> "ipc"]
    /\ program = [p \in Program |-> "none"]
    /\ supervisor = <<>> /\ surface = <<>>
    /\ published = {}
    /\ drawn = <<>>
    /\ runs = 0

----------------------------------------------------------------------------
(* Spring *)

Script == <<"vfsd", "netd", "audiod", "reflection", "desktop", "tide", "skim", "stones",
            "drift", "surface_demo", "depth">>
Position(p) == CHOOSE i \in DOMAIN Script : Script[i] = p
ToSpawn(p) == [on |-> p, do |-> "spawn"]

\* Faulty variant of Past: Reflection is not waited for.
Past_LeavesReflection(p) ==
    IF p = "depth" THEN [on |-> "spring", do |-> "exited"] ELSE ToSpawn(Script[Position(p) + 1])

\* Where Spring goes when it has finished with p.
Past(p) ==
    CASE p = "surface_demo" -> [on |-> "reflection", do |-> "wait"]
      [] p = "reflection"   -> ToSpawn("depth")
      [] p = "depth"        -> [on |-> "spring", do |-> "exited"]
      [] OTHER              -> ToSpawn(Script[Position(p) + 1])

\* init_supervisor_ipc.  The two messages it sends to itself are received
\* before any other program exists.
SpringIpc ==
    /\ spring.do = "ipc"
    /\ published' = {"spring"}
    /\ spring' = ToSpawn("vfsd")
    /\ UNCHANGED <<program, supervisor, surface, drawn, runs>>

\* The manifest does not list the program.
Missing ==
    /\ spring.do = "spawn"
    /\ spring' = Past(spring.on)
    /\ UNCHANGED <<program, supervisor, surface, published, drawn, runs>>

\* spawn returns a pid, and Spring goes on to the call l; or it fails.
Spawn(l) ==
    /\ spring.do = "spawn"
    /\ \/ Goto(spring.on, "start") /\ spring' = [spring EXCEPT !.do = l]
       \/ spring' = Past(spring.on) /\ UNCHANGED program
    /\ UNCHANGED <<supervisor, surface, published, drawn, runs>>

Waitpid ==
    /\ spring.do = "wait"
    /\ program[spring.on] = "dead"
    /\ spring' = Past(spring.on)
    /\ UNCHANGED <<program, supervisor, surface, published, drawn, runs>>

\* ipc_recv of the message of a service, whatever it turns out to be.
RecvReady ==
    /\ spring.do = "recv"
    /\ supervisor # <<>>
    /\ supervisor' = Tail(supervisor)
    /\ spring' = [spring EXCEPT !.do = "wait"]
    /\ UNCHANGED <<program, surface, published, drawn, runs>>

SuperviseVfsd == spring.on = "vfsd" /\ (Spawn("recv") \/ RecvReady \/ Waitpid)

\* Faulty variant of SuperviseReadyService: the message is not taken.
SuperviseReadyService_NoRecv == spring.on \in {"netd", "audiod"} /\ (Spawn("wait") \/ Waitpid)

SuperviseReadyService ==
    spring.on \in {"netd", "audiod"} /\ (Spawn("recv") \/ RecvReady \/ Waitpid)

\* The message of Reflection carries the cap that Spring publishes.  Without
\* Reflection its clients are passed over.
SuperviseReflection ==
    /\ spring.on = "reflection"
    /\ \/ Spawn("recv")
       \/ /\ spring.do = "recv"
          /\ supervisor # <<>>
          /\ supervisor' = Tail(supervisor)
          /\ published' = IF Head(supervisor) = "reflection" THEN published \cup {"reflection"}
                          ELSE published
          /\ spring' = ToSpawn("desktop")
          /\ UNCHANGED <<program, surface, drawn, runs>>
       \/ Waitpid

\* Faulty variant of SuperviseClient: the client is not waited for.
SuperviseClient_NoWait ==
    /\ spring.on \in Client /\ spring.do = "spawn"
    /\ Goto(spring.on, "start")
    /\ spring' = Past(spring.on)
    /\ UNCHANGED <<supervisor, surface, published, drawn, runs>>

SuperviseClient == spring.on \in Client /\ (Spawn("wait") \/ Waitpid)

SuperviseDepth == spring.on = "depth" /\ (Spawn("wait") \/ Waitpid)

----------------------------------------------------------------------------
(* vfsd, netd and audiod: do their work, tell Spring, exit *)

NotifyOp(p) == IF p = "vfsd2" THEN "vfsd" ELSE p

LookupSpring(p) ==
    /\ program[p] = "start"
    /\ Goto(p, IF "spring" \in published THEN "send" ELSE "exit")
    /\ UNCHANGED <<spring, supervisor, surface, published, drawn, runs>>

\* A service exits whether or not its message was taken; Reflection serves only
\* if it was.
Notify(p) ==
    /\ program[p] = "send"
    /\ supervisor' = Sent(supervisor, NotifyOp(p))
    /\ Goto(p, IF p = "reflection" /\ supervisor' # supervisor THEN "serve" ELSE "exit")
    /\ UNCHANGED <<spring, surface, published, drawn, runs>>

Exit(p) ==
    /\ program[p] = "exit"
    /\ Goto(p, "dead")
    /\ UNCHANGED <<spring, supervisor, surface, published, drawn, runs>>

Vfsd(p) == LookupSpring(p) \/ Notify(p) \/ Exit(p)
Netd    == LookupSpring("netd") \/ Notify("netd") \/ Exit("netd")
Audiod  == LookupSpring("audiod") \/ Notify("audiod") \/ Exit("audiod")

----------------------------------------------------------------------------
(* Reflection and its clients *)

Serve ==
    /\ program["reflection"] = "serve"
    /\ surface # <<>>
    /\ surface' = Tail(surface)
    /\ IF Head(surface) = "shutdown"
       THEN Goto("reflection", "exit") /\ UNCHANGED drawn
       ELSE drawn' = Append(drawn, Head(surface)) /\ UNCHANGED program
    /\ UNCHANGED <<spring, supervisor, published, runs>>

Reflection ==
    LookupSpring("reflection") \/ Notify("reflection") \/ Serve \/ Exit("reflection")

LookupReflection(p) ==
    /\ program[p] = "start"
    /\ Goto(p, IF "reflection" \in published THEN "send" ELSE "exit")
    /\ UNCHANGED <<spring, supervisor, surface, published, drawn, runs>>

\* Faulty variant of Draw: surface-demo leaves without the shutdown message.
Draw_NoShutdown(p) ==
    /\ program[p] = "send"
    /\ surface' = Sent(surface, p)
    /\ Goto(p, "exit")
    /\ UNCHANGED <<spring, supervisor, published, drawn, runs>>

Draw(p) ==
    /\ program[p] = "send"
    /\ surface' = Sent(surface, p)
    /\ Goto(p, IF p = "surface_demo" /\ surface' # surface THEN "shutdown" ELSE "exit")
    /\ UNCHANGED <<spring, supervisor, published, drawn, runs>>

Shutdown ==
    /\ program["surface_demo"] = "shutdown"
    /\ surface' = Sent(surface, "shutdown")
    /\ Goto("surface_demo", "exit")
    /\ UNCHANGED <<spring, supervisor, published, drawn, runs>>

Desktop == LookupReflection("desktop") \/ Draw("desktop") \/ Exit("desktop")
Tide    == LookupReflection("tide") \/ Draw("tide") \/ Exit("tide")
Skim    == LookupReflection("skim") \/ Draw("skim") \/ Exit("skim")
Stones  == LookupReflection("stones") \/ Draw("stones") \/ Exit("stones")
Drift   == LookupReflection("drift") \/ Draw("drift") \/ Exit("drift")

SurfaceDemo ==
    LookupReflection("surface_demo") \/ Draw("surface_demo") \/ Shutdown \/ Exit("surface_demo")

----------------------------------------------------------------------------
(* Depth starts the shell and waits for it.  Of the shell's commands only   *)
(* run-vfsd and exit change anything.                                       *)

DepthSpawn ==
    /\ program["depth"] = "start"
    /\ \/ program' = [program EXCEPT !["depth"] = "wait", !["shore"] = "prompt"]
       \/ Goto("depth", "exit")
    /\ UNCHANGED <<spring, supervisor, surface, published, drawn, runs>>

DepthWait ==
    /\ program["depth"] = "wait" /\ program["shore"] = "dead"
    /\ Goto("depth", "exit")
    /\ UNCHANGED <<spring, supervisor, surface, published, drawn, runs>>

DepthNext == DepthSpawn \/ DepthWait \/ Exit("depth")

\* run_vfsd, when spawn succeeds.
ShoreRunVfsd ==
    /\ program["shore"] = "prompt"
    /\ runs < MaxRuns
    /\ runs' = runs + 1
    /\ program' = [program EXCEPT !["shore"] = "wait", !["vfsd2"] = "start"]
    /\ UNCHANGED <<spring, supervisor, surface, published, drawn>>

ShoreWait ==
    /\ program["shore"] = "wait" /\ program["vfsd2"] = "dead"
    /\ Goto("shore", "prompt")
    /\ UNCHANGED <<spring, supervisor, surface, published, drawn, runs>>

ShoreExit ==
    /\ program["shore"] = "prompt"
    /\ Goto("shore", "exit")
    /\ UNCHANGED <<spring, supervisor, surface, published, drawn, runs>>

\* The shell without its command run-vfsd, which the user may never type.
Shore == ShoreWait \/ ShoreExit \/ Exit("shore")

----------------------------------------------------------------------------
SpringNext ==
    \/ SpringIpc \/ Missing
    \/ SuperviseVfsd \/ SuperviseReadyService \/ SuperviseReflection
    \/ SuperviseClient \/ SuperviseDepth

ProgramNext(p) ==
    CASE p \in {"vfsd", "vfsd2"} -> Vfsd(p)
      [] p = "netd" -> Netd
      [] p = "audiod" -> Audiod
      [] p = "reflection" -> Reflection
      [] p = "desktop" -> Desktop
      [] p = "tide" -> Tide
      [] p = "skim" -> Skim
      [] p = "stones" -> Stones
      [] p = "drift" -> Drift
      [] p = "surface_demo" -> SurfaceDemo
      [] p = "depth" -> DepthNext
      [] p = "shore" -> Shore

\* The programs run on: as long as one of them has something to do, one of them
\* does it (the CPU is never given to nobody, and a queued task runs again,
\* StarvationFree of Sched); and the user types exit at some prompt or other.
Progress == SpringNext \/ \E p \in Program : ProgramNext(p)

SessionNext == Progress \/ ShoreRunVfsd

SessionSpec == SessionInit /\ [][SessionNext]_sesVars /\ WF_sesVars(Progress)

----------------------------------------------------------------------------
(* Properties *)

SessionTypeOK ==
    /\ spring \in [on : Program \cup {"spring"}, do : {"ipc", "spawn", "recv", "wait", "exited"}]
    /\ program \in [Program -> {"none", "start", "send", "serve", "shutdown", "prompt", "wait",
                           "exit", "dead"}]
    /\ supervisor \in Seq(Service \cup {"reflection"})
    /\ surface \in Seq(Client \cup {"shutdown"})
    /\ Len(supervisor) <= MAX_IN_FLIGHT /\ Len(surface) <= MAX_IN_FLIGHT
    /\ published \subseteq {"spring", "reflection"}
    /\ drawn \in Seq(Client)
    /\ runs \in 0..MaxRuns

\* When Spring waits for the message of a service, a message in its port is
\* from that service, and there is no second one: Spring never takes the word
\* of one program for that of another, nor meets an "unexpected service message"
\* (init/src/main.rs:353).
ReadyIsOwn == spring.do = "recv" => supervisor \in {<<>>, <<spring.on>>}

Started(p) == program[p] # "none"

\* When Reflection has ended it has drawn what every client that was started
\* has sent, in the order in which Spring started them: the shutdown message
\* overtakes no drawing, and no message was refused by a full port.
DrawnInOrder ==
    program["reflection"] = "dead" =>
        /\ {drawn[i] : i \in DOMAIN drawn} = {p \in Client : Started(p)}
        /\ \A i, j \in DOMAIN drawn : i < j => Position(drawn[i]) < Position(drawn[j])

\* The terminal runs only when the compositor does not: Reflection and the shell
\* never poll the keyboard side by side.  (Spring "waits for both, then
\* continues into Depth/Shore", 0005-reflection-pool.md:33.)
TerminalAlone == Started("depth") => program["reflection"] \in {"none", "dead"}

\* Spring comes to its end, whatever is missing from the manifest or cannot be
\* started, with one exception: if Reflection runs and surface-demo could not be
\* started, nobody tells Reflection to stop and Spring waits for it for ever.
SpringEnds ==
    <>(\/ spring.do = "exited"
       \/ spring = [on |-> "reflection", do |-> "wait"] /\ ~Started("surface_demo"))

=============================================================================
