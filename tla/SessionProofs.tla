---------------------------- MODULE SessionProofs ----------------------------
(***************************************************************************)
(* Proofs about the programs that Spring starts, and about the keyboard    *)
(* that they read.                                                         *)
(*                                                                         *)
(* Session, for ports and for shells of every size: Spring takes no message*)
(* for another's, the terminal runs alone, and everything the clients draw *)
(* is drawn in order.  Ps2, for queues and lines of every size: the        *)
(* terminal's queue is a suffix of the compositor's (Suffix), and the line *)
(* that a read has so far is what its keys leave (Edits, Room).            *)
(***************************************************************************)
EXTENDS Session, Ps2, TLAPS

----------------------------------------------------------------------------
(* The session *)

\* The programs that Spring starts, by turns, and the turn Spring is at: 11 is
\* the wait for Reflection.
Child == Service \cup Client \cup {"reflection", "depth"}
Turn(p) == IF p = "depth" THEN 12 ELSE Position(p)
Now == IF spring.do = "ipc" THEN 0
       ELSE IF spring.do = "exited" THEN 13
       ELSE IF spring.on = "reflection" /\ spring.do = "wait" THEN 11
       ELSE Turn(spring.on)

SpringOK ==
    /\ spring.on \in Child \cup {"spring"}
    /\ spring.on = "spring" <=> spring.do \in {"ipc", "exited"}
    /\ spring.do = "recv" => spring.on \in Service \cup {"reflection"}
    /\ spring.do # "ipc" => "spring" \in published
    /\ Now \in 5..11 => "reflection" \in published

\* A program is not started before its turn.  Spring leaves it when it is dead
\* or could not be started; but it leaves Reflection once for its clients.
ChildOK(p) ==
    /\ Now < Turn(p) => program[p] = "none"
    /\ Now = Turn(p) => (spring.do = "spawn" <=> program[p] = "none")
    /\ p # "reflection" /\ Turn(p) < Now => program[p] \in {"none", "dead"}
    /\ spring.on = p /\ spring.do = "wait" /\ p \in Service => program[p] \notin {"start", "send"}
ReflectionOK ==
    /\ Now \in 5..11 => program["reflection"] \in {"serve", "exit", "dead"}
    /\ 11 < Now => program["reflection"] \in {"none", "dead"}

\* Before the terminal is started, the only message in Spring's port is the one
\* that Spring waits for, and its sender has nothing more to send there.
PortOK ==
    program["depth"] = "none" =>
        /\ program["shore"] = "none" /\ program["vfsd2"] = "none"
        /\ \/ supervisor = <<>>
           \/ /\ spring.do = "recv" /\ supervisor = <<spring.on>>
              /\ program[spring.on] \in {"serve", "exit", "dead"}

SInv == SessionTypeOK /\ SpringOK /\ (\A p \in Child : ChildOK(p)) /\ ReflectionOK /\ PortOK

\* What has been drawn and what waits in Reflection's port is, in the order of
\* the script, what the clients have sent, with the shutdown at the end: d is
\* what is drawn, s what waits, c where the programs are.
Rank(m) == IF m = "shutdown" THEN 12 ELSE Position(m)
Quiet == {"shutdown", "exit", "dead"}
Drawing(d, s, c) ==
    /\ \A p \in Client : c[p] \in Quiet <=> \/ \E i \in DOMAIN d : d[i] = p
                                            \/ \E i \in DOMAIN s : s[i] = p
    /\ \A i, j \in DOMAIN d : i < j => Position(d[i]) < Position(d[j])
    /\ \A i, j \in DOMAIN s : i < j => Rank(s[i]) < Rank(s[j])
    /\ \A i \in DOMAIN d, j \in DOMAIN s : Position(d[i]) < Rank(s[j])
    /\ \A j \in DOMAIN s : s[j] = "shutdown" => c["surface_demo"] \in {"exit", "dead"}
    /\ c["reflection"] \in {"exit", "dead"} =>
          s = <<>> /\ c["surface_demo"] \in {"exit", "dead"}
DInv == Drawing(drawn, surface, program)

----------------------------------------------------------------------------
(* The script *)

LEMMA Positions ==
    /\ Position("vfsd") = 1 /\ Position("netd") = 2 /\ Position("audiod") = 3
    /\ Position("reflection") = 4 /\ Position("desktop") = 5 /\ Position("tide") = 6
    /\ Position("skim") = 7 /\ Position("stones") = 8 /\ Position("drift") = 9
    /\ Position("surface_demo") = 10 /\ Position("depth") = 11
<1>1. /\ DOMAIN Script = 1..11
      /\ Script[1] = "vfsd" /\ Script[2] = "netd" /\ Script[3] = "audiod"
      /\ Script[4] = "reflection" /\ Script[5] = "desktop" /\ Script[6] = "tide"
      /\ Script[7] = "skim" /\ Script[8] = "stones" /\ Script[9] = "drift"
      /\ Script[10] = "surface_demo" /\ Script[11] = "depth"
    BY DEF Script
<1>2. ASSUME NEW k \in 1..11 PROVE Position(Script[k]) = k
  <2>1. \A i \in 1..11 : Script[i] = Script[k] => i = k
      BY <1>1
  <2> QED
      BY <1>1, <2>1 DEF Position
<1> QED
    BY <1>1, <1>2

LEMMA Turns ==
    /\ Turn("vfsd") = 1 /\ Turn("netd") = 2 /\ Turn("audiod") = 3 /\ Turn("reflection") = 4
    /\ Turn("desktop") = 5 /\ Turn("tide") = 6 /\ Turn("skim") = 7 /\ Turn("stones") = 8
    /\ Turn("drift") = 9 /\ Turn("surface_demo") = 10 /\ Turn("depth") = 12
    BY Positions DEF Turn

LEMMA TurnIs ==
    /\ \A p \in Child : Turn(p) \in 1..12 /\ Turn(p) # 11
    /\ \A p \in Child : Turn(p) = 4 <=> p = "reflection"
    /\ \A p \in Child : Turn(p) = 10 <=> p = "surface_demo"
    /\ \A p \in Child : Turn(p) = 12 <=> p = "depth"
    /\ \A p \in Service : Turn(p) \in 1..3
    /\ \A p \in Client : Turn(p) \in 5..10 /\ Position(p) = Turn(p)
    BY Turns DEF Child, Service, Client, Turn

LEMMA TurnInjective == \A p, q \in Child : Turn(p) = Turn(q) => p = q
<1>1. ASSUME NEW p \in Child PROVE
         p = CASE Turn(p) = 1 -> "vfsd" [] Turn(p) = 2 -> "netd" [] Turn(p) = 3 -> "audiod"
               [] Turn(p) = 4 -> "reflection" [] Turn(p) = 5 -> "desktop" [] Turn(p) = 6 -> "tide"
               [] Turn(p) = 7 -> "skim" [] Turn(p) = 8 -> "stones" [] Turn(p) = 9 -> "drift"
               [] Turn(p) = 10 -> "surface_demo" [] OTHER -> "depth"
    BY Turns DEF Child, Service, Client
<1> QED
    BY <1>1

\* Where Spring goes from each program.
LEMMA PastIs ==
    ASSUME NEW p \in Child
    PROVE  /\ p = "surface_demo" => Past(p) = [on |-> "reflection", do |-> "wait"]
           /\ p = "reflection" => Past(p) = ToSpawn("depth")
           /\ p = "depth" => Past(p) = [on |-> "spring", do |-> "exited"]
           /\ p \notin {"surface_demo", "reflection", "depth"} =>
                 \E q \in Child : Turn(q) = Turn(p) + 1 /\ Past(p) = ToSpawn(q)
<1>1. CASE p \in {"surface_demo", "reflection", "depth"}
    BY <1>1 DEF Past
<1>2. CASE p \notin {"surface_demo", "reflection", "depth"}
  <2>1. Past(p) = ToSpawn(Script[Position(p) + 1])
      BY <1>2 DEF Past
  <2>2. \/ p = "vfsd" /\ Script[Position(p) + 1] = "netd"
        \/ p = "netd" /\ Script[Position(p) + 1] = "audiod"
        \/ p = "audiod" /\ Script[Position(p) + 1] = "reflection"
        \/ p = "desktop" /\ Script[Position(p) + 1] = "tide"
        \/ p = "tide" /\ Script[Position(p) + 1] = "skim"
        \/ p = "skim" /\ Script[Position(p) + 1] = "stones"
        \/ p = "stones" /\ Script[Position(p) + 1] = "drift"
        \/ p = "drift" /\ Script[Position(p) + 1] = "surface_demo"
      BY <1>2, Positions DEF Script, Child, Service, Client
  <2>3. Script[Position(p) + 1] \in Child /\ Turn(Script[Position(p) + 1]) = Turn(p) + 1
      BY <2>2, Turns DEF Child, Service, Client
  <2> QED
      BY <1>2, <2>1, <2>3
<1> QED
    BY <1>1, <1>2

LEMMA NowIs ==
    ASSUME SessionTypeOK, SpringOK
    PROVE  /\ Now \in 0..13
           /\ Now = 0 <=> spring.do = "ipc"
           /\ Now = 13 <=> spring.do = "exited"
           /\ Now = 11 <=> spring.on = "reflection" /\ spring.do = "wait"
           /\ \A p \in Child : Now = Turn(p) => spring.on = p
           /\ \A p \in Child : spring.on = p => Now = Turn(p) \/ Now = 11
<1>1. "spring" \notin Child
    BY DEF Child, Service, Client
<1>2. CASE spring.on = "spring"
    BY <1>1, <1>2, TurnIs DEF Now, SpringOK
<1>3. CASE spring.on \in Child
  <2>1. spring.do \in {"spawn", "recv", "wait"}
      BY <1>1, <1>3 DEF SessionTypeOK, SpringOK
  <2> QED
      BY <1>3, <2>1, TurnIs, TurnInjective DEF Now
<1> QED
    BY <1>2, <1>3 DEF SpringOK

----------------------------------------------------------------------------
(* The steps of Spring *)

\* Spring goes on to the next program when the one it is at has ended or could
\* not be started.
LEMMA LeaveInv ==
    ASSUME SInv, spring.on \in Child, spring.do \in {"spawn", "wait"},
           program[spring.on] \in {"none", "dead"}, spring' = Past(spring.on),
           UNCHANGED <<program, supervisor, surface, published, drawn, runs>>
    PROVE  SInv'
<1>0. SessionTypeOK /\ SpringOK /\ (\A p \in Child : ChildOK(p)) /\ ReflectionOK /\ PortOK
    BY DEF SInv
<1>1. /\ Now \in 0..13 /\ Now # 0 /\ Now # 13 /\ "spring" \in published
      /\ \A p \in Child : Now = Turn(p) => spring.on = p
      /\ Now = Turn(spring.on) \/ (Now = 11 /\ spring.on = "reflection")
  <2>1. /\ Now \in 0..13 /\ (Now = 0 <=> spring.do = "ipc") /\ (Now = 13 <=> spring.do = "exited")
        /\ Now = 11 <=> spring.on = "reflection" /\ spring.do = "wait"
        /\ \A p \in Child : Now = Turn(p) => spring.on = p
        /\ \A p \in Child : spring.on = p => Now = Turn(p) \/ Now = 11
      BY <1>0, NowIs, Zenon
  <2> QED
      BY <1>0, <2>1 DEF SpringOK
<1>2. ASSUME NEW q \in Child, spring' = ToSpawn(q), Now < Turn(q),
             Now \in 5..10 \/ Turn(q) \notin 5..10,
             \A p \in Child : Turn(p) < Turn(q) => program[p] \in {"none", "dead"} \/ p = "reflection",
             Turn(q) = 12 => program["reflection"] \in {"none", "dead"}
      PROVE  SInv'
  <2>1. spring'.on = q /\ spring'.do = "spawn" /\ Now' = Turn(q)
    <3>1. spring'.on = q /\ spring'.do = "spawn"
        BY <1>2 DEF ToSpawn
    <3>2. Now' = Turn(spring'.on)
        BY <3>1 DEF Now, Turn, Position, Script
    <3> QED
        BY <3>1, <3>2
  <2>2. SessionTypeOK'
      BY <1>0, <1>2 DEF SessionTypeOK, ToSpawn, Child, Program
  <2>3. SpringOK'
    <3>1. "spring" \notin Child
        BY DEF Child, Service, Client
    <3> QED
      BY <1>0, <1>1, <1>2, <2>1, <3>1, TurnIs DEF SpringOK
  <2>4. ASSUME NEW p \in Child PROVE ChildOK(p)'
    <3>1. ChildOK(p)' <=>
             /\ Turn(q) < Turn(p) => program[p] = "none"
             /\ Turn(q) = Turn(p) => program[p] = "none"
             /\ p # "reflection" /\ Turn(p) < Turn(q) => program[p] \in {"none", "dead"}
        BY <2>1 DEF ChildOK, Turn, Position, Script
    <3>2. Now < Turn(p) => program[p] = "none"
        BY <1>0 DEF ChildOK
    <3> QED
        BY <1>1, <1>2, <3>1, <3>2, TurnIs
  <2>5. ReflectionOK'
      BY <1>0, <1>1, <1>2, <2>1, TurnIs DEF ReflectionOK
  <2>6. PortOK'
      BY <1>0 DEF PortOK
  <2> QED
      BY <2>2, <2>3, <2>4, <2>5, <2>6 DEF SInv
<1>3. \A p \in Child : Turn(p) <= Now => program[p] \in {"none", "dead"} \/ p = "reflection"
    BY <1>0, <1>1, TurnIs DEF ChildOK
<1>4. CASE spring.on \notin {"surface_demo", "reflection", "depth"}
  <2>1. PICK q \in Child : Turn(q) = Turn(spring.on) + 1 /\ spring' = ToSpawn(q)
      BY <1>4, PastIs
  <2>2. Now = Turn(spring.on) /\ Turn(q) # 12
      BY <1>1, <1>4, <2>1, TurnIs
  <2>3. Now # 4
      BY <1>4, <2>2, TurnIs
  <2> QED
      BY <1>1, <1>2, <1>3, <2>1, <2>2, <2>3, TurnIs
<1>5. CASE spring.on = "reflection"
  <2>1. spring' = ToSpawn("depth") /\ "depth" \in Child /\ Turn("depth") = 12 /\ Now < 12
      BY <1>1, <1>5, PastIs, Turns DEF Child
  <2>2. \A p \in Child : Now < Turn(p) => program[p] = "none"
      BY <1>0 DEF ChildOK
  <2>3. \A p \in Child : program[p] \in {"none", "dead"}
      BY <1>1, <1>3, <1>5, <2>2, TurnIs
  <2> QED
      BY <1>2, <1>5, <2>1, <2>3
<1>6. CASE spring.on = "surface_demo"
  <2>1. spring' = [on |-> "reflection", do |-> "wait"] /\ Now' = 11 /\ Now = 10
    <3>1. spring' = [on |-> "reflection", do |-> "wait"]
        BY <1>6, PastIs
    <3> QED
        BY <1>1, <1>6, <3>1, Turns DEF Now
  <2>2. SessionTypeOK'
      BY <1>0, <2>1 DEF SessionTypeOK, Program
  <2>3. SpringOK'
      BY <1>0, <1>1, <2>1 DEF SpringOK, Child
  <2>4. ASSUME NEW p \in Child PROVE ChildOK(p)'
    <3>1. ChildOK(p)' <=>
             /\ 11 < Turn(p) => program[p] = "none"
             /\ 11 = Turn(p) => program[p] # "none"
             /\ p # "reflection" /\ Turn(p) < 11 => program[p] \in {"none", "dead"}
        BY <2>1 DEF ChildOK, Turn, Position, Script, Service
    <3>2. Now < Turn(p) => program[p] = "none"
        BY <1>0 DEF ChildOK
    <3> QED
        BY <1>3, <2>1, <3>1, <3>2, TurnIs
  <2>5. ReflectionOK'
      BY <1>0, <2>1 DEF ReflectionOK
  <2>6. PortOK'
      BY <1>0 DEF PortOK
  <2> QED
      BY <2>2, <2>3, <2>4, <2>5, <2>6 DEF SInv
<1>7. CASE spring.on = "depth"
  <2>1. spring' = [on |-> "spring", do |-> "exited"] /\ Now' = 13 /\ Now = 12
    <3>1. spring' = [on |-> "spring", do |-> "exited"]
        BY <1>7, PastIs
    <3> QED
        BY <1>1, <1>7, <3>1, Turns DEF Now
  <2>2. SessionTypeOK'
      BY <1>0, <2>1 DEF SessionTypeOK
  <2>3. SpringOK'
      BY <1>0, <1>1, <2>1 DEF SpringOK
  <2>4. ASSUME NEW p \in Child PROVE ChildOK(p)'
    <3>1. ChildOK(p)' <=>
             /\ 13 < Turn(p) => program[p] = "none"
             /\ 13 = Turn(p) => program[p] # "none"
             /\ p # "reflection" /\ Turn(p) < 13 => program[p] \in {"none", "dead"}
        BY <2>1 DEF ChildOK, Turn, Position, Script
    <3> QED
        BY <1>3, <2>1, <3>1, TurnIs
  <2>5. ReflectionOK'
      BY <1>0, <2>1 DEF ReflectionOK
  <2>6. PortOK'
      BY <1>0 DEF PortOK
  <2> QED
      BY <2>2, <2>3, <2>4, <2>5, <2>6 DEF SInv
<1> QED
    BY <1>4, <1>5, <1>6, <1>7

LEMMA MissingInv == ASSUME SInv, Missing PROVE SInv'
<1>1. SessionTypeOK /\ SpringOK /\ \A p \in Child : ChildOK(p)
    BY DEF SInv
<1>2. spring.do = "spawn" /\ spring.on \in Child
    BY <1>1 DEF Missing, SpringOK
<1>3. Now = Turn(spring.on)
    BY <1>1, <1>2, NowIs
<1>4. program[spring.on] = "none"
    BY <1>1, <1>2, <1>3 DEF ChildOK
<1> QED
    BY <1>2, <1>4, LeaveInv DEF Missing

LEMMA SpawnInv ==
    ASSUME SInv, NEW l, Spawn(l),
           \/ spring.on \in Service \cup {"reflection"} /\ l = "recv"
           \/ spring.on \in Client \cup {"depth"} /\ l = "wait"
    PROVE  SInv'
<1>1. SessionTypeOK /\ SpringOK /\ (\A p \in Child : ChildOK(p)) /\ ReflectionOK /\ PortOK
    BY DEF SInv
<1>2. spring.do = "spawn" /\ spring.on \in Child
    BY <1>1 DEF Spawn, SpringOK
<1>3. Now = Turn(spring.on) /\ \A p \in Child : Now = Turn(p) => spring.on = p
    BY <1>1, <1>2, NowIs
<1>4. program[spring.on] = "none"
    BY <1>1, <1>2, <1>3 DEF ChildOK
<1>5. CASE spring' = Past(spring.on) /\ UNCHANGED program
    BY <1>2, <1>4, <1>5, LeaveInv DEF Spawn
<1>6. CASE Goto(spring.on, "start") /\ spring' = [spring EXCEPT !.do = l]
  <2>1. /\ spring'.on = spring.on /\ spring'.do = l
        /\ program' = [program EXCEPT ![spring.on] = "start"]
        /\ UNCHANGED <<supervisor, surface, published, drawn, runs>>
      BY <1>1, <1>6 DEF SessionTypeOK, Goto, Spawn
  <2>2. Now' = Now
    <3>1. l \notin {"ipc", "exited"} /\ ~(spring.on = "reflection" /\ l = "wait")
        BY DEF Client
    <3>2. Now' = Turn(spring'.on)
        BY <2>1, <3>1 DEF Now, Turn, Position, Script
    <3> QED
        BY <1>3, <2>1, <3>2
  <2>3. SessionTypeOK'
    <3>1. spring.on \in Program
        BY <1>2 DEF Child, Program
    <3>2. spring' \in [on : Program \cup {"spring"}, do : {"ipc", "spawn", "recv", "wait", "exited"}]
        BY <1>1, <1>6 DEF SessionTypeOK
    <3>3. program' \in [Program -> {"none", "start", "send", "serve", "shutdown", "prompt", "wait",
                               "exit", "dead"}]
        BY <1>1, <2>1, <3>1 DEF SessionTypeOK
    <3> QED
        BY <1>1, <2>1, <3>2, <3>3 DEF SessionTypeOK
  <2>4. SpringOK'
    <3>1. "spring" \notin Child
        BY DEF Child, Service, Client
    <3>2. l = "recv" => spring.on \in Service \cup {"reflection"}
        OBVIOUS
    <3> QED
        BY <1>1, <1>2, <2>1, <2>2, <3>1, <3>2 DEF SpringOK
  <2>5. ASSUME NEW p \in Child PROVE ChildOK(p)'
    <3>1. ChildOK(p)' <=>
             /\ Now < Turn(p) => program'[p] = "none"
             /\ Now = Turn(p) => program'[p] # "none"
             /\ p # "reflection" /\ Turn(p) < Now => program'[p] \in {"none", "dead"}
             /\ spring.on = p /\ l = "wait" /\ p \in Service => program'[p] \notin {"start", "send"}
        BY <2>1, <2>2 DEF ChildOK, Turn, Position, Script
    <3>2. CASE p = spring.on
      <4>1. program'[p] = "start"
          BY <1>1, <2>1, <3>2 DEF SessionTypeOK, Child, Program
      <4>2. ~(l = "wait" /\ p \in Service)
          BY <3>2 DEF Service, Client
      <4> QED
          BY <1>3, <3>1, <3>2, <4>1, <4>2, TurnIs
    <3>3. CASE p # spring.on
      <4>1. program'[p] = program[p]
          BY <1>1, <2>1, <3>3 DEF SessionTypeOK, Child, Program
      <4> QED
          BY <1>1, <1>3, <3>1, <3>3, <4>1 DEF ChildOK
    <3> QED
        BY <3>2, <3>3
  <2>6. ReflectionOK'
    <3>1. Now \in 1..12 /\ Now # 11 /\ (Now = 4 <=> spring.on = "reflection")
        BY <1>2, <1>3, TurnIs
    <3>2. spring.on # "reflection" => program'["reflection"] = program["reflection"]
        BY <1>1, <2>1 DEF SessionTypeOK, Program
    <3> QED
        BY <1>1, <2>2, <3>1, <3>2 DEF ReflectionOK
  <2>7. PortOK'
    <3>1. CASE spring.on = "depth"
      <4>1. program'["depth"] = "start"
          BY <1>1, <2>1, <3>1 DEF SessionTypeOK, Program
      <4> QED
          BY <4>1 DEF PortOK
    <3>2. CASE spring.on # "depth"
      <4>1. /\ program'["depth"] = program["depth"] /\ program'["shore"] = program["shore"]
            /\ program'["vfsd2"] = program["vfsd2"]
          BY <1>1, <1>2, <2>1, <3>2 DEF SessionTypeOK, Child, Program, Service, Client
      <4>2. program["depth"] = "none" => supervisor = <<>>
          BY <1>1, <1>2 DEF PortOK
      <4> QED
          BY <1>1, <2>1, <4>1, <4>2 DEF PortOK
    <3> QED
        BY <3>1, <3>2
  <2> QED
      BY <2>3, <2>4, <2>5, <2>6, <2>7 DEF SInv
<1> QED
    BY <1>5, <1>6 DEF Spawn

LEMMA WaitpidInv == ASSUME SInv, Waitpid PROVE SInv'
<1>1. spring.do = "wait" /\ spring.on \in Child
    BY DEF SInv, SpringOK, Waitpid
<1> QED
    BY <1>1, LeaveInv DEF Waitpid

\* The message that Spring takes is the one of the program it has started.
LEMMA ReadyMessage ==
    ASSUME SInv, spring.do = "recv"
    PROVE  /\ Now = Turn(spring.on) /\ Now \in 1..4 /\ spring.on \in Child /\ program["depth"] = "none"
           /\ supervisor # <<>> => /\ supervisor = <<spring.on>>
                                   /\ program[spring.on] \in {"serve", "exit", "dead"}
<1>1. SessionTypeOK /\ SpringOK /\ (\A p \in Child : ChildOK(p)) /\ PortOK
    BY DEF SInv
<1>2. spring.on \in Service \cup {"reflection"} /\ spring.on \in Child
    BY <1>1 DEF SpringOK, Child
<1>3. Now = Turn(spring.on)
    BY <1>1, <1>2, NowIs
<1>4. Now \in 1..4
    BY <1>2, <1>3, TurnIs, Turns
<1>5. program["depth"] = "none"
    BY <1>1, <1>4, Turns DEF ChildOK, Child
<1> QED
    BY <1>1, <1>2, <1>3, <1>4, <1>5 DEF PortOK

LEMMA RecvInv == ASSUME SessionSizes, SInv, RecvReady, spring.on \in Service PROVE SInv'
<1>1. SessionTypeOK /\ SpringOK /\ (\A p \in Child : ChildOK(p)) /\ ReflectionOK /\ PortOK
    BY DEF SInv
<1>2. /\ spring.do = "recv" /\ supervisor # <<>> /\ supervisor' = Tail(supervisor)
      /\ spring'.do = "wait" /\ spring'.on = spring.on
      /\ spring' = [spring EXCEPT !.do = "wait"]
      /\ UNCHANGED <<program, surface, published, drawn, runs>>
    BY <1>1 DEF RecvReady, SessionTypeOK
<1>3. /\ Now = Turn(spring.on) /\ Now \in 1..4 /\ spring.on \in Child
      /\ supervisor = <<spring.on>> /\ program[spring.on] \in {"serve", "exit", "dead"}
    BY <1>2, ReadyMessage
<1>4. supervisor' = <<>>
    BY <1>2, <1>3
<1>5. Now' = Now
  <2>1. spring.on # "reflection"
      BY DEF Service
  <2>2. Now' = Turn(spring'.on)
      BY <1>2, <2>1 DEF Now, Turn, Position, Script
  <2> QED
      BY <1>2, <1>3, <2>2
<1>6. SessionTypeOK'
    BY <1>1, <1>2, <1>4 DEF SessionTypeOK, SessionSizes
<1>7. SpringOK'
  <2>1. "spring" \notin Child
      BY DEF Child, Service, Client
  <2> QED
      BY <1>1, <1>2, <1>3, <1>5, <2>1 DEF SpringOK
<1>8. ASSUME NEW p \in Child PROVE ChildOK(p)'
  <2>1. ChildOK(p)' <=>
           /\ Now < Turn(p) => program[p] = "none"
           /\ Now = Turn(p) => program[p] # "none"
           /\ p # "reflection" /\ Turn(p) < Now => program[p] \in {"none", "dead"}
           /\ spring.on = p /\ p \in Service => program[p] \notin {"start", "send"}
      BY <1>2, <1>5 DEF ChildOK, Turn, Position, Script
  <2> QED
      BY <1>1, <1>2, <1>3, <2>1 DEF ChildOK
<1>9. ReflectionOK'
    BY <1>1, <1>2, <1>5 DEF ReflectionOK
<1>10. PortOK'
    BY <1>1, <1>2, <1>4 DEF PortOK
<1> QED
    BY <1>6, <1>7, <1>8, <1>9, <1>10 DEF SInv

\* Reflection's message makes Spring publish it and go on to the clients.
ReflectionRecv ==
    /\ spring.on = "reflection" /\ spring.do = "recv"
    /\ supervisor # <<>>
    /\ supervisor' = Tail(supervisor)
    /\ published' = IF Head(supervisor) = "reflection" THEN published \cup {"reflection"}
                    ELSE published
    /\ spring' = ToSpawn("desktop")
    /\ UNCHANGED <<program, surface, drawn, runs>>

LEMMA ReflectionRecvInv == ASSUME SessionSizes, SInv, ReflectionRecv PROVE SInv'
<1>1. SessionTypeOK /\ SpringOK /\ (\A p \in Child : ChildOK(p)) /\ ReflectionOK /\ PortOK
    BY DEF SInv
<1>2. /\ Now = 4 /\ supervisor = <<"reflection">> /\ program["reflection"] \in {"serve", "exit", "dead"}
      /\ program["depth"] = "none"
    BY ReadyMessage, Turns DEF ReflectionRecv
<1>3. /\ supervisor' = <<>> /\ published' = published \cup {"reflection"}
      /\ spring'.on = "desktop" /\ spring'.do = "spawn" /\ Now' = 5
      /\ UNCHANGED <<program, surface, drawn, runs>>
  <2>1. supervisor' = <<>> /\ published' = published \cup {"reflection"}
      BY <1>2 DEF ReflectionRecv
  <2>2. spring'.on = "desktop" /\ spring'.do = "spawn"
      BY DEF ReflectionRecv, ToSpawn
  <2>3. Now' = Turn("desktop")
      BY <2>2 DEF Now, Turn, Position, Script
  <2> QED
      BY <2>1, <2>2, <2>3, Turns DEF ReflectionRecv
<1>4. SessionTypeOK'
    BY <1>1, <1>3 DEF SessionTypeOK, SessionSizes, ReflectionRecv, ToSpawn, Program, Client
<1>5. SpringOK'
    BY <1>1, <1>3 DEF SpringOK, Child, Client, ReflectionRecv
<1>6. ASSUME NEW p \in Child PROVE ChildOK(p)'
  <2>1. ChildOK(p)' <=>
           /\ 5 < Turn(p) => program[p] = "none"
           /\ 5 = Turn(p) => program[p] = "none"
           /\ p # "reflection" /\ Turn(p) < 5 => program[p] \in {"none", "dead"}
      BY <1>3 DEF ChildOK, Turn, Position, Script
  <2>2. /\ 4 < Turn(p) => program[p] = "none"
        /\ p # "reflection" /\ Turn(p) < 4 => program[p] \in {"none", "dead"}
      BY <1>1, <1>2 DEF ChildOK
  <2> QED
      BY <2>1, <2>2, TurnIs
<1>7. ReflectionOK'
    BY <1>2, <1>3 DEF ReflectionOK
<1>8. PortOK'
    BY <1>1, <1>3 DEF PortOK
<1> QED
    BY <1>4, <1>5, <1>6, <1>7, <1>8 DEF SInv

LEMMA SpringIpcInv == ASSUME SInv, SpringIpc PROVE SInv'
<1>1. SessionTypeOK /\ SpringOK /\ (\A p \in Child : ChildOK(p)) /\ PortOK
    BY DEF SInv
<1>2. Now = 0
    BY DEF SpringIpc, Now
<1>3. \A p \in Child : program[p] = "none"
    BY <1>1, <1>2, TurnIs DEF ChildOK
<1>4. spring'.on = "vfsd" /\ spring'.do = "spawn" /\ Now' = 1
  <2>1. spring'.on = "vfsd" /\ spring'.do = "spawn"
      BY DEF SpringIpc, ToSpawn
  <2>2. Now' = Turn("vfsd")
      BY <2>1 DEF Now, Turn, Position, Script
  <2> QED
      BY <2>1, <2>2, Turns
<1>5. SessionTypeOK'
    BY <1>1 DEF SessionTypeOK, SpringIpc, ToSpawn, Program, Service
<1>6. SpringOK'
    BY <1>4 DEF SpringOK, SpringIpc, Child, Service
<1>7. ASSUME NEW p \in Child PROVE ChildOK(p)'
  <2>1. program'[p] = "none"
      BY <1>3 DEF SpringIpc
  <2> QED
      BY <1>4, <2>1 DEF ChildOK
<1>8. ReflectionOK'
    BY <1>4 DEF ReflectionOK
<1>9. PortOK'
    BY <1>1 DEF PortOK, SpringIpc
<1> QED
    BY <1>5, <1>6, <1>7, <1>8, <1>9 DEF SInv

LEMMA SpringInv == ASSUME SessionSizes, SInv, SpringNext PROVE SInv'
<1>1. CASE SuperviseVfsd \/ SuperviseReadyService
  <2>1. spring.on \in Service
      BY <1>1 DEF SuperviseVfsd, SuperviseReadyService, Service
  <2>2. Spawn("recv") \/ RecvReady \/ Waitpid
      BY <1>1 DEF SuperviseVfsd, SuperviseReadyService
  <2> QED
      BY <2>1, <2>2, SpawnInv, RecvInv, WaitpidInv
<1>2. CASE SuperviseReflection
  <2>1. spring.on = "reflection" /\ (Spawn("recv") \/ ReflectionRecv \/ Waitpid)
      BY <1>2 DEF SuperviseReflection, ReflectionRecv
  <2> QED
      BY <2>1, SpawnInv, ReflectionRecvInv, WaitpidInv
<1>3. CASE SuperviseClient \/ SuperviseDepth
  <2>1. spring.on \in Client \cup {"depth"} /\ (Spawn("wait") \/ Waitpid)
      BY <1>3 DEF SuperviseClient, SuperviseDepth
  <2> QED
      BY <2>1, SpawnInv, WaitpidInv
<1> QED
    BY <1>1, <1>2, <1>3, SpringIpcInv, MissingInv DEF SpringNext

----------------------------------------------------------------------------
(* The steps of the other programs *)

LEMMA ProgramCases ==
    ASSUME NEW p \in Program, ProgramNext(p)
    PROVE  \/ p \in Service \cup {"vfsd2", "reflection"} /\ (LookupSpring(p) \/ Notify(p))
           \/ p = "reflection" /\ Serve
           \/ p \in Client /\ (LookupReflection(p) \/ Draw(p))
           \/ p = "surface_demo" /\ Shutdown
           \/ p = "depth" /\ (DepthSpawn \/ DepthWait)
           \/ p = "shore" /\ (ShoreWait \/ ShoreExit)
           \/ Exit(p)
<1>1. CASE p \in Service \cup {"vfsd2"}
    BY <1>1, Zenon DEF ProgramNext, Service, Vfsd, Netd, Audiod
<1>2. CASE p = "reflection"
    BY <1>2 DEF ProgramNext, Reflection
<1>3. CASE p \in Client
    BY <1>3, Zenon DEF ProgramNext, Client, Desktop, Tide, Skim, Stones, Drift, SurfaceDemo
<1>4. CASE p \in {"depth", "shore"}
    BY <1>4, Zenon DEF ProgramNext, DepthNext, Shore
<1> QED
    BY <1>1, <1>2, <1>3, <1>4 DEF Program

\* A program that Spring has started and that has not ended is the one Spring
\* is at, Reflection aside.
LEMMA Active ==
    ASSUME SInv, NEW p \in Child, program[p] \notin {"none", "dead"},
           p = "reflection" => program[p] \in {"start", "send"}
    PROVE  /\ Now = Turn(p) /\ spring.on = p /\ spring.do \in {"recv", "wait"}
           /\ p \in Service \cup {"reflection"} /\ program[p] \in {"start", "send"} => spring.do = "recv"
<1>1. SessionTypeOK /\ SpringOK /\ ChildOK(p) /\ ReflectionOK
    BY DEF SInv
<1>2. Now \in 0..13 /\ Turn(p) \in 1..12 /\ Turn("reflection") = 4
    BY <1>1, NowIs, TurnIs, Turns
<1>3. Now = Turn(p)
    BY <1>1, <1>2 DEF ChildOK, ReflectionOK
<1>4. spring.on = p
    BY <1>1, <1>3, NowIs
<1>5. spring.do \in {"recv", "wait"}
  <2>1. p # "spring"
      BY DEF Child, Service, Client
  <2> QED
      BY <1>1, <1>3, <1>4, <2>1 DEF SessionTypeOK, SpringOK, ChildOK
<1>6. p = "reflection" => spring.do # "wait"
    BY <1>1, <1>2, <1>3, <1>4, NowIs
<1> QED
    BY <1>1, <1>3, <1>4, <1>5, <1>6 DEF ChildOK

\* A program moves on from one call to the next.
LEMMA MoveInv ==
    ASSUME SInv, SessionTypeOK', PortOK', UNCHANGED <<spring, published>>, NEW p \in Program,
           \A c \in Child : c # p => program'[c] = program[c],
           p \in Child => /\ program[p] \notin {"none", "dead"} /\ program'[p] # "none"
                          /\ program'[p] \in {"start", "send"} => program[p] = "start"
                          /\ program[p] \in {"serve", "exit"} => program'[p] \in {"serve", "exit", "dead"}
    PROVE  SInv'
<1>1. SessionTypeOK /\ SpringOK /\ (\A c \in Child : ChildOK(c)) /\ ReflectionOK
    BY DEF SInv
<1>2. Now' = Now /\ Now \in 0..13
  <2>1. Now' = Now
      BY DEF Now, Turn, Position, Script
  <2> QED
      BY <1>1, <2>1, NowIs
<1>3. SpringOK'
    BY <1>1, <1>2 DEF SpringOK
<1>4. ASSUME NEW c \in Child PROVE ChildOK(c)'
  <2>1. ChildOK(c)' <=>
           /\ Now < Turn(c) => program'[c] = "none"
           /\ Now = Turn(c) => (spring.do = "spawn" <=> program'[c] = "none")
           /\ c # "reflection" /\ Turn(c) < Now => program'[c] \in {"none", "dead"}
           /\ spring.on = c /\ spring.do = "wait" /\ c \in Service => program'[c] \notin {"start", "send"}
      BY <1>2 DEF ChildOK, Turn, Position, Script
  <2>2. ChildOK(c)
      BY <1>1
  <2>3. CASE c # p
      BY <2>1, <2>2, <2>3 DEF ChildOK
  <2>4. CASE c = p
      BY <2>1, <2>2, <2>4 DEF ChildOK
  <2> QED
      BY <2>3, <2>4
<1>5. ReflectionOK'
  <2>1. "reflection" \in Child
      BY DEF Child
  <2>2. CASE p # "reflection"
      BY <1>1, <1>2, <2>1, <2>2 DEF ReflectionOK
  <2>3. CASE p = "reflection"
    <3>1. Now \in 5..11 => program["reflection"] \in {"serve", "exit"}
        BY <1>1, <2>1, <2>3 DEF ReflectionOK
    <3>2. ~(11 < Now)
        BY <1>1, <2>1, <2>3 DEF ReflectionOK
    <3> QED
        BY <1>2, <2>1, <2>3, <3>1, <3>2 DEF ReflectionOK
  <2> QED
      BY <2>2, <2>3
<1> QED
    BY <1>3, <1>4, <1>5 DEF SInv

\* ... and the queues keep their types.
LEMMA SentIs ==
    ASSUME SessionSizes, NEW M, NEW q \in Seq(M), Len(q) <= MAX_IN_FLIGHT, NEW m \in M
    PROVE  /\ Sent(q, m) \in Seq(M) /\ Len(Sent(q, m)) <= MAX_IN_FLIGHT
           /\ Sent(q, m) = q \/ Sent(q, m) = Append(q, m)
           /\ Len(q) < MAX_IN_FLIGHT => Sent(q, m) = Append(q, m) /\ Sent(q, m) # q
    BY DEF Sent, SessionSizes

Label == {"none", "start", "send", "serve", "shutdown", "prompt", "wait", "exit", "dead"}

\* A step of one program that leaves Spring's port alone.
LEMMA GotoInv ==
    ASSUME SInv, NEW p \in Program, NEW l \in Label, program[p] \notin {"none", "dead"},
           Goto(p, l), UNCHANGED <<spring, published, supervisor, runs>>,
           l # "none" /\ l # "start", l = "send" => program[p] = "start",
           program[p] \in {"serve", "exit"} => l \in {"serve", "exit", "dead"},
           surface' \in Seq(Client \cup {"shutdown"}), Len(surface') <= MAX_IN_FLIGHT,
           drawn' \in Seq(Client)
    PROVE  SInv'
<1>1. SessionTypeOK /\ PortOK /\ SpringOK
    BY DEF SInv
<1>2. program'[p] = l /\ \A q \in Program : q # p => program'[q] = program[q]
    BY <1>1 DEF Goto, SessionTypeOK
<1>3. SessionTypeOK'
    BY <1>1 DEF SessionTypeOK, Goto, Label
<1>4. PortOK'
  <2>1. {"depth", "shore", "vfsd2"} \subseteq Program
      BY DEF Program
  <2>2. SUFFICES ASSUME program'["depth"] = "none" PROVE PortOK'
      BY DEF PortOK
  <2>3. program["depth"] = "none" /\ p \notin {"depth", "shore", "vfsd2"}
      BY <1>1, <1>2, <2>1, <2>2 DEF PortOK
  <2>4. program[spring.on] \in {"serve", "exit", "dead"} /\ spring.on \in Child
        => program'[spring.on] \in {"serve", "exit", "dead"}
      BY <1>2 DEF Child, Program
  <2>5. spring.do = "recv" => spring.on \in Child
      BY <1>1 DEF SpringOK
  <2> QED
      BY <1>1, <1>2, <2>1, <2>3, <2>4, <2>5 DEF PortOK
<1> QED
    BY <1>2, <1>3, <1>4, MoveInv DEF Child, Program

LEMMA NotifyInv ==
    ASSUME SessionSizes, SInv, NEW p \in Service \cup {"vfsd2", "reflection"}, Notify(p)
    PROVE  SInv'
<1>1. SessionTypeOK /\ PortOK
    BY DEF SInv
<1> DEFINE l == IF p = "reflection" /\ supervisor' # supervisor THEN "serve" ELSE "exit"
<1>2. /\ program[p] = "send" /\ p \in Program /\ program' = [program EXCEPT ![p] = l]
      /\ supervisor' = Sent(supervisor, NotifyOp(p)) /\ NotifyOp(p) \in Service \cup {"reflection"}
      /\ UNCHANGED <<spring, surface, published, drawn, runs>>
  <2>1. p \in Program /\ NotifyOp(p) \in Service \cup {"reflection"}
      BY DEF Program, NotifyOp, Service
  <2> QED
      BY <2>1 DEF Notify, Goto
<1>3. /\ supervisor' \in Seq(Service \cup {"reflection"}) /\ Len(supervisor') <= MAX_IN_FLIGHT
      /\ supervisor' = supervisor \/ supervisor' = Append(supervisor, NotifyOp(p))
  <2> DEFINE M == Service \cup {"reflection"}
  <2>1. supervisor \in Seq(M) /\ Len(supervisor) <= MAX_IN_FLIGHT /\ NotifyOp(p) \in M
      BY <1>1, <1>2 DEF SessionTypeOK
  <2> HIDE DEF M
  <2>2. /\ Sent(supervisor, NotifyOp(p)) \in Seq(M)
        /\ Len(Sent(supervisor, NotifyOp(p))) <= MAX_IN_FLIGHT
        /\ \/ Sent(supervisor, NotifyOp(p)) = supervisor
           \/ Sent(supervisor, NotifyOp(p)) = Append(supervisor, NotifyOp(p))
      BY <2>1, SentIs, Zenon
  <2> QED
      BY <1>2, <2>2, Zenon DEF M
<1>4. l \in {"serve", "exit"} /\ program'[p] = l /\ \A q \in Program : q # p => program'[q] = program[q]
    BY <1>1, <1>2 DEF SessionTypeOK
<1> HIDE DEF l
<1>5. SessionTypeOK'
  <2>1. program' \in [Program -> Label]
      BY <1>1, <1>2, <1>4 DEF SessionTypeOK, Label
  <2> QED
      BY <1>1, <1>2, <1>3, <2>1 DEF SessionTypeOK, Label
<1>6. PortOK'
  <2>1. SUFFICES ASSUME program'["depth"] = "none" PROVE PortOK'
      BY DEF PortOK
  <2>2. {"depth", "shore", "vfsd2"} \subseteq Program /\ p # "depth" /\ p # "shore"
      BY DEF Program, Service
  <2>3. program["depth"] = "none" /\ program["shore"] = "none" /\ program["vfsd2"] = "none"
      BY <1>1, <1>4, <2>1, <2>2 DEF PortOK
  <2>4. p \in Service \cup {"reflection"} /\ p \in Child /\ NotifyOp(p) = p
      BY <1>2, <2>3 DEF Child, NotifyOp, Service
  <2>5. spring.on = p /\ spring.do = "recv"
      BY <1>2, <2>4, Active
  <2>6. supervisor = <<>>
      BY <1>1, <1>2, <2>3, <2>5 DEF PortOK
  <2>7. supervisor' = <<>> \/ supervisor' = <<p>>
      BY <1>3, <2>4, <2>6
  <2>8. program'["shore"] = "none" /\ program'["vfsd2"] = "none"
      BY <1>2, <1>4, <2>2, <2>3
  <2> QED
      BY <1>2, <1>4, <2>5, <2>7, <2>8 DEF PortOK
<1> QED
    BY <1>2, <1>4, <1>5, <1>6, MoveInv DEF Child, Program

LEMMA ProgramInv == ASSUME SessionSizes, SInv, NEW p \in Program, ProgramNext(p) PROVE SInv'
<1>1. SessionTypeOK /\ PortOK
    BY DEF SInv
<1>2. /\ surface \in Seq(Client \cup {"shutdown"}) /\ Len(surface) <= MAX_IN_FLIGHT
      /\ drawn \in Seq(Client)
    BY <1>1 DEF SessionTypeOK
<1>3. CASE p \in Service \cup {"vfsd2", "reflection"} /\ LookupSpring(p)
  <2>1. PICK l \in {"send", "exit"} : Goto(p, l)
      BY <1>3 DEF LookupSpring
  <2> QED
      BY <1>2, <1>3, <2>1, GotoInv DEF LookupSpring, Label
<1>4. CASE p = "reflection" /\ Serve
  <2>1. CASE Head(surface) = "shutdown"
    <3>1. surface' \in Seq(Client \cup {"shutdown"}) /\ Len(surface') <= MAX_IN_FLIGHT
        BY <1>2, <1>4 DEF Serve, SessionSizes
    <3> QED
        BY <1>2, <1>4, <2>1, <3>1, GotoInv DEF Serve, Label
  <2>2. CASE Head(surface) # "shutdown"
    <3>1. /\ surface' \in Seq(Client \cup {"shutdown"}) /\ Len(surface') <= MAX_IN_FLIGHT
          /\ Head(surface) \in Client
        BY <1>2, <1>4, <2>2 DEF Serve, SessionSizes
    <3>2. drawn' \in Seq(Client) /\ UNCHANGED <<program, spring, published, supervisor, runs>>
        BY <1>2, <1>4, <2>2, <3>1 DEF Serve
    <3>3. Goto("reflection", "serve") /\ program["reflection"] = "serve"
        BY <1>1, <1>4, <3>2 DEF Goto, Serve, SessionTypeOK
    <3> QED
        BY <1>4, <3>1, <3>2, <3>3, GotoInv DEF Label
  <2> QED
      BY <2>1, <2>2
<1>5. CASE p \in Client /\ LookupReflection(p)
  <2>1. PICK l \in {"send", "exit"} : Goto(p, l)
      BY <1>5 DEF LookupReflection
  <2> QED
      BY <1>2, <1>5, <2>1, GotoInv DEF LookupReflection, Label
<1>6. CASE p \in Client /\ Draw(p)
  <2>1. surface' \in Seq(Client \cup {"shutdown"}) /\ Len(surface') <= MAX_IN_FLIGHT
      BY <1>2, <1>6, SentIs DEF Draw
  <2>2. PICK l \in {"shutdown", "exit"} : Goto(p, l)
      BY <1>6 DEF Draw
  <2> QED
      BY <1>2, <1>6, <2>1, <2>2, GotoInv DEF Draw, Label
<1>7. CASE p = "surface_demo" /\ Shutdown
  <2>1. surface' \in Seq(Client \cup {"shutdown"}) /\ Len(surface') <= MAX_IN_FLIGHT
      BY <1>2, <1>7, SentIs DEF Shutdown
  <2> QED
      BY <1>2, <1>7, <2>1, GotoInv DEF Shutdown, Label
<1>8. CASE p = "depth" /\ DepthSpawn
  <2>1. CASE Goto("depth", "exit")
      BY <1>2, <1>8, <2>1, GotoInv DEF DepthSpawn, Label
  <2>2. CASE program' = [program EXCEPT !["depth"] = "wait", !["shore"] = "prompt"]
    <3>1. /\ program'["depth"] = "wait" /\ program["depth"] = "start"
          /\ \A c \in Child : c # "depth" => program'[c] = program[c]
        BY <1>1, <1>8, <2>2 DEF SessionTypeOK, DepthSpawn, Program, Child, Service, Client
    <3>2. SessionTypeOK'
        BY <1>1, <1>8, <2>2, Zenon DEF SessionTypeOK, DepthSpawn
    <3>3. PortOK'
        BY <3>1 DEF PortOK
    <3> QED
        BY <1>8, <3>1, <3>2, <3>3, MoveInv DEF DepthSpawn
  <2> QED
      BY <1>8, <2>1, <2>2 DEF DepthSpawn
<1>9. CASE p = "depth" /\ DepthWait
    BY <1>2, <1>9, GotoInv DEF DepthWait, Label
<1>10. CASE p = "shore" /\ (ShoreWait \/ ShoreExit)
    BY <1>2, <1>10, GotoInv DEF ShoreWait, ShoreExit, Label
<1>11. CASE Exit(p)
    BY <1>2, <1>11, GotoInv DEF Exit, Label
<1> QED
    BY <1>3, <1>4, <1>5, <1>6, <1>7, <1>8, <1>9, <1>10, <1>11, ProgramCases, NotifyInv

LEMMA ShoreRunVfsdInv == ASSUME SessionSizes, SInv, ShoreRunVfsd PROVE SInv'
<1>1. SessionTypeOK /\ PortOK
    BY DEF SInv
<1>2. /\ program["depth"] # "none" /\ "shore" \in Program /\ "shore" \notin Child
      /\ \A c \in Child : program'[c] = program[c]
  <2>1. program["shore"] = "prompt" /\ program' = [program EXCEPT !["shore"] = "wait", !["vfsd2"] = "start"]
      BY DEF ShoreRunVfsd
  <2> QED
      BY <1>1, <2>1 DEF PortOK, SessionTypeOK, Program, Child, Service, Client
<1>3. SessionTypeOK'
  <2>1. runs' \in 0..MaxRuns
      BY <1>1 DEF SessionTypeOK, ShoreRunVfsd, SessionSizes
  <2>2. program' \in [Program -> Label]
      BY <1>1, Zenon DEF SessionTypeOK, ShoreRunVfsd, Label
  <2> QED
      BY <1>1, <2>1, <2>2 DEF SessionTypeOK, ShoreRunVfsd, Label
<1>4. PortOK'
    BY <1>2 DEF PortOK, Child
<1> QED
    BY <1>2, <1>3, <1>4, MoveInv, Zenon DEF ShoreRunVfsd

LEMMA InitSInv == ASSUME SessionSizes, SessionInit PROVE SInv
<1>1. spring.on = "spring" /\ spring.do = "ipc" /\ Now = 0
    BY DEF SessionInit, Now
<1>2. SessionTypeOK
    BY DEF SessionTypeOK, SessionInit, SessionSizes
<1>3. \A p \in Program : program[p] = "none"
    BY DEF SessionInit
<1>4. SpringOK
    BY <1>1 DEF SpringOK
<1>5. ASSUME NEW p \in Child PROVE ChildOK(p)
    BY <1>1, <1>3, TurnIs DEF ChildOK, Child, Program
<1>6. ReflectionOK
    BY <1>1 DEF ReflectionOK
<1>7. PortOK
    BY <1>3 DEF PortOK, SessionInit, Program
<1> QED
    BY <1>2, <1>4, <1>5, <1>6, <1>7 DEF SInv

LEMMA NextSInv == ASSUME SessionSizes, SInv, [SessionNext]_sesVars PROVE SInv'
<1>1. CASE UNCHANGED sesVars
  <2>1. UNCHANGED <<spring, program, supervisor, surface, published, drawn, runs>>
      BY <1>1 DEF sesVars
  <2>2. Now' = Now
      BY <2>1 DEF Now, Turn, Position, Script
  <2>3. ASSUME NEW p \in Child, ChildOK(p) PROVE ChildOK(p)'
      BY <2>1, <2>2, <2>3 DEF ChildOK, Turn, Position, Script
  <2> QED
      BY <2>1, <2>2, <2>3 DEF SInv, SessionTypeOK, SpringOK, ReflectionOK, PortOK
<1>2. CASE SessionNext
    BY <1>2, SpringInv, ProgramInv, ShoreRunVfsdInv DEF SessionNext, Progress
<1> QED
    BY <1>1, <1>2

----------------------------------------------------------------------------
(* What is drawn *)

LEMMA DInvNext == DInv' <=> Drawing(drawn', surface', program')
    BY DEF DInv, Drawing, Rank, Position, Script

LEMMA RankIs ==
    /\ Rank("shutdown") = 12 /\ "shutdown" \notin Client
    /\ \A p \in Client : Rank(p) = Position(p) /\ Position(p) \in 5..10
    BY TurnIs DEF Rank, Client

\* Without the shutdown no more than the six clients' messages wait.
LEMMA Short ==
    ASSUME NEW s \in Seq(Client), \A i, j \in DOMAIN s : i < j => Rank(s[i]) < Rank(s[j])
    PROVE  Len(s) <= 6
<1>1. SUFFICES ASSUME Len(s) > 6 PROVE FALSE
    OBVIOUS
<1>2. \A i \in 1..7 : i \in DOMAIN s /\ Rank(s[i]) \in 5..10
    BY <1>1, RankIs
<1>3. \A i \in 1..6 : Rank(s[i]) < Rank(s[i + 1])
    BY <1>2
<1>4. /\ Rank(s[1]) < Rank(s[2]) /\ Rank(s[2]) < Rank(s[3]) /\ Rank(s[3]) < Rank(s[4])
      /\ Rank(s[4]) < Rank(s[5]) /\ Rank(s[5]) < Rank(s[6]) /\ Rank(s[6]) < Rank(s[7])
    BY <1>3
<1> QED
    BY <1>2, <1>4

\* A step that concerns neither Reflection's port nor what the clients have sent.
LEMMA DrawingKept ==
    ASSUME DInv, UNCHANGED <<drawn, surface>>,
           \A p \in Client : program'[p] \in Quiet <=> program[p] \in Quiet,
           program["surface_demo"] \in {"exit", "dead"} => program'["surface_demo"] \in {"exit", "dead"},
           program'["reflection"] \in {"exit", "dead"} => program["reflection"] \in {"exit", "dead"}
    PROVE  DInv'
<1>1. Drawing(drawn, surface, program)
    BY DEF DInv
<1>2. Drawing(drawn, surface, program')
    BY <1>1 DEF Drawing
<1> QED
    BY <1>2, DInvNext

\* While a client has its message yet to send, those before it have sent theirs,
\* those after it have not, and Reflection has not been told to stop.
LEMMA BeforeDraw ==
    ASSUME SInv, DInv, NEW p \in Client, program[p] \in {"start", "send"}
    PROVE  /\ \A q \in Client : program[q] \in Quiet => Position(q) < Position(p)
           /\ program["surface_demo"] \notin {"exit", "dead"}
           /\ program["reflection"] \notin {"exit", "dead"}
           /\ "reflection" \in published
<1>1. SpringOK /\ (\A q \in Child : ChildOK(q)) /\ p \in Child /\ p # "reflection"
    BY DEF SInv, Child, Client
<1>2. Now = Turn(p) /\ Turn(p) \in 5..10
    BY <1>1, Active, TurnIs
<1>3. ASSUME NEW q \in Client, program[q] \in Quiet PROVE Position(q) < Position(p)
  <2>1. q \in Child /\ q # p /\ program[q] # "none"
      BY <1>3 DEF Child, Quiet
  <2>2. ~(Now < Turn(q)) /\ Turn(q) # Turn(p)
      BY <1>1, <2>1, TurnInjective DEF ChildOK
  <2> QED
      BY <1>2, <2>2, TurnIs
<1>4. program["surface_demo"] \notin {"exit", "dead"}
  <2>1. "surface_demo" \in Client /\ Position("surface_demo") = 10 /\ Position(p) \in 5..10
      BY Positions, RankIs DEF Client
  <2> QED
      BY <1>3, <2>1 DEF Quiet
<1>5. program["reflection"] \notin {"exit", "dead"}
    BY <1>4 DEF DInv, Drawing
<1>6. "reflection" \in published
    BY <1>1, <1>2 DEF SpringOK
<1> QED
    BY <1>3, <1>4, <1>5, <1>6

\* A message m behind all others is taken by the port.
LEMMA DrawingSent ==
    ASSUME SessionSizes, MAX_IN_FLIGHT >= 7, SInv, DInv, NEW m \in Client \cup {"shutdown"},
           program["surface_demo"] \notin {"exit", "dead"}, surface' = Sent(surface, m)
    PROVE  /\ surface' = Append(surface, m) /\ surface' # surface
           /\ surface \in Seq(Client) /\ drawn \in Seq(Client)
<1>1. surface \in Seq(Client \cup {"shutdown"}) /\ drawn \in Seq(Client)
    BY DEF SInv, SessionTypeOK
<1>2. \A i \in DOMAIN surface : surface[i] # "shutdown"
    BY DEF DInv, Drawing
<1>3. surface \in Seq(Client)
    BY <1>1, <1>2
<1>4. Len(surface) <= 6
    BY <1>3, Short DEF DInv, Drawing
<1>5. surface' = Append(surface, m)
    BY <1>3, <1>4 DEF Sent, SessionSizes
<1>6. Len(Append(surface, m)) = Len(surface) + 1 /\ Len(surface) \in Nat
    BY <1>3
<1> QED
    BY <1>1, <1>3, <1>5, <1>6

LEMMA DrawD ==
    ASSUME SessionSizes, MAX_IN_FLIGHT >= 7, SInv, DInv, NEW p \in Client, Draw(p)
    PROVE  DInv'
<1>1. /\ program[p] = "send" /\ surface' = Sent(surface, p) /\ UNCHANGED drawn
      /\ program' = [program EXCEPT ![p] = IF p = "surface_demo" /\ surface' # surface
                                 THEN "shutdown" ELSE "exit"]
    BY DEF Draw, Goto
<1>2. /\ \A q \in Client : program[q] \in Quiet => Position(q) < Position(p)
      /\ program["surface_demo"] \notin {"exit", "dead"}
      /\ program["reflection"] \notin {"exit", "dead"}
    BY <1>1, BeforeDraw
<1>3. /\ surface' = Append(surface, p) /\ surface' # surface
      /\ surface \in Seq(Client) /\ drawn \in Seq(Client)
    BY <1>1, <1>2, DrawingSent
<1>4. /\ \A q \in Client \ {p} : program'[q] = program[q]
      /\ program'["reflection"] = program["reflection"]
      /\ program'[p] \in Quiet /\ program[p] \notin Quiet
    BY <1>1, <1>3 DEF SInv, SessionTypeOK, Program, Client, Quiet
<1> DEFINE n == Len(surface)
<1>5. /\ n \in Nat /\ DOMAIN surface = 1..n /\ DOMAIN surface' = 1..(n + 1)
      /\ \A i \in 1..n : surface'[i] = surface[i] /\ surface[i] \in Client
      /\ surface'[n + 1] = p
    BY <1>3
<1>6. \A i \in DOMAIN drawn : drawn[i] \in Client
    BY <1>3
<1> HIDE DEF n
<1>7. \A i \in 1..(n + 1) : i \in 1..n \/ i = n + 1
    BY <1>5
<1>8. Drawing(drawn, surface, program)
    BY DEF DInv
<1>9. /\ \A i \in 1..n : Position(surface[i]) < Position(p)
      /\ \A i \in DOMAIN drawn : Position(drawn[i]) < Position(p)
    BY <1>2, <1>5, <1>6, <1>8 DEF Drawing
<1>10. Drawing(drawn, surface', program')
  <2>1. \A q \in Client : program'[q] \in Quiet <=> \/ \E i \in DOMAIN drawn : drawn[i] = q
                                                    \/ \E i \in DOMAIN surface' : surface'[i] = q
    <3>1. ASSUME NEW q \in Client \ {p}
          PROVE  (\E i \in DOMAIN surface' : surface'[i] = q) <=> \E i \in DOMAIN surface : surface[i] = q
        BY <1>5, <1>7
    <3>2. \E i \in DOMAIN surface' : surface'[i] = p
        BY <1>5
    <3> QED
        BY <1>4, <1>8, <3>1, <3>2 DEF Drawing
  <2>2. \A i, j \in DOMAIN surface' : i < j => Rank(surface'[i]) < Rank(surface'[j])
    <3>1. ASSUME NEW i \in 1..n, NEW j \in 1..n, i < j PROVE Rank(surface'[i]) < Rank(surface'[j])
        BY <1>5, <1>8, <3>1 DEF Drawing
    <3>2. ASSUME NEW i \in 1..n PROVE Rank(surface'[i]) < Rank(surface'[n + 1])
        BY <1>5, <1>9, RankIs
    <3>3. \A i, j \in 1..(n + 1) : i < j => i \in 1..n
        BY <1>5
    <3> QED
        BY <1>5, <1>7, <3>1, <3>2, <3>3
  <2>3. \A i \in DOMAIN drawn, j \in DOMAIN surface' : Position(drawn[i]) < Rank(surface'[j])
    <3>1. \A i \in DOMAIN drawn, j \in 1..n : Position(drawn[i]) < Rank(surface'[j])
        BY <1>5, <1>8 DEF Drawing
    <3>2. \A i \in DOMAIN drawn : Position(drawn[i]) < Rank(surface'[n + 1])
        BY <1>5, <1>9, RankIs
    <3> QED
        BY <1>5, <1>7, <3>1, <3>2
  <2>4. \A j \in DOMAIN surface' : surface'[j] # "shutdown"
      BY <1>5, <1>7, RankIs
  <2> QED
      BY <1>2, <1>4, <1>8, <2>1, <2>2, <2>3, <2>4 DEF Drawing
<1> QED
    BY <1>1, <1>10, DInvNext

LEMMA ShutdownD ==
    ASSUME SessionSizes, MAX_IN_FLIGHT >= 7, SInv, DInv, Shutdown
    PROVE  DInv'
<1>1. /\ program["surface_demo"] = "shutdown" /\ surface' = Sent(surface, "shutdown") /\ UNCHANGED drawn
      /\ program' = [program EXCEPT !["surface_demo"] = "exit"]
    BY DEF Shutdown, Goto
<1>2. /\ surface' = Append(surface, "shutdown")
      /\ surface \in Seq(Client) /\ drawn \in Seq(Client)
    BY <1>1, DrawingSent
<1>3. /\ \A q \in Client : q # "surface_demo" => program'[q] = program[q]
      /\ program'["reflection"] = program["reflection"] /\ program'["surface_demo"] = "exit"
    BY <1>1 DEF SInv, SessionTypeOK, Program, Client
<1> DEFINE n == Len(surface)
<1>4. /\ n \in Nat /\ DOMAIN surface = 1..n /\ DOMAIN surface' = 1..(n + 1)
      /\ \A i \in 1..n : surface'[i] = surface[i] /\ surface[i] \in Client
      /\ surface'[n + 1] = "shutdown"
    BY <1>2
<1>5. \A i \in DOMAIN drawn : drawn[i] \in Client
    BY <1>2
<1> HIDE DEF n
<1>6. \A i \in 1..(n + 1) : i \in 1..n \/ i = n + 1
    BY <1>4
<1>7. Drawing(drawn, surface, program)
    BY DEF DInv
<1>8. Drawing(drawn, surface', program')
  <2>1. ASSUME NEW q \in Client
        PROVE  program'[q] \in Quiet <=> \/ \E i \in DOMAIN drawn : drawn[i] = q
                                         \/ \E i \in DOMAIN surface' : surface'[i] = q
    <3>1. (\E i \in DOMAIN surface' : surface'[i] = q) <=> \E i \in DOMAIN surface : surface[i] = q
        BY <1>4, <1>6, RankIs
    <3>2. program'[q] \in Quiet <=> program[q] \in Quiet
        BY <1>1, <1>3 DEF Quiet
    <3> QED
        BY <1>7, <3>1, <3>2 DEF Drawing
  <2>2. \A i, j \in DOMAIN surface' : i < j => Rank(surface'[i]) < Rank(surface'[j])
    <3>1. ASSUME NEW i \in 1..n, NEW j \in 1..n, i < j PROVE Rank(surface'[i]) < Rank(surface'[j])
        BY <1>4, <1>7, <3>1 DEF Drawing
    <3>2. ASSUME NEW i \in 1..n PROVE Rank(surface'[i]) < Rank(surface'[n + 1])
        BY <1>4, RankIs
    <3>3. \A i, j \in 1..(n + 1) : i < j => i \in 1..n
        BY <1>4
    <3> QED
        BY <1>4, <1>6, <3>1, <3>2, <3>3
  <2>3. \A i \in DOMAIN drawn, j \in DOMAIN surface' : Position(drawn[i]) < Rank(surface'[j])
    <3>1. \A i \in DOMAIN drawn, j \in 1..n : Position(drawn[i]) < Rank(surface'[j])
        BY <1>4, <1>7 DEF Drawing
    <3>2. \A i \in DOMAIN drawn : Position(drawn[i]) < Rank(surface'[n + 1])
        BY <1>4, <1>5, RankIs
    <3> QED
        BY <1>4, <1>6, <3>1, <3>2
  <2> QED
      BY <1>1, <1>3, <1>7, <2>1, <2>2, <2>3 DEF Drawing
<1> QED
    BY <1>1, <1>8, DInvNext

LEMMA ServeD == ASSUME SInv, DInv, Serve PROVE DInv'
<1>1. /\ surface \in Seq(Client \cup {"shutdown"}) /\ drawn \in Seq(Client)
      /\ Drawing(drawn, surface, program) /\ program["reflection"] = "serve"
      /\ surface # <<>> /\ surface' = Tail(surface)
    BY DEF SInv, SessionTypeOK, DInv, Serve
<1> DEFINE n == Len(surface)
           h == Head(surface)
<1>2. /\ n \in Nat /\ n >= 1 /\ DOMAIN surface = 1..n /\ h = surface[1]
      /\ \A i \in 1..n : surface[i] \in Client \cup {"shutdown"}
      /\ DOMAIN surface' = 1..(n - 1) /\ \A i \in 1..(n - 1) : surface'[i] = surface[i + 1]
    BY <1>1
<1>3. CASE h = "shutdown"
  <2>1. UNCHANGED drawn /\ program' = [program EXCEPT !["reflection"] = "exit"]
      BY <1>3 DEF Serve, Goto
  <2>2. n = 1
    <3>1. n >= 2 => Rank(surface[1]) < Rank(surface[2]) /\ surface[2] \in Client \cup {"shutdown"}
        BY <1>1, <1>2 DEF Drawing
    <3> QED
        BY <1>2, <1>3, <3>1, RankIs
  <2>3. surface' = <<>>
      BY <1>1, <1>2, <2>2
  <2>4. program["surface_demo"] \in {"exit", "dead"}
      BY <1>1, <1>2, <1>3 DEF Drawing
  <2>5. \A p \in Client : program'[p] = program[p]
      BY <2>1 DEF SInv, SessionTypeOK, Program, Client
  <2>6. \A p \in Client : ~\E i \in DOMAIN surface : surface[i] = p
      BY <1>2, <1>3, <2>2, RankIs
  <2>7. Drawing(drawn, <<>>, program')
    <3>1. "surface_demo" \in Client
        BY DEF Client
    <3> QED
        BY <1>1, <2>4, <2>5, <2>6, <3>1 DEF Drawing
  <2> QED
      BY <2>1, <2>3, <2>7, DInvNext
<1>4. CASE h # "shutdown"
  <2> DEFINE k == Len(drawn)
  <2>1. drawn' = Append(drawn, h) /\ UNCHANGED program /\ h \in Client
      BY <1>2, <1>4 DEF Serve
  <2>2. /\ k \in Nat /\ DOMAIN drawn = 1..k /\ DOMAIN drawn' = 1..(k + 1) /\ drawn'[k + 1] = h
        /\ \A i \in 1..k : drawn'[i] = drawn[i]
      BY <1>1, <2>1
  <2> HIDE DEF k, h, n
  <2>3. /\ \A i \in 1..(k + 1) : i \in 1..k \/ i = k + 1
        /\ \A i, j \in 1..(k + 1) : i < j => i \in 1..k
        /\ \A i \in 1..(n - 1) : i + 1 \in 1..n /\ 1 < i + 1
        /\ \A i \in 1..n : i = 1 \/ (i - 1 \in 1..(n - 1) /\ (i - 1) + 1 = i)
      BY <1>2, <2>2
  <2>4. ASSUME NEW p \in Client
        PROVE  program'[p] \in Quiet <=> \/ \E i \in DOMAIN drawn' : drawn'[i] = p
                                         \/ \E i \in DOMAIN surface' : surface'[i] = p
    <3>1. (\E i \in 1..(k + 1) : drawn'[i] = p) <=> p = h \/ \E i \in 1..k : drawn[i] = p
      <4>1. k + 1 \in 1..(k + 1) /\ \A i \in 1..k : i \in 1..(k + 1)
          BY <2>2
      <4> QED
          BY <2>2, <2>3, <4>1
    <3>2. (\E i \in 1..n : surface[i] = p) <=> p = h \/ \E i \in 1..(n - 1) : surface'[i] = p
      <4>1. 1 \in 1..n
          BY <1>2
      <4>2. ASSUME NEW i \in 1..n, surface[i] = p PROVE p = h \/ \E j \in 1..(n - 1) : surface'[j] = p
        <5>1. CASE i = 1
            BY <1>2, <4>2, <5>1
        <5>2. CASE i # 1
          <6>1. i - 1 \in 1..(n - 1) /\ (i - 1) + 1 = i
              BY <2>3, <5>2
          <6>2. surface'[i - 1] = surface[(i - 1) + 1]
              BY <1>2, <6>1
          <6> QED
              BY <4>2, <6>1, <6>2
        <5> QED
            BY <5>1, <5>2
      <4> QED
          BY <1>2, <2>3, <4>1, <4>2
    <3> QED
        BY <1>1, <1>2, <2>1, <2>2, <3>1, <3>2, Zenon DEF Drawing
  <2>5. \A i, j \in DOMAIN drawn' : i < j => Position(drawn'[i]) < Position(drawn'[j])
    <3>1. ASSUME NEW i \in 1..k, NEW j \in 1..k, i < j PROVE Position(drawn'[i]) < Position(drawn'[j])
        BY <1>1, <2>2, <3>1, Zenon DEF Drawing
    <3>2. ASSUME NEW i \in 1..k PROVE Position(drawn'[i]) < Position(h)
      <4>1. 1 \in 1..n
          BY <1>2
      <4>2. Position(drawn[i]) < Rank(surface[1])
          BY <1>1, <1>2, <2>2, <4>1 DEF Drawing
      <4> QED
          BY <1>2, <2>1, <2>2, <4>2, RankIs
    <3> QED
        BY <2>2, <2>3, <3>1, <3>2
  <2>6. \A i, j \in DOMAIN surface' : i < j => Rank(surface'[i]) < Rank(surface'[j])
      BY <1>1, <1>2, <2>3 DEF Drawing
  <2>7. \A i \in DOMAIN drawn', j \in DOMAIN surface' : Position(drawn'[i]) < Rank(surface'[j])
    <3>1. ASSUME NEW j \in 1..(n - 1) PROVE Position(h) < Rank(surface'[j])
      <4>1. j + 1 \in 1..n /\ 1 \in 1..n /\ 1 < j + 1
          BY <1>2, <2>3
      <4>2. Rank(surface[1]) < Rank(surface[j + 1])
          BY <1>1, <1>2, <4>1 DEF Drawing
      <4> QED
          BY <1>2, <2>1, <4>2, RankIs
    <3>2. ASSUME NEW i \in 1..k, NEW j \in 1..(n - 1) PROVE Position(drawn'[i]) < Rank(surface'[j])
      <4>1. drawn'[i] = drawn[i] /\ surface'[j] = surface[j + 1] /\ j + 1 \in 1..n
          BY <1>2, <2>2, <2>3
      <4>2. Position(drawn[i]) < Rank(surface[j + 1])
          BY <1>1, <1>2, <2>2, <4>1, Zenon DEF Drawing
      <4> QED
          BY <4>1, <4>2
    <3> QED
        BY <1>2, <2>2, <2>3, <3>1, <3>2
  <2>8. \A j \in DOMAIN surface' : surface'[j] = "shutdown" => program["surface_demo"] \in {"exit", "dead"}
      BY <1>1, <1>2, <2>3 DEF Drawing
  <2>9. Drawing(drawn', surface', program')
      BY <1>1, <2>1, <2>4, <2>5, <2>6, <2>7, <2>8, Zenon DEF Drawing
  <2> QED
      BY <2>9, DInvNext
<1> QED
    BY <1>3, <1>4

\* A step of a program that is neither a client nor Reflection.
LEMMA OtherD ==
    ASSUME DInv, UNCHANGED <<drawn, surface>>,
           \A q \in Client \cup {"reflection"} : program'[q] = program[q]
    PROVE  DInv'
<1>1. "surface_demo" \in Client
    BY DEF Client
<1> QED
    BY <1>1, DrawingKept

LEMMA SpringD == ASSUME SInv, DInv, SpringNext PROVE DInv'
<1>1. /\ UNCHANGED <<drawn, surface>>
      /\ \/ UNCHANGED program
         \/ Goto(spring.on, "start") /\ spring.do = "spawn"
    BY Zenon DEF SpringNext, SpringIpc, Missing, SuperviseVfsd, SuperviseReadyService,
       SuperviseReflection, SuperviseClient, SuperviseDepth, Spawn, RecvReady, Waitpid
<1>2. CASE UNCHANGED program
    BY <1>1, <1>2, OtherD
<1>3. CASE Goto(spring.on, "start") /\ spring.do = "spawn"
  <2>1. SessionTypeOK /\ SpringOK /\ (\A p \in Child : ChildOK(p)) /\ spring.on \in Child
      BY <1>3 DEF SInv, SpringOK
  <2>2. program[spring.on] = "none"
      BY <1>3, <2>1, NowIs DEF ChildOK
  <2>3. \A q \in Program : program'[q] = IF q = spring.on THEN "start" ELSE program[q]
      BY <1>3, <2>1 DEF SessionTypeOK, Goto
  <2> QED
      BY <1>1, <2>2, <2>3, DrawingKept DEF Quiet, Program, Client
<1> QED
    BY <1>1, <1>2, <1>3

LEMMA ProgramD ==
    ASSUME SessionSizes, MAX_IN_FLIGHT >= 7, SInv, DInv, NEW p \in Program, ProgramNext(p)
    PROVE  DInv'
<1>1. /\ program \in [Program -> Label] /\ SpringOK
      /\ Client \cup {"reflection"} \subseteq Child /\ Child \subseteq Program
    BY DEF SInv, SessionTypeOK, Label, Child, Program
<1>2. ASSUME NEW l, Goto(p, l) PROVE \A q \in Program : program'[q] = IF q = p THEN l ELSE program[q]
    BY <1>1, <1>2 DEF Goto
<1>3. CASE p \in Service \cup {"vfsd2", "reflection"} /\ (LookupSpring(p) \/ Notify(p))
  <2>1. UNCHANGED <<drawn, surface>> /\ \E l : Goto(p, l)
      BY <1>3 DEF LookupSpring, Notify
  <2>2. CASE p # "reflection"
    <3>1. p \notin Client \cup {"reflection"}
        BY <1>3, <2>2 DEF Service, Client
    <3> QED
        BY <1>1, <1>2, <2>1, <3>1, OtherD
  <2>3. CASE p = "reflection"
    <3>1. program["reflection"] \in {"start", "send"} /\ "reflection" \in Child
        BY <1>1, <1>3, <2>3 DEF LookupSpring, Notify
    <3>2. spring.on = "reflection" /\ spring.do = "recv"
        BY <3>1, Active
    <3>3. "spring" \in published
        BY <1>1, <3>2 DEF SpringOK
    <3>4. Goto("reflection", "send") \/ Goto("reflection", "serve")
      <4>1. CASE LookupSpring(p)
          BY <2>3, <3>3, <4>1 DEF LookupSpring
      <4>2. CASE Notify(p)
        <5>1. supervisor = <<>>
            BY <2>3, <3>2, <4>2, ReadyMessage DEF Notify
        <5>2. supervisor' = <<"reflection">>
            BY <2>3, <4>2, <5>1 DEF Notify, NotifyOp, Sent, SessionSizes
        <5>3. supervisor' # supervisor
            BY <5>1, <5>2
        <5> QED
            BY <2>3, <4>2, <5>3 DEF Notify
      <4> QED
          BY <1>3, <4>1, <4>2
    <3>5. program'["reflection"] \in {"send", "serve"} /\ \A q \in Client : program'[q] = program[q]
        BY <1>1, <2>3, <3>4 DEF Goto, Client
    <3>6. "surface_demo" \in Client
        BY DEF Client
    <3> QED
        BY <2>1, <3>5, <3>6, DrawingKept
  <2> QED
      BY <2>2, <2>3
<1>4. CASE p = "reflection" /\ Serve
    BY <1>4, ServeD
<1>5. CASE p \in Client /\ LookupReflection(p)
  <2>1. program[p] = "start" /\ UNCHANGED <<drawn, surface>>
      BY <1>5 DEF LookupReflection
  <2>2. Goto(p, "send")
      BY <1>5, <2>1, BeforeDraw DEF LookupReflection
  <2>3. /\ program'[p] = "send" /\ program'["reflection"] = program["reflection"]
        /\ \A q \in Client : q # p => program'[q] = program[q]
      BY <1>1, <1>2, <1>5, <2>2 DEF Client
  <2>4. "surface_demo" \in Client
      BY DEF Client
  <2> QED
      BY <2>1, <2>3, <2>4, DrawingKept DEF Quiet
<1>6. CASE p \in Client /\ Draw(p)
    BY <1>6, DrawD
<1>7. CASE p = "surface_demo" /\ Shutdown
    BY <1>7, ShutdownD
<1>8. CASE p = "depth" /\ (DepthSpawn \/ DepthWait)
    BY <1>1, <1>8, OtherD DEF DepthSpawn, DepthWait, Goto, Client
<1>9. CASE p = "shore" /\ (ShoreWait \/ ShoreExit)
    BY <1>1, <1>9, OtherD DEF ShoreWait, ShoreExit, Goto, Client
<1>10. CASE Exit(p)
  <2>1. program[p] = "exit" /\ UNCHANGED <<drawn, surface>> /\ Goto(p, "dead")
      BY <1>10 DEF Exit
  <2>2. \A q \in Program : program'[q] = IF q = p THEN "dead" ELSE program[q]
      BY <1>2, <2>1
  <2>3. "surface_demo" \in Client
      BY DEF Client
  <2> QED
      BY <1>1, <2>1, <2>2, <2>3, DrawingKept DEF Quiet
<1> QED
    BY <1>3, <1>4, <1>5, <1>6, <1>7, <1>8, <1>9, <1>10, ProgramCases

LEMMA NextD ==
    ASSUME SessionSizes, MAX_IN_FLIGHT >= 7, SInv, DInv, [SessionNext]_sesVars
    PROVE  DInv'
<1>1. CASE UNCHANGED sesVars
    BY <1>1, OtherD DEF sesVars
<1>2. CASE ShoreRunVfsd
    BY <1>2, OtherD, Zenon DEF ShoreRunVfsd, SInv, SessionTypeOK, Program, Client
<1> QED
    BY <1>1, <1>2, SpringD, ProgramD DEF SessionNext, Progress

----------------------------------------------------------------------------
(* Theorems *)

\* The inductive invariant holds in every reachable state.
THEOREM SessionInvariant == SessionSizes => (SessionSpec => []SInv)
<1> SUFFICES ASSUME SessionSizes PROVE SessionSpec => []SInv
    OBVIOUS
<1>1. SessionInit => SInv
    BY InitSInv
<1>2. SInv /\ [SessionNext]_sesVars => SInv'
    BY NextSInv
<1> QED
    BY <1>1, <1>2, PTL DEF SessionSpec

\* Spring, the programs and the ports keep their shape (SessionTypeOK): no port
\* takes more messages than the kernel lets it, whoever sends.
THEOREM SessionTypes == SessionSizes => (SessionSpec => []SessionTypeOK)
<1>1. SInv => SessionTypeOK
    BY DEF SInv
<1> QED
    BY <1>1, SessionInvariant, PTL

\* Whatever the manifest lists and whatever can be started, the message that
\* supervise_ready_service and its like take is that of the service they have
\* started, for ports of every size.
THEOREM ReadyIsOwnHolds == SessionSizes => (SessionSpec => []ReadyIsOwn)
<1> SUFFICES ASSUME SessionSizes PROVE SessionSpec => []ReadyIsOwn
    OBVIOUS
<1>1. SInv => ReadyIsOwn
  <2>1. ASSUME SInv, spring.do = "recv" PROVE supervisor \in {<<>>, <<spring.on>>}
      BY <2>1, ReadyMessage
  <2> QED
      BY <2>1 DEF ReadyIsOwn
<1> QED
    BY <1>1, SessionInvariant, PTL

\* Spring starts the terminal only when Reflection has ended or never ran.
THEOREM TerminalAloneHolds == SessionSizes => (SessionSpec => []TerminalAlone)
<1> SUFFICES ASSUME SessionSizes PROVE SessionSpec => []TerminalAlone
    OBVIOUS
<1>1. SInv => TerminalAlone
  <2>1. ASSUME SInv, program["depth"] # "none" PROVE program["reflection"] \in {"none", "dead"}
    <3>1. "depth" \in Child /\ Turn("depth") = 12
        BY Turns DEF Child
    <3>2. Now \in 0..13 /\ ~(Now < 12)
        BY <2>1, <3>1, NowIs DEF SInv, ChildOK
    <3> QED
        BY <2>1, <3>2 DEF SInv, ReflectionOK
  <2> QED
      BY <2>1 DEF TerminalAlone, Started
<1> QED
    BY <1>1, SessionInvariant, PTL

\* Reflection draws what every client has sent, in order, and nothing is lost: for
\* every port that takes seven messages, as that of the kernel does.
THEOREM DrawnInOrderHolds == SessionSizes /\ MAX_IN_FLIGHT >= 7 => (SessionSpec => []DrawnInOrder)
<1> SUFFICES ASSUME SessionSizes, MAX_IN_FLIGHT >= 7 PROVE SessionSpec => []DrawnInOrder
    OBVIOUS
<1>1. SessionInit => SInv /\ DInv
  <2>1. SessionInit => DInv
      BY DEF SessionInit, DInv, Drawing, Program, Client, Quiet
  <2> QED
      BY <2>1, InitSInv
<1>2. SInv /\ DInv /\ [SessionNext]_sesVars => (SInv /\ DInv)'
    BY NextSInv, NextD
<1>3. SInv /\ DInv => DrawnInOrder
  <2>1. ASSUME SInv, DInv, program["reflection"] = "dead"
        PROVE  /\ {drawn[i] : i \in DOMAIN drawn} = {p \in Client : Started(p)}
               /\ \A i, j \in DOMAIN drawn : i < j => Position(drawn[i]) < Position(drawn[j])
    <3>1. /\ Drawing(drawn, surface, program) /\ surface = <<>>
          /\ program["surface_demo"] \in {"exit", "dead"} /\ drawn \in Seq(Client)
        BY <2>1 DEF DInv, Drawing, SInv, SessionTypeOK
    <3>2. /\ Now \in 0..13 /\ (\A p \in Child : Now = Turn(p) => spring.on = p)
          /\ \A p \in Child : ChildOK(p)
        BY <2>1, NowIs DEF SInv
    <3>3. "surface_demo" \in Child /\ Turn("surface_demo") = 10 /\ ~(Now < 10)
        BY <3>1, <3>2, Turns DEF Child, Client, ChildOK
    <3>4. ASSUME NEW p \in Client PROVE program[p] # "none" <=> program[p] \in Quiet
      <4>1. p \in Child /\ p # "reflection" /\ Turn(p) \in 5..10 /\ ChildOK(p)
          BY <3>2, TurnIs DEF Child, Client
      <4>2. CASE Turn(p) < Now
          BY <4>1, <4>2 DEF ChildOK, Quiet
      <4>3. CASE ~(Turn(p) < Now)
        <5>1. p = "surface_demo"
            BY <3>2, <3>3, <4>1, <4>3, TurnInjective
        <5> QED
            BY <3>1, <5>1 DEF Quiet
      <4> QED
          BY <4>2, <4>3
    <3>5. \A p \in Client : program[p] \in Quiet <=> \E i \in DOMAIN drawn : drawn[i] = p
        BY <3>1 DEF Drawing
    <3>6. \A i \in DOMAIN drawn : drawn[i] \in Client
        BY <3>1
    <3>7. {drawn[i] : i \in DOMAIN drawn} = {p \in Client : Started(p)}
        BY <3>4, <3>5, <3>6 DEF Started
    <3> QED
        BY <3>1, <3>7 DEF Drawing
  <2> QED
      BY <2>1 DEF DrawnInOrder
<1> QED
    BY <1>1, <1>2, <1>3, PTL DEF SessionSpec

----------------------------------------------------------------------------
(* The keyboard *)

KeySlot == 0..(INPUT_QUEUE - 1)

Queue(q) ==
    /\ DOMAIN q = {"buf", "head", "len"} /\ DOMAIN q.buf = KeySlot
    /\ q.head \in KeySlot /\ q.len \in 0..INPUT_QUEUE

\* The slot of place i, the oldest byte being at place 1, and its byte.
Pos(h, i) == (h + i - 1) % INPUT_QUEUE
At(q, i) == q.buf[Pos(q.head, i)]

----------------------------------------------------------------------------
(* The operations of ByteQueue *)

LEMMA PosIs ==
    ASSUME INPUT_QUEUE \in Nat \ {0}, NEW h \in KeySlot, NEW i \in 1..INPUT_QUEUE
    PROVE  /\ Pos(h, i) \in KeySlot
           /\ Pos(h, i) = IF h + i - 1 < INPUT_QUEUE THEN h + i - 1 ELSE h + i - 1 - INPUT_QUEUE
<1>1. ASSUME NEW N \in Nat \ {0}, NEW g \in 0..(N - 1), NEW j \in 1..N
      PROVE  (g + j - 1) % N = IF g + j - 1 < N THEN g + j - 1 ELSE g + j - 1 - N
    BY <1>1
<1>2. Pos(h, i) = IF h + i - 1 < INPUT_QUEUE THEN h + i - 1 ELSE h + i - 1 - INPUT_QUEUE
    BY <1>1 DEF KeySlot, Pos
<1> QED
    BY <1>2 DEF KeySlot

\* The next slot.
LEMMA NextPos ==
    ASSUME INPUT_QUEUE \in Nat \ {0}, NEW h \in KeySlot
    PROVE  /\ (h + 1) % INPUT_QUEUE \in KeySlot
           /\ (h + 1) % INPUT_QUEUE = IF h = INPUT_QUEUE - 1 THEN 0 ELSE h + 1
<1>1. ASSUME NEW N \in Nat \ {0}, NEW g \in 0..(N - 1)
      PROVE  (g + 1) % N = IF g = N - 1 THEN 0 ELSE g + 1
    BY <1>1
<1>2. (h + 1) % INPUT_QUEUE = IF h = INPUT_QUEUE - 1 THEN 0 ELSE h + 1
    BY <1>1 DEF KeySlot
<1> QED
    BY <1>2 DEF KeySlot

\* With the first slot moved on by one, every byte has the place before.
LEMMA PosInc ==
    ASSUME INPUT_QUEUE \in Nat \ {0}, NEW h \in KeySlot, NEW g \in KeySlot, g = (h + 1) % INPUT_QUEUE,
           NEW i \in 1..INPUT_QUEUE
    PROVE  /\ i # INPUT_QUEUE => Pos(g, i) = Pos(h, i + 1) /\ Pos(g, i) # h
           /\ i = INPUT_QUEUE => Pos(g, i) = h
<1>1. g = IF h = INPUT_QUEUE - 1 THEN 0 ELSE h + 1
    BY NextPos
<1>2. Pos(g, i) = IF g + i - 1 < INPUT_QUEUE THEN g + i - 1 ELSE g + i - 1 - INPUT_QUEUE
    BY PosIs
<1>3. CASE i # INPUT_QUEUE
  <2> DEFINE j == i + 1
  <2>1. j \in 1..INPUT_QUEUE
      BY <1>3
  <2> HIDE DEF j
  <2>2. Pos(h, j) = IF h + j - 1 < INPUT_QUEUE THEN h + j - 1 ELSE h + j - 1 - INPUT_QUEUE
      BY <2>1, PosIs
  <2>3. Pos(g, i) = Pos(h, j) /\ Pos(g, i) # h
      BY <1>1, <1>2, <1>3, <2>2 DEF KeySlot, j
  <2> QED
      BY <1>3, <2>3 DEF j
<1>4. CASE i = INPUT_QUEUE
    BY <1>1, <1>2, <1>4 DEF KeySlot
<1> QED
    BY <1>3, <1>4

LEMMA PushQueue ==
    ASSUME INPUT_QUEUE \in Nat \ {0}, NEW q, Queue(q), NEW e
    PROVE  LET p == Push(q, e) IN
           /\ Queue(p)
           /\ p.len = IF q.len = INPUT_QUEUE THEN INPUT_QUEUE ELSE q.len + 1
           /\ \A i \in 1..p.len : At(p, i) = IF i = p.len THEN e
                                            ELSE IF q.len = INPUT_QUEUE THEN At(q, i + 1)
                                            ELSE At(q, i)
<1> DEFINE N == INPUT_QUEUE
           p == Push(q, e)
<1>0. N \in Nat \ {0} /\ KeySlot = 0..(N - 1) /\ q.head \in KeySlot /\ q.len \in 0..N
    BY DEF Queue, KeySlot
<1>1. CASE q.len = N
  <2>1. /\ DOMAIN p = {"buf", "head", "len"} /\ p.len = N
        /\ p.head = (q.head + 1) % N /\ DOMAIN p.buf = KeySlot
        /\ \A k \in KeySlot : p.buf[k] = IF k = q.head THEN e ELSE q.buf[k]
      BY <1>1 DEF Push, Queue
  <2>2. p.head \in KeySlot /\ Queue(p)
      BY <1>0, <2>1, NextPos DEF Queue
  <2> HIDE DEF p
  <2>3. ASSUME NEW i \in 1..N PROVE At(p, i) = IF i = N THEN e ELSE At(q, i + 1)
    <3>1. Pos(p.head, i) \in KeySlot
        BY <2>2, PosIs
    <3>2. /\ i # N => Pos(p.head, i) = Pos(q.head, i + 1) /\ Pos(p.head, i) # q.head
          /\ i = N => Pos(p.head, i) = q.head
        BY <1>0, <2>1, <2>2, PosInc
    <3> QED
        BY <2>1, <3>1, <3>2 DEF At
  <2> QED
      BY <1>1, <2>1, <2>2, <2>3 DEF p
<1>2. CASE q.len # N
  <2> DEFINE n == q.len + 1
  <2>0. n \in 1..N /\ (q.head + q.len) % N = Pos(q.head, n)
      BY <1>0, <1>2 DEF Pos
  <2>1. Pos(q.head, n) \in KeySlot
      BY <1>0, <2>0, PosIs, Zenon
  <2>2. /\ DOMAIN p = {"buf", "head", "len"} /\ p.len = n
        /\ p.head = q.head /\ DOMAIN p.buf = KeySlot
        /\ \A k \in KeySlot : p.buf[k] = IF k = Pos(q.head, n) THEN e ELSE q.buf[k]
      BY <1>2, <2>0, <2>1 DEF Push, Queue
  <2>3. Queue(p)
      BY <1>0, <2>0, <2>2 DEF Queue
  <2> HIDE DEF p
  <2>4. ASSUME NEW i \in 1..n PROVE At(p, i) = IF i = n THEN e ELSE At(q, i)
    <3>0. i \in 1..N
        BY <1>0, <2>0
    <3> HIDE DEF n
    <3>1. /\ Pos(q.head, i) \in KeySlot
          /\ Pos(q.head, i) = IF q.head + i - 1 < N THEN q.head + i - 1 ELSE q.head + i - 1 - N
          /\ Pos(q.head, n) = IF q.head + n - 1 < N THEN q.head + n - 1 ELSE q.head + n - 1 - N
        BY <1>0, <2>0, <3>0, PosIs, Zenon
    <3>2. Pos(q.head, i) = Pos(q.head, n) <=> i = n
      <4>1. N \in Nat /\ q.head \in 0..(N - 1) /\ i \in 1..N /\ n \in 1..N
          BY <1>0, <2>0, <3>0 DEF KeySlot
      <4>2. ASSUME NEW h \in 0..(N - 1), NEW a \in 1..N, NEW b \in 1..N,
                   (IF h + a - 1 < N THEN h + a - 1 ELSE h + a - 1 - N)
                     = (IF h + b - 1 < N THEN h + b - 1 ELSE h + b - 1 - N)
            PROVE  a = b
          BY <4>1, <4>2
      <4>3. Pos(q.head, i) = Pos(q.head, n) => i = n
          BY <3>1, <4>1, <4>2
      <4> QED
          BY <4>3
    <3> QED
        BY <2>2, <3>1, <3>2 DEF At
  <2> QED
      BY <1>0, <1>2, <2>2, <2>3, <2>4 DEF p
<1> QED
    BY <1>1, <1>2

LEMMA PopQueue ==
    ASSUME INPUT_QUEUE \in Nat \ {0}, NEW q, Queue(q)
    PROVE  LET p == Pop(q) IN
           /\ Queue(p)
           /\ p.len = IF q.len = 0 THEN 0 ELSE q.len - 1
           /\ \A i \in 1..p.len : At(p, i) = At(q, i + 1)
<1> DEFINE N == INPUT_QUEUE
           p == Pop(q)
<1>0. N \in Nat \ {0} /\ KeySlot = 0..(N - 1) /\ q.head \in KeySlot /\ q.len \in 0..N
    BY DEF Queue, KeySlot
<1>1. CASE q.len = 0
    BY <1>1 DEF Pop
<1>2. CASE q.len # 0
  <2>1. /\ DOMAIN p = {"buf", "head", "len"} /\ p.len = q.len - 1
        /\ p.head = (q.head + 1) % N /\ DOMAIN p.buf = KeySlot
        /\ \A k \in KeySlot : k # q.head => p.buf[k] = q.buf[k]
      BY <1>2 DEF Pop, Queue
  <2>2. p.head \in KeySlot /\ Queue(p)
      BY <1>0, <1>2, <2>1, NextPos DEF Queue
  <2> HIDE DEF p
  <2>3. ASSUME NEW i \in 1..(q.len - 1) PROVE At(p, i) = At(q, i + 1)
    <3>0. i \in 1..N /\ i # N
        BY <1>0
    <3>1. Pos(p.head, i) \in KeySlot
        BY <2>2, <3>0, PosIs
    <3>2. Pos(p.head, i) = Pos(q.head, i + 1) /\ Pos(p.head, i) # q.head
        BY <1>0, <2>1, <2>2, <3>0, PosInc
    <3> QED
        BY <2>1, <3>1, <3>2 DEF At
  <2> QED
      BY <1>2, <2>1, <2>2, <2>3 DEF p
<1> QED
    BY <1>1, <1>2

----------------------------------------------------------------------------
(* The terminal's queue is a suffix of the compositor's *)

Suffix(t, e) ==
    /\ Queue(t) /\ Queue(e) /\ t.len <= e.len
    /\ \A i \in 1..t.len : At(t, i) = At(e, e.len - t.len + i)

LEMMA SuffixPush ==
    ASSUME INPUT_QUEUE \in Nat \ {0}, NEW t, NEW e, Suffix(t, e), NEW x
    PROVE  Suffix(Push(t, x), Push(e, x))
<1> DEFINE N == INPUT_QUEUE
           tp == Push(t, x)
           ep == Push(e, x)
<1>1. /\ Queue(t) /\ Queue(e) /\ t.len \in 0..N /\ e.len \in 0..N /\ t.len <= e.len
      /\ \A i \in 1..t.len : At(t, i) = At(e, e.len - t.len + i)
    BY DEF Suffix, Queue
<1>2. /\ Queue(tp) /\ tp.len = IF t.len = N THEN N ELSE t.len + 1
      /\ \A i \in 1..tp.len : At(tp, i) = IF i = tp.len THEN x
                                         ELSE IF t.len = N THEN At(t, i + 1) ELSE At(t, i)
    BY <1>1, PushQueue
<1>3. /\ Queue(ep) /\ ep.len = IF e.len = N THEN N ELSE e.len + 1
      /\ \A i \in 1..ep.len : At(ep, i) = IF i = ep.len THEN x
                                         ELSE IF e.len = N THEN At(e, i + 1) ELSE At(e, i)
    BY <1>1, PushQueue
<1> HIDE DEF tp, ep
<1>4. tp.len <= ep.len
    BY <1>1, <1>2, <1>3
<1>5. ASSUME NEW i \in 1..tp.len PROVE At(tp, i) = At(ep, ep.len - tp.len + i)
  <2>1. ep.len - tp.len + i \in 1..ep.len /\ (ep.len - tp.len + i = ep.len <=> i = tp.len)
      BY <1>1, <1>2, <1>3, <1>4, <1>5
  <2>2. CASE i = tp.len
      BY <1>2, <1>3, <1>5, <2>1, <2>2
  <2>3. CASE i # tp.len /\ t.len = N
    <3>1. e.len = N /\ i + 1 \in 1..t.len /\ ep.len - tp.len + i = i
          /\ e.len - t.len + (i + 1) = i + 1
        BY <1>1, <1>2, <1>3, <1>5, <2>3
    <3>2. At(tp, i) = At(t, i + 1) /\ At(t, i + 1) = At(e, i + 1) /\ At(ep, i) = At(e, i + 1)
        BY <1>1, <1>2, <1>3, <1>5, <2>1, <2>3, <3>1
    <3> QED
        BY <3>1, <3>2
  <2>4. CASE i # tp.len /\ t.len # N /\ e.len = N
    <3>1. i \in 1..t.len /\ (ep.len - tp.len + i) + 1 = e.len - t.len + i
        BY <1>1, <1>2, <1>3, <1>5, <2>4
    <3>2. At(tp, i) = At(t, i) /\ At(ep, ep.len - tp.len + i) = At(e, (ep.len - tp.len + i) + 1)
        BY <1>2, <1>3, <1>5, <2>1, <2>4
    <3> QED
        BY <1>1, <3>1, <3>2
  <2>5. CASE i # tp.len /\ t.len # N /\ e.len # N
    <3>1. i \in 1..t.len /\ ep.len - tp.len + i = e.len - t.len + i
        BY <1>1, <1>2, <1>3, <1>5, <2>5
    <3>2. At(tp, i) = At(t, i) /\ At(ep, ep.len - tp.len + i) = At(e, ep.len - tp.len + i)
        BY <1>2, <1>3, <1>5, <2>1, <2>5
    <3> QED
        BY <1>1, <3>1, <3>2
  <2> QED
      BY <2>2, <2>3, <2>4, <2>5
<1> QED
    BY <1>2, <1>3, <1>4, <1>5 DEF Suffix, tp, ep

\* The terminal may take its oldest byte at any time ...
LEMMA SuffixPopTty ==
    ASSUME INPUT_QUEUE \in Nat \ {0}, NEW t, NEW e, Suffix(t, e)
    PROVE  Suffix(Pop(t), e)
<1> DEFINE p == Pop(t)
<1>1. /\ Queue(t) /\ Queue(e) /\ t.len \in 0..INPUT_QUEUE /\ e.len \in 0..INPUT_QUEUE /\ t.len <= e.len
      /\ \A i \in 1..t.len : At(t, i) = At(e, e.len - t.len + i)
    BY DEF Suffix, Queue
<1>2. /\ Queue(p) /\ p.len = IF t.len = 0 THEN 0 ELSE t.len - 1
      /\ \A i \in 1..p.len : At(p, i) = At(t, i + 1)
    BY <1>1, PopQueue
<1> HIDE DEF p
<1>3. ASSUME NEW i \in 1..p.len PROVE At(p, i) = At(e, e.len - p.len + i)
  <2>1. i + 1 \in 1..t.len /\ e.len - p.len + i = e.len - t.len + (i + 1)
      BY <1>1, <1>2, <1>3
  <2> QED
      BY <1>1, <1>2, <1>3, <2>1
<1> QED
    BY <1>1, <1>2, <1>3 DEF Suffix, p

\* ... and the compositor its own, if the terminal's queue is shorter ...
LEMMA SuffixPopEvents ==
    ASSUME INPUT_QUEUE \in Nat \ {0}, NEW t, NEW e, Suffix(t, e), t.len = 0 \/ t.len < e.len
    PROVE  Suffix(t, Pop(e))
<1> DEFINE p == Pop(e)
<1>1. /\ Queue(t) /\ Queue(e) /\ t.len \in 0..INPUT_QUEUE /\ e.len \in 0..INPUT_QUEUE /\ t.len <= e.len
      /\ \A i \in 1..t.len : At(t, i) = At(e, e.len - t.len + i)
    BY DEF Suffix, Queue
<1>2. /\ Queue(p) /\ p.len = IF e.len = 0 THEN 0 ELSE e.len - 1
      /\ \A i \in 1..p.len : At(p, i) = At(e, i + 1)
    BY <1>1, PopQueue
<1> HIDE DEF p
<1>3. ASSUME NEW i \in 1..t.len PROVE At(t, i) = At(p, p.len - t.len + i)
  <2>1. p.len - t.len + i \in 1..p.len /\ (p.len - t.len + i) + 1 = e.len - t.len + i
      BY <1>1, <1>2, <1>3
  <2> QED
      BY <1>1, <1>2, <1>3, <2>1
<1>4. t.len <= p.len
    BY <1>1, <1>2
<1> QED
    BY <1>1, <1>2, <1>3, <1>4 DEF Suffix, p

\* ... or if both take one.
LEMMA SuffixPopBoth ==
    ASSUME INPUT_QUEUE \in Nat \ {0}, NEW t, NEW e, Suffix(t, e), t.len > 0
    PROVE  Suffix(Pop(t), Pop(e))
<1> DEFINE p == Pop(t)
<1>1. Suffix(p, e)
    BY SuffixPopTty
<1>2. p.len < e.len
  <2>1. Queue(t) /\ Queue(e) /\ t.len \in 0..INPUT_QUEUE /\ e.len \in 0..INPUT_QUEUE /\ t.len <= e.len
      BY DEF Suffix, Queue
  <2>2. p.len = IF t.len = 0 THEN 0 ELSE t.len - 1
      BY <2>1, PopQueue
  <2> HIDE DEF p
  <2> QED
      BY <2>1, <2>2
<1> HIDE DEF p
<1>3. Suffix(p, Pop(e))
    BY <1>1, <1>2, SuffixPopEvents
<1> QED
    BY <1>3 DEF p

\* poll_input pushes the same byte on both queues, or none.
LEMMA PolledSuffix ==
    ASSUME INPUT_QUEUE \in Nat \ {0}, Suffix(tty, events), NEW c
    PROVE  Suffix(Polled(c).t, Polled(c).e)
<1> DEFINE x == [b |-> Decode(keyboard, c).byte, no |-> presses]
<1>1. \/ Polled(c).t = tty /\ Polled(c).e = events
      \/ Polled(c).t = Push(tty, x) /\ Polled(c).e = Push(events, x)
    BY DEF Polled
<1> HIDE DEF x
<1>2. Suffix(Push(tty, x), Push(events, x))
    BY SuffixPush
<1> QED
    BY <1>1, <1>2

LEMMA InitSuffix == INPUT_QUEUE \in Nat \ {0} /\ KbdInit => Suffix(tty, events)
BY DEF KbdInit, NewQueue, Suffix, Queue, KeySlot

LEMMA NextSuffix == INPUT_QUEUE \in Nat \ {0} /\ Suffix(tty, events) /\ [KbdNext]_kbdVars
                       => Suffix(tty', events')
<1> SUFFICES ASSUME INPUT_QUEUE \in Nat \ {0}, Suffix(tty, events), [KbdNext]_kbdVars
             PROVE  Suffix(tty', events')
    OBVIOUS
<1>1. CASE Read
    BY <1>1 DEF Read
<1>2. ASSUME NEW c, PollEventByte(c) PROVE Suffix(tty', events')
  <2> DEFINE t == Polled(c).t
             e == Polled(c).e
  <2>1. Suffix(t, e)
      BY PolledSuffix
  <2>2. /\ events' = Pop(e)
        /\ tty' = IF e.len > 0 /\ t.len > 0 /\ Peek(t).b = Peek(e).b THEN Pop(t) ELSE t
      BY <1>2 DEF PollEventByte
  <2> HIDE DEF t, e
  <2>3. /\ t.len \in 0..INPUT_QUEUE /\ e.len \in 0..INPUT_QUEUE /\ t.len <= e.len
        /\ t.head \in KeySlot /\ e.head \in KeySlot
        /\ \A i \in 1..t.len : At(t, i) = At(e, e.len - t.len + i)
      BY <2>1 DEF Suffix, Queue
  <2>4. CASE e.len > 0 /\ t.len > 0 /\ Peek(t).b = Peek(e).b
      BY <2>1, <2>2, <2>4, SuffixPopBoth
  <2>5. CASE ~(e.len > 0 /\ t.len > 0 /\ Peek(t).b = Peek(e).b)
    <3>1. t.len > 0 /\ t.len = e.len => Peek(t) = Peek(e)
      <4> SUFFICES ASSUME t.len > 0, t.len = e.len PROVE Peek(t) = Peek(e)
          OBVIOUS
      <4>1. At(t, 1) = At(e, 1)
          BY <2>3
      <4>2. Pos(t.head, 1) = t.head /\ Pos(e.head, 1) = e.head
          BY <2>3, PosIs DEF KeySlot
      <4> QED
          BY <2>3, <4>1, <4>2 DEF At, Peek
    <3>2. t.len = 0 \/ t.len < e.len
        BY <2>3, <2>5, <3>1
    <3>3. Suffix(t, Pop(e))
        BY <2>1, <3>2, SuffixPopEvents
    <3> QED
        BY <2>2, <2>5, <3>3
  <2> QED
      BY <2>4, <2>5
<1>3. ASSUME NEW c, ReadByte(c) PROVE Suffix(tty', events')
  <2> DEFINE t == Polled(c).t
             e == Polled(c).e
  <2>1. Suffix(t, e)
      BY PolledSuffix
  <2>2. tty' = Pop(t) /\ events' = e
      BY <1>3 DEF ReadByte
  <2> HIDE DEF t, e
  <2> QED
      BY <2>1, <2>2, SuffixPopTty
<1>4. CASE UNCHANGED kbdVars
    BY <1>4 DEF kbdVars
<1> QED
    BY <1>1, <1>2, <1>3, <1>4 DEF KbdNext

LEMMA SuffixNoLeak == INPUT_QUEUE \in Nat \ {0} /\ Suffix(tty, events) => NoLeak
<1> SUFFICES ASSUME INPUT_QUEUE \in Nat \ {0}, Suffix(tty, events) PROVE NoLeak
    OBVIOUS
<1> DEFINE m == events.len - tty.len + 1
           h == Held(events)
<1>1. /\ tty.len \in Nat /\ events.len \in Nat /\ tty.len <= events.len
      /\ \A i \in 1..tty.len : At(tty, i) = At(events, events.len - tty.len + i)
    BY DEF Suffix, Queue
<1>2. /\ h = [i \in 1..events.len |-> At(events, i)]
      /\ Held(tty) = [i \in 1..tty.len |-> At(tty, i)]
    BY DEF Held, At, Pos
<1> HIDE DEF h
<1>3. SubSeq(h, m, events.len) = [i \in 1..tty.len |-> h[events.len - tty.len + i]]
    BY SMTT(20), <1>1, <1>2
<1>4. \A i \in 1..tty.len : h[events.len - tty.len + i] = At(tty, i)
    BY <1>1, <1>2
<1> QED
    BY <1>1, <1>2, <1>3, <1>4 DEF NoLeak, h

\* A key that the compositor has taken is never read by the terminal, for
\* queues of every size and whatever is typed, lost and read.
THEOREM NoLeakHolds == INPUT_QUEUE \in Nat \ {0} => (KbdSpec => []NoLeak)
<1> SUFFICES ASSUME INPUT_QUEUE \in Nat \ {0} PROVE KbdSpec => []NoLeak
    OBVIOUS
<1>1. KbdInit => Suffix(tty, events)
    BY InitSuffix
<1>2. Suffix(tty, events) /\ [KbdNext]_kbdVars => Suffix(tty, events)'
  <2>1. Suffix(tty, events)' <=> Suffix(tty', events')
      BY DEF Suffix, Queue, At, Pos, KeySlot
  <2> QED
      BY <2>1, NextSuffix
<1>3. Suffix(tty, events) => NoLeak
    BY SuffixNoLeak
<1> QED
    BY <1>1, <1>2, <1>3, PTL DEF KbdSpec

----------------------------------------------------------------------------
(* The line that a read returns *)

INSTANCE FiniteSetTheorems

\* The definitions of LineAsEdited for any sequence ty of bytes, up to place j,
\* and how many more bytes than backspaces there are from place i to the end.
TextsIn(ty, i, j)      == Cardinality({k \in i..j : Kept(ty[k])})
BackspacesIn(ty, i, j) == Cardinality({k \in i..j : ty[k] = 8})
SurvivesIn(ty, i) ==
    Kept(ty[i]) /\ \A j \in i..Len(ty) : BackspacesIn(ty, i, j) < TextsIn(ty, i, j)
Left(ty, i) == TextsIn(ty, i, Len(ty)) - BackspacesIn(ty, i, Len(ty))

\* A byte that survives stands in line l as far from its end as its depth tells,
\* and every place of the line has such a byte.
Edits(l, ty) ==
    /\ (\E A : l \in Seq(A)) /\ (\E A : ty \in Seq(A))
    /\ \A i \in 1..Len(ty) : SurvivesIn(ty, i) =>
          Left(ty, i) \in 1..Len(l) /\ l[Len(l) + 1 - Left(ty, i)] = ty[i]
    /\ \A i, j \in 1..Len(ty) :
          SurvivesIn(ty, i) /\ SurvivesIn(ty, j) /\ i < j => Left(ty, j) < Left(ty, i)
    /\ \A d \in 1..Len(l) : \E i \in 1..Len(ty) : SurvivesIn(ty, i) /\ Left(ty, i) = d

LEMMA CountType ==
    ASSUME NEW ty, NEW i \in Int, NEW j \in Int
    PROVE  TextsIn(ty, i, j) \in Nat /\ BackspacesIn(ty, i, j) \in Nat
<1>1. IsFiniteSet(i..j)
    BY FS_Interval
<1>2. IsFiniteSet({k \in i..j : Kept(ty[k])}) /\ IsFiniteSet({k \in i..j : ty[k] = 8})
    BY <1>1, FS_Subset
<1> QED
    BY <1>2, FS_CardinalityType DEF TextsIn, BackspacesIn

\* One more byte is one more text, one more backspace, or neither.
LEMMA CountNext ==
    ASSUME NEW A, NEW ty \in Seq(A), NEW x, NEW i \in 1..(Len(ty) + 1)
    PROVE  LET tx == Append(ty, x)
               n  == Len(ty)
           IN  /\ \A j \in i..n : /\ TextsIn(tx, i, j) = TextsIn(ty, i, j)
                                  /\ BackspacesIn(tx, i, j) = BackspacesIn(ty, i, j)
               /\ TextsIn(tx, i, n + 1) = TextsIn(ty, i, n) + IF Kept(x) THEN 1 ELSE 0
               /\ BackspacesIn(tx, i, n + 1) = BackspacesIn(ty, i, n) + IF x = 8 THEN 1 ELSE 0
<1> DEFINE tx == Append(ty, x)
           n  == Len(ty)
<1>1. n \in Nat /\ tx[n + 1] = x /\ \A k \in 1..n : tx[k] = ty[k]
    OBVIOUS
<1> HIDE DEF tx, n
<1>2. i \in Nat /\ i >= 1 /\ i <= n + 1
    BY <1>1 DEF n
<1>3. ASSUME NEW j \in i..n PROVE /\ TextsIn(tx, i, j) = TextsIn(ty, i, j)
                                  /\ BackspacesIn(tx, i, j) = BackspacesIn(ty, i, j)
  <2>1. \A k \in i..j : tx[k] = ty[k]
      BY <1>1, <1>2
  <2>2. /\ {k \in i..j : Kept(tx[k])} = {k \in i..j : Kept(ty[k])}
        /\ {k \in i..j : tx[k] = 8} = {k \in i..j : ty[k] = 8}
      BY <2>1
  <2> QED
      BY <2>2, Zenon DEF TextsIn, BackspacesIn
<1>4. i..(n + 1) = (i..n) \cup {n + 1} /\ n + 1 \notin i..n /\ \A k \in i..n : tx[k] = ty[k]
    BY <1>1, <1>2
<1>5. IsFiniteSet({k \in i..n : Kept(ty[k])}) /\ IsFiniteSet({k \in i..n : ty[k] = 8})
  <2>1. IsFiniteSet(i..n)
      BY <1>1, <1>2, FS_Interval
  <2> QED
      BY <2>1, FS_Subset, Zenon
<1>6. TextsIn(tx, i, n + 1) = TextsIn(ty, i, n) + IF Kept(x) THEN 1 ELSE 0
  <2> DEFINE S == {k \in i..n : Kept(ty[k])}
  <2>1. {k \in i..(n + 1) : Kept(tx[k])} = IF Kept(x) THEN S \cup {n + 1} ELSE S
      BY <1>1, <1>4
  <2>2. n + 1 \notin S
      BY <1>4
  <2> HIDE DEF S
  <2>3. Cardinality(S \cup {n + 1}) = Cardinality(S) + 1
      BY <1>5, <2>2, FS_AddElement, Zenon DEF S
  <2>4. Cardinality(S) \in Nat
      BY <1>5, FS_CardinalityType DEF S
  <2>5. TextsIn(tx, i, n + 1) = IF Kept(x) THEN Cardinality(S) + 1 ELSE Cardinality(S)
      BY <2>1, <2>3, Zenon DEF TextsIn
  <2> QED
      BY <2>4, <2>5 DEF TextsIn, S
<1>7. BackspacesIn(tx, i, n + 1) = BackspacesIn(ty, i, n) + IF x = 8 THEN 1 ELSE 0
  <2> DEFINE S == {k \in i..n : ty[k] = 8}
  <2>1. {k \in i..(n + 1) : tx[k] = 8} = IF x = 8 THEN S \cup {n + 1} ELSE S
      BY <1>1, <1>4
  <2>2. n + 1 \notin S
      BY <1>4
  <2> HIDE DEF S
  <2>3. Cardinality(S \cup {n + 1}) = Cardinality(S) + 1
      BY <1>5, <2>2, FS_AddElement, Zenon DEF S
  <2>4. Cardinality(S) \in Nat
      BY <1>5, FS_CardinalityType DEF S
  <2>5. BackspacesIn(tx, i, n + 1) = IF x = 8 THEN Cardinality(S) + 1 ELSE Cardinality(S)
      BY <2>1, <2>3, Zenon DEF BackspacesIn
  <2> QED
      BY <2>4, <2>5 DEF BackspacesIn, S
<1> QED
    BY <1>3, <1>6, <1>7 DEF tx, n

LEMMA EightIsNoText == ~Kept(8)
    BY DEF Kept, Printable

\* The three arms of the match.
LEMMA EditedIs ==
    ASSUME NEW l, NEW x
    PROVE  /\ Kept(x) => Edited(l, x) = Append(l, x)
           /\ x = 8 => Edited(l, x) = IF l = <<>> THEN l ELSE SubSeq(l, 1, Len(l) - 1)
           /\ ~Kept(x) /\ x # 8 => Edited(l, x) = l
<1>1. CASE x = 10
  <2>1. Edited(l, x) = Append(l, x) /\ Kept(x)
      BY <1>1 DEF Edited, Kept
  <2> QED
      BY <1>1, <2>1
<1>2. CASE x = 8
  <2>1. Edited(l, x) = IF l = <<>> THEN l ELSE SubSeq(l, 1, Len(l) - 1)
    <3>1. x # 10 /\ ~Printable(x)
        BY <1>2 DEF Printable
    <3> QED
        BY <1>2, <3>1 DEF Edited
  <2> QED
      BY <1>2, <2>1, EightIsNoText
<1>3. CASE x # 10 /\ x # 8
    BY <1>3 DEF Edited, Kept
<1> QED
    BY <1>1, <1>2, <1>3

LEMMA SurvivesNext ==
    ASSUME NEW A, NEW ty \in Seq(A), NEW x
    PROVE  LET tx == Append(ty, x)
               n  == Len(ty)
           IN  /\ Len(tx) = n + 1 /\ n \in Nat /\ tx[n + 1] = x /\ \A i \in 1..n : tx[i] = ty[i]
               /\ \A i \in 1..n :
                     /\ Left(ty, i) \in Int
                     /\ Left(tx, i) = Left(ty, i) + IF Kept(x) THEN 1 ELSE IF x = 8 THEN -1 ELSE 0
                     /\ SurvivesIn(tx, i) <=> SurvivesIn(ty, i) /\ Left(tx, i) >= 1
                     /\ SurvivesIn(ty, i) => Left(ty, i) >= 1
               /\ SurvivesIn(tx, n + 1) <=> Kept(x)
               /\ Kept(x) => Left(tx, n + 1) = 1
<1> DEFINE tx == Append(ty, x)
           n  == Len(ty)
<1>1. Len(tx) = n + 1 /\ n \in Nat /\ tx[n + 1] = x /\ \A k \in 1..n : tx[k] = ty[k]
    OBVIOUS
<1>2. ~(Kept(x) /\ x = 8)
    BY EightIsNoText
<1>3. ASSUME NEW i \in 1..(n + 1)
      PROVE  /\ \A j \in i..n : /\ TextsIn(tx, i, j) = TextsIn(ty, i, j)
                                /\ BackspacesIn(tx, i, j) = BackspacesIn(ty, i, j)
             /\ TextsIn(tx, i, n + 1) = TextsIn(ty, i, n) + IF Kept(x) THEN 1 ELSE 0
             /\ BackspacesIn(tx, i, n + 1) = BackspacesIn(ty, i, n) + IF x = 8 THEN 1 ELSE 0
             /\ TextsIn(ty, i, n) \in Nat /\ BackspacesIn(ty, i, n) \in Nat
  <2>1. TextsIn(ty, i, n) \in Nat /\ BackspacesIn(ty, i, n) \in Nat
      BY <1>1, CountType
  <2>2. /\ \A j \in i..n : /\ TextsIn(tx, i, j) = TextsIn(ty, i, j)
                           /\ BackspacesIn(tx, i, j) = BackspacesIn(ty, i, j)
        /\ TextsIn(tx, i, n + 1) = TextsIn(ty, i, n) + IF Kept(x) THEN 1 ELSE 0
        /\ BackspacesIn(tx, i, n + 1) = BackspacesIn(ty, i, n) + IF x = 8 THEN 1 ELSE 0
      BY CountNext, Zenon
  <2> QED
      BY <2>1, <2>2
<1> HIDE DEF tx, n
<1>4. ASSUME NEW i \in 1..n
      PROVE  /\ Left(ty, i) \in Int
             /\ Left(tx, i) = Left(ty, i) + IF Kept(x) THEN 1 ELSE IF x = 8 THEN -1 ELSE 0
             /\ SurvivesIn(tx, i) <=> SurvivesIn(ty, i) /\ Left(tx, i) >= 1
             /\ SurvivesIn(ty, i) => Left(ty, i) >= 1
  <2>1. i \in 1..(n + 1) /\ n \in i..n /\ i \in Nat
      BY <1>1
  <2>2. /\ \A j \in i..n : /\ TextsIn(tx, i, j) = TextsIn(ty, i, j)
                           /\ BackspacesIn(tx, i, j) = BackspacesIn(ty, i, j)
        /\ TextsIn(tx, i, n + 1) = TextsIn(ty, i, n) + IF Kept(x) THEN 1 ELSE 0
        /\ BackspacesIn(tx, i, n + 1) = BackspacesIn(ty, i, n) + IF x = 8 THEN 1 ELSE 0
        /\ TextsIn(ty, i, n) \in Nat /\ BackspacesIn(ty, i, n) \in Nat
      BY <1>3, <2>1
  <2>3. /\ Left(ty, i) = TextsIn(ty, i, n) - BackspacesIn(ty, i, n)
        /\ Left(tx, i) = TextsIn(tx, i, n + 1) - BackspacesIn(tx, i, n + 1)
      BY <1>1 DEF Left, n
  <2>4. \A j : j \in i..(n + 1) <=> j \in i..n \/ j = n + 1
      BY <1>1, <2>1
  <2>5. BackspacesIn(tx, i, n + 1) < TextsIn(tx, i, n + 1) <=> Left(tx, i) >= 1
      BY <2>2, <2>3
  <2>6. SurvivesIn(tx, i) <=> SurvivesIn(ty, i) /\ Left(tx, i) >= 1
    <3>1. SurvivesIn(tx, i) <=> /\ Kept(tx[i])
                                /\ \A j \in i..(n + 1) : BackspacesIn(tx, i, j) < TextsIn(tx, i, j)
        BY <1>1 DEF SurvivesIn
    <3>2. SurvivesIn(ty, i) <=> /\ Kept(ty[i])
                                /\ \A j \in i..n : BackspacesIn(ty, i, j) < TextsIn(ty, i, j)
        BY DEF SurvivesIn, n
    <3> QED
        BY <1>1, <2>2, <2>4, <2>5, <3>1, <3>2
  <2>7. SurvivesIn(ty, i) => BackspacesIn(ty, i, n) < TextsIn(ty, i, n)
      BY <2>1 DEF SurvivesIn, n
  <2> QED
      BY <1>2, <2>2, <2>3, <2>6, <2>7
<1>5. /\ SurvivesIn(tx, n + 1) <=> Kept(x)
      /\ Kept(x) => Left(tx, n + 1) = 1
  <2>1. TextsIn(ty, n + 1, n) = 0 /\ BackspacesIn(ty, n + 1, n) = 0
    <3>1. (n + 1)..n = {}
        BY <1>1
    <3>2. {k \in (n + 1)..n : Kept(ty[k])} = {} /\ {k \in (n + 1)..n : ty[k] = 8} = {}
        BY <3>1
    <3> QED
        BY <3>2, FS_EmptySet DEF TextsIn, BackspacesIn
  <2>2. /\ TextsIn(tx, n + 1, n + 1) = IF Kept(x) THEN 1 ELSE 0
        /\ BackspacesIn(tx, n + 1, n + 1) = IF x = 8 THEN 1 ELSE 0
    <3>1. n + 1 \in 1..(n + 1)
        BY <1>1
    <3> QED
        BY <1>3, <2>1, <3>1
  <2>3. \A j : j \in (n + 1)..(n + 1) <=> j = n + 1
      BY <1>1
  <2>4. SurvivesIn(tx, n + 1) <=> Kept(x)
      BY <1>1, <1>2, <2>2, <2>3 DEF SurvivesIn
  <2> QED
      BY <1>1, <1>2, <2>2, <2>4 DEF Left
<1> QED
    BY <1>1, <1>4, <1>5 DEF tx, n

\* The match of TtyStdin::read_at does to the line what the byte means.
LEMMA EditsNext ==
    ASSUME NEW l, NEW ty, Edits(l, ty), NEW x
    PROVE  Edits(Edited(l, x), Append(ty, x))
<1>1. PICK A, B : l \in Seq(A) /\ ty \in Seq(B)
    BY DEF Edits
<1> DEFINE tx == Append(ty, x)
           n  == Len(ty)
           k  == Len(l)
<1>2. /\ Len(tx) = n + 1 /\ n \in Nat /\ tx[n + 1] = x /\ \A i \in 1..n : tx[i] = ty[i]
      /\ \A i \in 1..n :
            /\ Left(ty, i) \in Int
            /\ Left(tx, i) = Left(ty, i) + IF Kept(x) THEN 1 ELSE IF x = 8 THEN -1 ELSE 0
            /\ SurvivesIn(tx, i) <=> SurvivesIn(ty, i) /\ Left(tx, i) >= 1
            /\ SurvivesIn(ty, i) => Left(ty, i) >= 1
      /\ SurvivesIn(tx, n + 1) <=> Kept(x)
      /\ Kept(x) => Left(tx, n + 1) = 1
    BY <1>1, SurvivesNext
<1>3. /\ k \in Nat
      /\ \A i \in 1..n : SurvivesIn(ty, i) =>
            Left(ty, i) \in 1..k /\ l[k + 1 - Left(ty, i)] = ty[i]
      /\ \A i, j \in 1..n :
            SurvivesIn(ty, i) /\ SurvivesIn(ty, j) /\ i < j => Left(ty, j) < Left(ty, i)
      /\ \A d \in 1..k : \E i \in 1..n : SurvivesIn(ty, i) /\ Left(ty, i) = d
    BY <1>1 DEF Edits
<1>4. \E C : tx \in Seq(C)
  <2>1. ty \in Seq(B \cup {x})
      BY <1>1
  <2>2. tx \in Seq(B \cup {x})
      BY <2>1
  <2> QED
      BY <2>2
<1>5. /\ \A i : i \in 1..(n + 1) <=> i \in 1..n \/ i = n + 1
      /\ \A i, j \in 1..(n + 1) : i < j => i \in 1..n
    BY <1>2
<1>6. ~(Kept(x) /\ x = 8) /\ k \in Nat
    BY <1>3, EightIsNoText
<1>7. CASE Kept(x)
  <2> DEFINE m == Edited(l, x)
  <2>1. m = Append(l, x)
      BY <1>7, EditedIs
  <2>2. m \in Seq(A \cup {x}) /\ Len(m) = k + 1 /\ m[k + 1] = x /\ \A i \in 1..k : m[i] = l[i]
    <3>1. l \in Seq(A \cup {x})
        BY <1>1
    <3> QED
        BY <2>1, <3>1
  <2> HIDE DEF m, tx, n, k
  <2>3. \A i \in 1..n : Left(tx, i) = Left(ty, i) + 1 /\ (SurvivesIn(tx, i) <=> SurvivesIn(ty, i))
      BY <1>2, <1>7
  <2>4. ASSUME NEW i \in 1..(n + 1), SurvivesIn(tx, i)
        PROVE  Left(tx, i) \in 1..(k + 1) /\ m[k + 2 - Left(tx, i)] = tx[i]
    <3>1. CASE i \in 1..n
      <4>1. /\ Left(ty, i) \in 1..k /\ l[k + 1 - Left(ty, i)] = ty[i]
            /\ Left(tx, i) = Left(ty, i) + 1 /\ tx[i] = ty[i]
          BY <1>2, <1>3, <2>3, <2>4, <3>1, Zenon
      <4>2. k + 2 - Left(tx, i) = k + 1 - Left(ty, i) /\ k + 1 - Left(ty, i) \in 1..k
          BY <1>3, <4>1
      <4>3. m[k + 1 - Left(ty, i)] = l[k + 1 - Left(ty, i)]
          BY <2>2, <4>2
      <4>4. Left(tx, i) \in 1..(k + 1)
          BY <1>6, <4>1
      <4> QED
          BY <4>1, <4>2, <4>3, <4>4
    <3>2. CASE i = n + 1
      <4>1. Left(tx, i) = 1 /\ k + 2 - 1 = k + 1 /\ tx[i] = x
          BY <1>2, <1>3, <1>7, <3>2
      <4> QED
          BY <1>3, <2>2, <4>1
    <3> QED
        BY <1>5, <3>1, <3>2
  <2>5. ASSUME NEW i \in 1..(n + 1), NEW j \in 1..(n + 1), SurvivesIn(tx, i), SurvivesIn(tx, j), i < j
        PROVE  Left(tx, j) < Left(tx, i)
    <3>1. i \in 1..n /\ Left(tx, i) = Left(ty, i) + 1 /\ SurvivesIn(ty, i) /\ Left(ty, i) \in 1..k
        BY <1>3, <1>5, <2>3, <2>5
    <3>2. CASE j \in 1..n
      <4>1. Left(tx, j) = Left(ty, j) + 1 /\ SurvivesIn(ty, j) /\ Left(ty, j) \in 1..k
          BY <1>3, <2>3, <2>5, <3>2
      <4>2. Left(ty, j) < Left(ty, i)
          BY <1>3, <2>5, <3>1, <3>2, <4>1
      <4> QED
          BY <1>3, <3>1, <4>1, <4>2
    <3>3. CASE j = n + 1
        BY <1>2, <1>3, <1>7, <3>1, <3>3
    <3> QED
        BY <1>5, <3>2, <3>3
  <2>6. ASSUME NEW d \in 1..(k + 1) PROVE \E i \in 1..(n + 1) : SurvivesIn(tx, i) /\ Left(tx, i) = d
    <3>1. CASE d = 1
      <4>1. n + 1 \in 1..(n + 1)
          BY <1>2
      <4> QED
          BY <1>2, <1>7, <3>1, <4>1
    <3>2. CASE d # 1
      <4>1. d - 1 \in 1..k /\ (d - 1) + 1 = d
          BY <1>3, <3>2
      <4>2. PICK i \in 1..n : SurvivesIn(ty, i) /\ Left(ty, i) = d - 1
          BY <1>3, <4>1
      <4> QED
          BY <1>5, <2>3, <4>1, <4>2
    <3> QED
        BY <3>1, <3>2
  <2>7. Len(m) + 1 = k + 2
      BY <1>3, <2>2
  <2>8. Len(tx) = n + 1 /\ Len(m) = k + 1
      BY <1>2, <2>2
  <2>9. ASSUME NEW i \in 1..Len(tx), SurvivesIn(tx, i)
        PROVE  Left(tx, i) \in 1..Len(m) /\ m[Len(m) + 1 - Left(tx, i)] = tx[i]
    <3>1. Left(tx, i) \in 1..(k + 1) /\ m[k + 2 - Left(tx, i)] = tx[i]
        BY <2>4, <2>8, <2>9
    <3>2. Len(m) + 1 - Left(tx, i) = k + 2 - Left(tx, i)
        BY <1>6, <2>7, <3>1
    <3> QED
        BY <2>8, <3>1, <3>2
  <2>10. Edits(m, tx)
      BY <1>4, <2>2, <2>5, <2>6, <2>8, <2>9 DEF Edits
  <2> QED
      BY <2>10 DEF m, tx
<1>8. CASE ~Kept(x) /\ x # 8
  <2>1. Edited(l, x) = l
      BY <1>8, EditedIs
  <2> HIDE DEF tx, n, k
  <2>2. \A i \in 1..n : Left(tx, i) = Left(ty, i) /\ (SurvivesIn(tx, i) <=> SurvivesIn(ty, i))
      BY <1>2, <1>8
  <2>3. \A i \in 1..(n + 1) : SurvivesIn(tx, i) => i \in 1..n
      BY <1>2, <1>5, <1>8
  <2>4. Edits(l, tx)
    <3>1. ASSUME NEW i \in 1..(n + 1), SurvivesIn(tx, i)
          PROVE  Left(tx, i) \in 1..k /\ l[k + 1 - Left(tx, i)] = tx[i]
        BY <1>2, <1>3, <2>2, <2>3, <3>1, Zenon
    <3>2. ASSUME NEW i \in 1..(n + 1), NEW j \in 1..(n + 1), SurvivesIn(tx, i), SurvivesIn(tx, j), i < j
          PROVE  Left(tx, j) < Left(tx, i)
        BY <1>3, <2>2, <2>3, <3>2
    <3>3. ASSUME NEW d \in 1..k PROVE \E i \in 1..(n + 1) : SurvivesIn(tx, i) /\ Left(tx, i) = d
        BY <1>3, <1>5, <2>2, Zenon
    <3> QED
        BY <1>1, <1>2, <1>4, <3>1, <3>2, <3>3 DEF Edits, k
  <2> QED
      BY <2>1, <2>4 DEF tx
<1>9. CASE x = 8
  <2> DEFINE m == Edited(l, x)
  <2>1. m = IF l = <<>> THEN l ELSE SubSeq(l, 1, k - 1)
      BY <1>9, EditedIs
  <2>2. m \in Seq(A) /\ Len(m) = (IF k = 0 THEN 0 ELSE k - 1) /\ \A i \in 1..(k - 1) : m[i] = l[i]
    <3>1. CASE l = <<>>
        BY <1>1, <2>1, <3>1
    <3>2. CASE l # <<>>
      <4>1. m = SubSeq(l, 1, k - 1) /\ k \in Nat /\ k # 0
          BY <1>1, <2>1, <3>2
      <4> HIDE DEF k
      <4>2. SubSeq(l, 1, k - 1) = [i \in 1..(k - 1) |-> l[i]]
          BY <4>1
      <4>3. k - 1 \in Nat /\ \A i \in 1..(k - 1) : l[i] \in A
          BY <1>1, <4>1 DEF k
      <4>4. [i \in 1..(k - 1) |-> l[i]] \in Seq(A) /\ Len([i \in 1..(k - 1) |-> l[i]]) = k - 1
          BY <4>3
      <4> QED
          BY <4>1, <4>2, <4>4
    <3> QED
        BY <3>1, <3>2
  <2> HIDE DEF m, tx, n, k
  <2>3. /\ \A i \in 1..n : /\ Left(tx, i) = Left(ty, i) - 1
                           /\ SurvivesIn(tx, i) <=> SurvivesIn(ty, i) /\ Left(ty, i) >= 2
        /\ \A i \in 1..(n + 1) : SurvivesIn(tx, i) => i \in 1..n
      BY <1>2, <1>5, <1>6, <1>9
  <2>4. ASSUME NEW i \in 1..(n + 1), SurvivesIn(tx, i)
        PROVE  Left(tx, i) \in 1..(k - 1) /\ k # 0 /\ m[k - Left(tx, i)] = tx[i]
    <3>1. /\ Left(ty, i) \in 2..k /\ l[k + 1 - Left(ty, i)] = ty[i] /\ i \in 1..n
          /\ Left(tx, i) = Left(ty, i) - 1 /\ tx[i] = ty[i]
      <4>1. i \in 1..n
          BY <2>3, <2>4
      <4>2. SurvivesIn(ty, i) /\ Left(ty, i) >= 2 /\ Left(tx, i) = Left(ty, i) - 1
          BY <2>3, <2>4, <4>1
      <4>3. Left(ty, i) \in 1..k /\ l[k + 1 - Left(ty, i)] = ty[i]
          BY <1>3, <4>1, <4>2
      <4>4. tx[i] = ty[i]
          BY <1>2, <4>1
      <4> QED
          BY <1>6, <4>1, <4>2, <4>3, <4>4
    <3>2. k - Left(tx, i) = k + 1 - Left(ty, i) /\ k + 1 - Left(ty, i) \in 1..(k - 1)
      <4>1. k \in Nat
          BY <1>3
      <4>2. ASSUME NEW d \in 1..k, d >= 2
            PROVE  k - (d - 1) = k + 1 - d /\ k + 1 - d \in 1..(k - 1)
          BY <4>1, <4>2
      <4> QED
          BY <3>1, <4>2
    <3>3. m[k + 1 - Left(ty, i)] = l[k + 1 - Left(ty, i)]
        BY <2>2, <3>2
    <3>4. Left(tx, i) \in 1..(k - 1) /\ k # 0
      <4>1. k \in Nat
          BY <1>3
      <4>2. ASSUME NEW d \in 2..k PROVE d - 1 \in 1..(k - 1) /\ k # 0
          BY <4>1
      <4> QED
          BY <3>1, <4>2
    <3> QED
        BY <3>1, <3>2, <3>3, <3>4
  <2>5. ASSUME NEW i \in 1..(n + 1), NEW j \in 1..(n + 1), SurvivesIn(tx, i), SurvivesIn(tx, j), i < j
        PROVE  Left(tx, j) < Left(tx, i)
    <3>1. /\ i \in 1..n /\ Left(tx, i) = Left(ty, i) - 1 /\ SurvivesIn(ty, i) /\ Left(ty, i) \in Int
          /\ j \in 1..n /\ Left(tx, j) = Left(ty, j) - 1 /\ SurvivesIn(ty, j) /\ Left(ty, j) \in Int
        BY <1>2, <2>3, <2>5
    <3>2. Left(ty, j) < Left(ty, i)
        BY <1>3, <2>5, <3>1
    <3> QED
        BY <3>1, <3>2
  <2>6. ASSUME NEW d \in 1..(k - 1) PROVE \E i \in 1..(n + 1) : SurvivesIn(tx, i) /\ Left(tx, i) = d
    <3>1. d + 1 \in 1..k /\ d + 1 >= 2 /\ (d + 1) - 1 = d
        BY <1>3
    <3>2. PICK i \in 1..n : SurvivesIn(ty, i) /\ Left(ty, i) = d + 1
        BY <1>3, <3>1
    <3> QED
        BY <1>5, <2>3, <3>1, <3>2
  <2>7. (k # 0 => Len(m) = k - 1 /\ Len(m) + 1 = k) /\ (k = 0 => Len(m) = 0)
      BY <1>3, <2>2
  <2>8. \A d \in 1..Len(m) : d \in 1..(k - 1)
      BY <1>3, <2>7
  <2>9. ASSUME NEW i \in 1..Len(tx), SurvivesIn(tx, i)
        PROVE  Left(tx, i) \in 1..Len(m) /\ m[Len(m) + 1 - Left(tx, i)] = tx[i]
      BY <1>2, <2>4, <2>7, <2>9
  <2>10. Edits(m, tx)
      BY <1>2, <1>4, <2>2, <2>5, <2>6, <2>8, <2>9 DEF Edits
  <2> QED
      BY <2>10 DEF m, tx
<1> QED
    BY <1>7, <1>8, <1>9

\* While a read is under way its buffer has room; it stops at the end of the line
\* or when it is full.
Room(l, r) ==
    /\ r => Len(l) < LineSize
    /\ ~r /\ l # <<>> => l[Len(l)] = 10 \/ Len(l) = LineSize

LineInv(l, ty, r) == Edits(l, ty) /\ Room(l, r)

LEMMA EditsEmpty == Edits(<<>>, <<>>)
<1>1. <<>> \in Seq({}) /\ Len(<<>>) = 0 /\ 1..0 = {}
    OBVIOUS
<1> QED
    BY <1>1 DEF Edits

LEMMA RoomNext ==
    ASSUME LineSize \in Nat \ {0}, NEW l, NEW A, l \in Seq(A), NEW x, Len(l) < LineSize
    PROVE  Room(Edited(l, x), x # 10 /\ Len(Edited(l, x)) < LineSize)
<1>1. Len(l) \in Nat
    OBVIOUS
<1>2. CASE Kept(x)
  <2> DEFINE m == Append(l, x)
  <2>1. Len(m) = Len(l) + 1 /\ m[Len(m)] = x
      BY <1>1
  <2> HIDE DEF m
  <2>2. Len(m) < LineSize \/ Len(m) = LineSize
      BY <1>1, <2>1
  <2>3. Edited(l, x) = m
      BY <1>2, EditedIs DEF m
  <2> QED
      BY <2>1, <2>2, <2>3 DEF Room
<1>3. CASE ~Kept(x)
  <2> DEFINE m == Edited(l, x)
  <2>1. x # 10
      BY <1>3 DEF Kept
  <2>2. m = l \/ m = SubSeq(l, 1, Len(l) - 1)
      BY <1>3, EditedIs
  <2>3. Len(SubSeq(l, 1, Len(l) - 1)) < LineSize
      BY <1>1
  <2> HIDE DEF m
  <2>4. Len(m) < LineSize
      BY <2>2, <2>3
  <2>5. Room(m, x # 10 /\ Len(m) < LineSize)
      BY <2>1, <2>4 DEF Room
  <2> QED
      BY <2>5 DEF m
<1> QED
    BY <1>2, <1>3

LEMMA NextLine ==
    ASSUME LineSize \in Nat \ {0}, LineInv(line, typed, reading), [KbdNext]_kbdVars
    PROVE  LineInv(line', typed', reading')
<1>1. CASE Read
  <2>1. line' = <<>> /\ typed' = <<>> /\ reading' = TRUE
      BY <1>1 DEF Read
  <2>2. Room(<<>>, TRUE)
      BY DEF Room
  <2> QED
      BY <2>1, <2>2, EditsEmpty, Zenon DEF LineInv
<1>2. ASSUME NEW c, PollEventByte(c) PROVE UNCHANGED <<line, typed, reading>>
    BY <1>2 DEF PollEventByte
<1>3. ASSUME NEW c, ReadByte(c) PROVE LineInv(line', typed', reading')
  <2>1. CASE UNCHANGED <<reading, line, typed>>
      BY <2>1
  <2>2. CASE ~UNCHANGED <<reading, line, typed>>
    <3> DEFINE b == Peek(Polled(c).t).b
    <3>1. /\ reading /\ line' = Edited(line, b) /\ typed' = Append(typed, b)
          /\ reading' = (b # 10 /\ Len(line') < LineSize)
        BY <1>3, <2>2, Zenon DEF ReadByte
    <3> HIDE DEF b
    <3>2. Edits(line', typed')
        BY <3>1, EditsNext DEF LineInv
    <3>3. PICK A : line \in Seq(A)
        BY DEF LineInv, Edits
    <3>4. Len(line) < LineSize
        BY <3>1 DEF LineInv, Room
    <3>5. Room(Edited(line, b), b # 10 /\ Len(Edited(line, b)) < LineSize)
        BY <3>3, <3>4, RoomNext, Zenon
    <3>6. Room(line', reading')
        BY <3>1, <3>5, Zenon
    <3> QED
        BY <3>2, <3>6 DEF LineInv
  <2> QED
      BY <2>1, <2>2
<1>4. CASE UNCHANGED kbdVars
    BY <1>4 DEF kbdVars
<1> QED
    BY <1>1, <1>2, <1>3, <1>4 DEF KbdNext

LEMMA LineInvEdited == LineInv(line, typed, reading) => LineAsEdited
<1> SUFFICES ASSUME LineInv(line, typed, reading) PROVE LineAsEdited
    OBVIOUS
<1> DEFINE n == Len(typed)
           k == Len(line)
           Is(i, d) == SurvivesIn(typed, i) /\ Left(typed, i) = d
           left == [p \in 1..k |-> CHOOSE i \in 1..n : Is(i, k + 1 - p)]
<1>1. PICK A, B : line \in Seq(A) /\ typed \in Seq(B)
    BY DEF LineInv, Edits
<1>2. n \in Nat /\ k \in Nat
    BY <1>1
<1>3. \A i \in 1..n : Survives(i) <=> SurvivesIn(typed, i)
  <2>1. \A i, j : Texts(i, j) = TextsIn(typed, i, j)
      BY Zenon DEF Texts, TextsIn
  <2>2. \A i, j : Backspaces(i, j) = BackspacesIn(typed, i, j)
      BY Zenon DEF Backspaces, BackspacesIn
  <2> QED
      BY <2>1, <2>2 DEF Survives, SurvivesIn
<1>4. /\ \A i \in 1..n : SurvivesIn(typed, i) =>
            Left(typed, i) \in 1..k /\ line[k + 1 - Left(typed, i)] = typed[i]
      /\ \A i, j \in 1..n :
            SurvivesIn(typed, i) /\ SurvivesIn(typed, j) /\ i < j => Left(typed, j) < Left(typed, i)
      /\ \A d \in 1..k : \E i \in 1..n : SurvivesIn(typed, i) /\ Left(typed, i) = d
    BY DEF LineInv, Edits
<1> HIDE DEF n, k
<1>5. ASSUME NEW p \in 1..k
      PROVE  left[p] \in 1..n /\ SurvivesIn(typed, left[p]) /\ Left(typed, left[p]) = k + 1 - p
  <2>1. k + 1 - p \in 1..k
      BY <1>2
  <2>2. \E i \in 1..n : Is(i, k + 1 - p)
      BY <1>4, <2>1
  <2>3. left[p] = CHOOSE i \in 1..n : Is(i, k + 1 - p)
      OBVIOUS
  <2> HIDE DEF Is
  <2>4. left[p] \in 1..n /\ Is(left[p], k + 1 - p)
      BY <2>2, <2>3, Zenon
  <2> QED
      BY <2>4 DEF Is
<1>6. DOMAIN left = 1..k /\ left \in [1..k -> 1..n]
  <2>1. \A p \in 1..k : left[p] \in 1..n
      BY <1>5
  <2> QED
      BY <2>1
<1> HIDE DEF left
<1>7. ASSUME NEW p \in 1..k, NEW q \in 1..k, p < q PROVE left[p] < left[q]
  <2>1. Left(typed, left[q]) < Left(typed, left[p])
      BY <1>2, <1>5, <1>7
  <2>2. left[p] # left[q] /\ ~(left[q] < left[p])
    <3>1. left[q] < left[p] => Left(typed, left[p]) < Left(typed, left[q])
        BY <1>4, <1>5
    <3> QED
        BY <1>2, <1>5, <2>1, <3>1
  <2>3. left[p] \in Nat /\ left[q] \in Nat
      BY <1>2, <1>5
  <2> QED
      BY <2>2, <2>3
<1>8. ASSUME NEW p \in 1..k PROVE line[p] = typed[left[p]]
  <2>1. k + 1 - (k + 1 - p) = p
      BY <1>2
  <2>2. line[k + 1 - Left(typed, left[p])] = typed[left[p]]
      BY <1>4, <1>5
  <2> QED
      BY <1>5, <2>1, <2>2
<1>9. {left[p] : p \in 1..k} = {i \in 1..n : Survives(i)}
  <2>1. ASSUME NEW i \in 1..n, SurvivesIn(typed, i) PROVE \E p \in 1..k : left[p] = i
    <3> DEFINE p == k + 1 - Left(typed, i)
    <3>1. Left(typed, i) \in 1..k
        BY <1>4, <2>1
    <3>2. p \in 1..k /\ k + 1 - p = Left(typed, i)
        BY <1>2, <3>1
    <3> HIDE DEF p
    <3>3. left[p] \in 1..n /\ SurvivesIn(typed, left[p]) /\ Left(typed, left[p]) = Left(typed, i)
        BY <1>5, <3>2
    <3>4. ~(left[p] < i) /\ ~(i < left[p])
      <4>1. /\ left[p] < i => Left(typed, i) < Left(typed, left[p])
            /\ i < left[p] => Left(typed, left[p]) < Left(typed, i)
          BY <1>4, <2>1, <3>3
      <4> QED
          BY <1>2, <3>1, <3>3, <4>1
    <3>5. left[p] = i
        BY <1>2, <3>3, <3>4
    <3> QED
        BY <3>2, <3>5
  <2> QED
      BY <1>3, <1>5, <2>1
<1>10. Room(line, reading)
    BY DEF LineInv
<1> QED
    BY <1>6, <1>7, <1>8, <1>9, <1>10 DEF LineAsEdited, Room, n, k

\* The line that a read of the terminal returns is what was typed since it began,
\* without the keys that are not text and with every backspace done, for buffers
\* of every size and however long the user types.
THEOREM LineAsEditedHolds == LineSize \in Nat \ {0} => (KbdSpec => []LineAsEdited)
<1> SUFFICES ASSUME LineSize \in Nat \ {0} PROVE KbdSpec => []LineAsEdited
    OBVIOUS
<1> DEFINE Inv == LineInv(line, typed, reading)
<1>1. KbdInit => Inv
  <2>1. KbdInit => line = <<>> /\ typed = <<>> /\ Room(<<>>, reading)
      BY DEF KbdInit, Room
  <2> QED
      BY <2>1, EditsEmpty DEF LineInv
<1>2. Inv /\ [KbdNext]_kbdVars => Inv'
  <2>1. Inv' <=> LineInv(line', typed', reading')
      BY Zenon DEF LineInv, Edits, Room, SurvivesIn, Left, TextsIn, BackspacesIn, Kept, Printable
  <2> QED
      BY <2>1, NextLine
<1>3. Inv => LineAsEdited
    BY LineInvEdited
<1> HIDE DEF Inv
<1> QED
    BY <1>1, <1>2, <1>3, PTL DEF KbdSpec

----------------------------------------------------------------------------
(* The types of the keyboard *)

\* Keys of all kinds leave the keyboard's flags flags.
LEMMA DecodeType ==
    ASSUME NEW k \in [shift : BOOLEAN, caps : BOOLEAN, extended : BOOLEAN], NEW c
    PROVE  Decode(k, c).k \in [shift : BOOLEAN, caps : BOOLEAN, extended : BOOLEAN]
<1> DEFINE K == [shift : BOOLEAN, caps : BOOLEAN, extended : BOOLEAN]
<1>1. /\ [k EXCEPT !.extended = TRUE] \in K /\ [k EXCEPT !.extended = FALSE] \in K
      /\ [k EXCEPT !.shift = ~(c >= 128)] \in K /\ [k EXCEPT !.caps = ~k.caps] \in K
    BY Zenon
<1>2. Decode(k, c).k \in {k, [k EXCEPT !.extended = TRUE], [k EXCEPT !.extended = FALSE],
                          [k EXCEPT !.shift = ~(c >= 128)], [k EXCEPT !.caps = ~k.caps]}
    BY Zenon DEF Decode
<1> QED
    BY <1>1, <1>2, Zenon

LEMMA PolledType ==
    ASSUME KbdSizes, KbdTypeOK, NEW c
    PROVE  /\ Polled(c).k \in [shift : BOOLEAN, caps : BOOLEAN, extended : BOOLEAN]
           /\ Polled(c).n \in 0..INPUT_QUEUE
<1>1. keyboard \in [shift : BOOLEAN, caps : BOOLEAN, extended : BOOLEAN] /\ presses \in 0..INPUT_QUEUE
    BY DEF KbdTypeOK
<1>2. Polled(c).k = keyboard \/ Polled(c).k = Decode(keyboard, c).k
    BY DEF Polled
<1>3. Polled(c).n = presses \/ Polled(c).n = (presses + 1) % (INPUT_QUEUE + 1)
    BY DEF Polled
<1>4. (presses + 1) % (INPUT_QUEUE + 1) \in 0..INPUT_QUEUE
  <2>1. \A m \in Nat, n \in Nat : (m + 1) % (n + 1) \in 0..n
      OBVIOUS
  <2>2. presses \in Nat /\ INPUT_QUEUE \in Nat
      BY <1>1 DEF KbdSizes
  <2> QED
      BY <2>1, <2>2, Zenon
<1>5. Polled(c).k \in [shift : BOOLEAN, caps : BOOLEAN, extended : BOOLEAN]
    BY <1>1, <1>2, DecodeType, Zenon
<1> QED
    BY <1>1, <1>3, <1>4, <1>5, Zenon

\* A byte that is taken makes the line longer by one at most.
LEMMA EditedLen ==
    ASSUME NEW A, NEW l \in Seq(A), NEW x
    PROVE  Len(Edited(l, x)) <= Len(l) + 1
<1>1. Len(l) \in Nat /\ Len(Append(l, x)) = Len(l) + 1
    OBVIOUS
<1>2. l # <<>> => Len(SubSeq(l, 1, Len(l) - 1)) <= Len(l)
    OBVIOUS
<1>3. \/ Edited(l, x) = l \/ Edited(l, x) = Append(l, x)
      \/ l # <<>> /\ Edited(l, x) = SubSeq(l, 1, Len(l) - 1)
    BY EditedIs, Zenon
<1>4. Len(l) <= Len(l) + 1 /\ Len(l) + 1 <= Len(l) + 1
    BY <1>1
<1>5. l # <<>> => Len(SubSeq(l, 1, Len(l) - 1)) <= Len(l) + 1
    BY <1>1, <1>2
<1> QED
    BY <1>1, <1>3, <1>4, <1>5, Zenon

KInv == Suffix(tty, events) /\ LineInv(line, typed, reading) /\ KbdTypeOK

LEMMA InitKInv == ASSUME KbdSizes, KbdInit PROVE KInv
<1>1. INPUT_QUEUE \in Nat \ {0} /\ LineSize \in Nat \ {0} /\ MaxTyped \in Nat
    BY DEF KbdSizes
<1>2. Suffix(tty, events)
    BY <1>1, InitSuffix
<1>3. LineInv(line, typed, reading)
  <2>1. line = <<>> /\ typed = <<>> /\ Room(<<>>, reading)
      BY DEF KbdInit, Room
  <2> QED
      BY <2>1, EditsEmpty DEF LineInv
<1>4. KbdTypeOK
  <2>1. \A q \in {tty, events} : q.head \in 0..(INPUT_QUEUE - 1) /\ q.len \in 0..INPUT_QUEUE
      BY <1>2 DEF Suffix, Queue, KeySlot
  <2>2. keyboard \in [shift : BOOLEAN, caps : BOOLEAN, extended : BOOLEAN] /\ reading \in BOOLEAN
      BY Zenon DEF KbdInit
  <2>3. presses \in 0..INPUT_QUEUE /\ Len(line) <= LineSize /\ Len(typed) <= MaxTyped
    <3>1. presses = 0 /\ line = <<>> /\ typed = <<>>
        BY DEF KbdInit
    <3> QED
        BY <1>1, <3>1
  <2> QED
      BY <2>1, <2>2, <2>3 DEF KbdTypeOK
<1> QED
    BY <1>2, <1>3, <1>4 DEF KInv

LEMMA NextKInv == ASSUME KbdSizes, KInv, [KbdNext]_kbdVars PROVE KInv'
<1>1. INPUT_QUEUE \in Nat \ {0} /\ LineSize \in Nat \ {0} /\ MaxTyped \in Nat
    BY DEF KbdSizes
<1>2. KbdTypeOK /\ Suffix(tty, events) /\ LineInv(line, typed, reading)
    BY DEF KInv
<1>3. Suffix(tty', events')
    BY <1>1, <1>2, NextSuffix
<1>4. LineInv(line', typed', reading')
    BY <1>1, <1>2, NextLine
<1>5. /\ keyboard' \in [shift : BOOLEAN, caps : BOOLEAN, extended : BOOLEAN]
      /\ presses' \in 0..INPUT_QUEUE
  <2>1. keyboard \in [shift : BOOLEAN, caps : BOOLEAN, extended : BOOLEAN] /\ presses \in 0..INPUT_QUEUE
      BY <1>2 DEF KbdTypeOK
  <2>2. \/ UNCHANGED <<keyboard, presses>>
        \/ \E c : keyboard' = Polled(c).k /\ presses' = Polled(c).n
      BY Zenon DEF KbdNext, Read, PollEventByte, ReadByte, kbdVars
  <2> QED
      BY <1>2, <2>1, <2>2, PolledType, Zenon
<1>6. reading' \in BOOLEAN /\ Len(line') <= LineSize /\ Len(typed') <= MaxTyped
  <2>1. reading \in BOOLEAN /\ Len(line) <= LineSize /\ Len(typed) <= MaxTyped
      BY <1>2 DEF KbdTypeOK
  <2>2. CASE UNCHANGED <<reading, line, typed>>
      BY <2>1, <2>2
  <2>3. CASE Read
    <3>1. reading' = TRUE /\ line' = <<>> /\ typed' = <<>>
        BY <2>3 DEF Read
    <3> QED
        BY <1>1, <3>1
  <2>4. ASSUME NEW c, ReadByte(c), ~UNCHANGED <<reading, line, typed>>
        PROVE  reading' \in BOOLEAN /\ Len(line') <= LineSize /\ Len(typed') <= MaxTyped
    <3> DEFINE b == Peek(Polled(c).t).b
    <3>1. /\ reading /\ line' = Edited(line, b) /\ typed' = Append(typed, b)
          /\ reading' = (b # 10 /\ Len(line') < LineSize) /\ Len(typed) < MaxTyped
        BY <2>4, Zenon DEF ReadByte
    <3> HIDE DEF b
    <3>2. PICK A, B : line \in Seq(A) /\ typed \in Seq(B)
        BY <1>2 DEF LineInv, Edits
    <3>3. Len(line) < LineSize /\ Len(line) \in Nat /\ Len(typed) \in Nat
        BY <1>2, <3>1, <3>2 DEF LineInv, Room
    <3>4. Len(line') <= Len(line) + 1
        BY <3>1, <3>2, EditedLen, Zenon
    <3>5. Len(line') \in Nat
        BY <1>4 DEF LineInv, Edits
    <3>6. Len(typed') = Len(typed) + 1
        BY <3>1, <3>2
    <3>7. Len(line') <= LineSize /\ Len(typed') <= MaxTyped
        BY <1>1, <3>1, <3>3, <3>4, <3>5, <3>6
    <3>8. reading' \in BOOLEAN
        BY <3>1, Zenon
    <3> QED
        BY <3>7, <3>8
  <2>5. ASSUME NEW c, PollEventByte(c) PROVE UNCHANGED <<reading, line, typed>>
      BY <2>5 DEF PollEventByte
  <2>6. UNCHANGED kbdVars => UNCHANGED <<reading, line, typed>>
      BY DEF kbdVars
  <2> QED
      BY <2>2, <2>3, <2>4, <2>5, <2>6, Zenon DEF KbdNext
<1>7. \A q \in {tty', events'} : q.head \in 0..(INPUT_QUEUE - 1) /\ q.len \in 0..INPUT_QUEUE
    BY <1>3 DEF Suffix, Queue, KeySlot
<1>8. KbdTypeOK'
    BY <1>5, <1>6, <1>7 DEF KbdTypeOK
<1>9. Suffix(tty, events)' /\ LineInv(line, typed, reading)'
    BY <1>3, <1>4 DEF Suffix, Queue, KeySlot, At, Pos, LineInv, Edits, Room, SurvivesIn, Left,
                      TextsIn, BackspacesIn, Kept, Printable
<1> QED
    BY <1>8, <1>9 DEF KInv

\* The keyboard's flags, both queues and the line of a read keep their shape
\* (KbdTypeOK): indexes stay within the queues and the line within its buffer,
\* whatever is typed, for queues and lines of every size.
THEOREM KbdTypes == KbdSizes => (KbdSpec => []KbdTypeOK)
<1> SUFFICES ASSUME KbdSizes PROVE KbdSpec => []KbdTypeOK
    OBVIOUS
<1>1. KbdInit => KInv
    BY InitKInv
<1>2. KInv /\ [KbdNext]_kbdVars => KInv'
    BY NextKInv
<1>3. KInv => KbdTypeOK
    BY DEF KInv
<1> QED
    BY <1>1, <1>2, <1>3, PTL DEF KbdSpec

=============================================================================
