-------------------------- MODULE SnapshotProofs --------------------------
(***************************************************************************)
(* What a snapshot of a running microVM rests on.                          *)
(*                                                                         *)
(* Proofs about VcpuControl, for every number of vCPUs and of commands:    *)
(* unless a response times out, a VM that is reported Paused executes no   *)
(* guest code and a save succeeds only while every vCPU is paused.         *)
(*                                                                         *)
(* Responses carry no identity, so the argument is about which command the *)
(* next response in a channel answers.  A command that fails leaves        *)
(* responses unread, and a vCPU that exits adds one that nobody asked for; *)
(* but every vCPU up to the first one that has exited stays in step, and   *)
(* the response of that one makes every later command fail.                *)
(*                                                                         *)
(* Proofs about MemorySnapshot, for memory of any shape and any number of  *)
(* snapshots: the base and its diff files add up to the memory of the last *)
(* snapshot.  While dump_dirty writes a file, the pages behind the writer  *)
(* are in the file or unchanged since the last snapshot, and those ahead   *)
(* are marked in one of the two bitmaps or unchanged.                      *)
(***************************************************************************)
EXTENDS VcpuControl, MemorySnapshot, WellFoundedInduction, TLAPS

Answers == {"Resumed", "Paused", "SavedState", "RestoredState", "NotAllowed", "Error"}

\* Types, which vCPUs have an exit code, and that a pause or resume ends with
\* the first wrong response.
ControlType ==
    /\ st \in [Vcpus -> {"paused", "running", "interrupted", "exit", "exiting",
                         "exited", "finished"}]
    /\ code \in [Vcpus -> ExitCodes \cup {None}]
    /\ signal \in [Vcpus -> BOOLEAN] /\ immediate_exit \in [Vcpus -> BOOLEAN]
    /\ events \in [Vcpus -> Seq(Commands \cup {"Finish"})]
    /\ responses \in [Vcpus -> Seq(ExitCodes \cup Answers)]
    /\ pc \in {"idle", "send", "receive", "query", "finish", "join", "done"}
    /\ i \in Vcpus /\ bad \in BOOLEAN /\ timeouts \in Nat
    /\ pc \in {"send", "receive"} /\ op \in {"Resume", "Pause"} => ~bad
    /\ op \in Commands \cup {None} /\ (pc \in {"send", "receive"} => op \in Commands)
    /\ vm_state \in {"Paused", "Running"}
    /\ exit_code \in ExitCodes \cup {None} /\ shutdown \in ExitCodes \cup {None}
    /\ \A v \in Vcpus : /\ st[v] \in {"exit", "exiting", "exited"} => code[v] # None
                        /\ st[v] \in {"paused", "running", "interrupted"} => code[v] = None

\* The VMM thread serves commands.
Active == pc \in {"idle", "send", "receive"}

\* The current command has been sent to v; its response has been read.
Asked(v) == pc = "receive" \/ (pc = "send" /\ v < i)
Read(v) == pc = "receive" /\ v < i
Pending(v) == Asked(v) /\ ~Read(v)

Gone(v) == code[v] # None

\* No vCPU before v has exited, or all have done so during the resume that the
\* VMM waits for.
InStep(v) == vm_state = "Paused" \/ \A u \in Vcpus : u < v => ~Gone(u)

\* The channels of a vCPU in step hold the current command or its response.
LiveOK(v) ==
    \/ ~Pending(v) /\ events[v] = <<>> /\ responses[v] = <<>>
    \/ Pending(v) /\ events[v] = <<op>> /\ responses[v] = <<>>
    \/ /\ Pending(v) /\ events[v] = <<>> /\ Len(responses[v]) = 1
       /\ op = "Resume" => responses[v][1] = "Resumed"
       /\ op = "Pause" => responses[v][1] = "Paused" /\ st[v] = "paused"
       /\ responses[v][1] = "SavedState" => st[v] = "paused"

\* Those of one that has exited hold exit codes, behind at most the response it
\* gave before.
GoneOK(v) ==
    \/ responses[v] \in Seq(ExitCodes)
    \/ /\ Pending(v) /\ op # "Pause" /\ responses[v] # <<>>
       /\ Head(responses[v]) # "SavedState" /\ Tail(responses[v]) \in Seq(ExitCodes)

\* What Paused means, before and during the resume that ends it.
PausedOK ==
    vm_state = "Paused" =>
      \/ (pc = "idle" \/ op # "Resume") /\ \A v \in Vcpus : st[v] = "paused"
      \/ /\ pc # "idle" /\ op = "Resume" /\ ~bad
         /\ \A v \in Vcpus : \/ st[v] = "paused" \/ Read(v)
                             \/ Asked(v) /\ responses[v] # <<>> /\ Head(responses[v]) = "Resumed"

\* A pause or save that has gone well so far has found its vCPUs paused.
ReadOK ==
    pc = "receive" /\ op \in {"Pause", "SaveState"} /\ ~bad
      => \A v \in Vcpus : v < i => st[v] = "paused"

\* The channels of v are in order.
ChannelOK(v) == InStep(v) => IF Gone(v) THEN GoneOK(v) ELSE LiveOK(v)

ControlCore ==
    /\ unquiet = {}
    /\ Active => PausedOK /\ ReadOK /\ \A v \in Vcpus : ChannelOK(v)

\* The inductive invariant.
ControlInv == ControlType /\ (timeouts = 0 => ControlCore)

-----------------------------------------------------------------------------
(* Sequences.                                                              *)

\* What Append, Head and Tail do to a channel.
LEMMA AppendFacts ==
    ASSUME NEW S, NEW s \in Seq(S), NEW e \in S
    PROVE  /\ Append(s, e) \in Seq(S) /\ Append(s, e) # <<>>
           /\ s = <<>> => Append(s, e) = <<e>>
           /\ s # <<>> => Head(Append(s, e)) = Head(s) /\ Tail(Append(s, e)) = Append(Tail(s), e)
  <1>1. Append(s, e) \in Seq(S) /\ Len(Append(s, e)) = Len(s) + 1
    OBVIOUS
  <1>2. s = <<>> => Append(s, e) = <<e>>
    OBVIOUS
  <1>3. s # <<>> => Head(Append(s, e)) = Head(s)
    OBVIOUS
  <1>4. s # <<>> => Tail(Append(s, e)) = Append(Tail(s), e)
    OBVIOUS
  <1> QED BY <1>1, <1>2, <1>3, <1>4, SMTT(30)

\* The empty sequence is the one of length zero.
LEMMA LengthZero ==
    ASSUME NEW S, NEW s \in Seq(S), Len(s) = 0 PROVE s = <<>>
  OBVIOUS

LEMMA HeadTailFacts ==
    ASSUME NEW S, NEW s \in Seq(S)
    PROVE  /\ s # <<>> => Head(s) \in S /\ Tail(s) \in Seq(S) /\ Head(s) = s[1]
           /\ Len(s) = 1 => s # <<>> /\ Tail(s) = <<>>
           /\ <<>> \in Seq(S)
  <1>1. s # <<>> => Head(s) \in S /\ Tail(s) \in Seq(S)
    OBVIOUS
  <1>2. s # <<>> => Head(s) = s[1]
    OBVIOUS
  <1>3. Len(s) = 1 => s # <<>> /\ Len(Tail(s)) = 0 /\ Tail(s) \in Seq(S)
    OBVIOUS
  <1>4. Len(s) = 1 => Tail(s) = <<>>
    BY <1>3, LengthZero, Zenon
  <1> QED BY <1>1, <1>2, <1>3, <1>4

LEMMA SingleFacts ==
    \A e : Head(<<e>>) = e /\ Tail(<<e>>) = <<>> /\ <<e>> # <<>> /\ Len(<<e>>) = 1 /\ <<e>>[1] = e
  OBVIOUS

-----------------------------------------------------------------------------
(* Types.                                                                  *)

\* The steps of a vCPU keep the types.
LEMMA VcpuType ==
    ASSUME ControlAssumption, ControlType, NEW v \in Vcpus, VcpuStep(v) \/ Guest(v)
    PROVE  ControlType'
  <1> DEFINE E == Seq(Commands \cup {"Finish"})
             A == Seq(ExitCodes \cup Answers)
  <1>a. \A s \in E : s # <<>> => Head(s) \in Commands \cup {"Finish"} /\ Tail(s) \in E
    BY HeadTailFacts, Zenon
  <1>b. \A s \in A, x \in ExitCodes \cup Answers : Append(s, x) \in A
    BY AppendFacts, Zenon
  <1>c. events \in [Vcpus -> E] /\ responses \in [Vcpus -> A]
    BY Zenon DEF ControlType
  <1> HIDE DEF E, A
  <1>1. CASE HandleSignal(v)
    BY <1>1, Zenon DEF ControlType, HandleSignal, vmm_thread
  <1>2. CASE Interrupted(v)
    BY <1>2 DEF ControlType, Interrupted, Goto, vmm_thread, None
  <1>3. CASE Running(v)
    <2>1. events' \in [Vcpus -> E]
      BY <1>3, <1>a, <1>c, Zenon DEF Running, Take
    <2>a. responses' = responses \/ \E x \in Answers : Respond(v, x)
      BY <1>3, Zenon DEF Running, Answers
    <2>b. responses' \in [Vcpus -> A]
      <3>1. \A x \in Answers : Append(responses[v], x) \in A
        BY <1>b, <1>c, Zenon
      <3> QED BY <2>a, <3>1, <1>c, Zenon DEF Respond
    <2>2. \E x \in {"paused", "running", "finished"} : Goto(v, x)
      BY <1>3, Zenon DEF Running
    <2> QED BY <1>3, <2>1, <2>b, <2>2, SMTT(30) DEF ControlType, Running, Goto, vmm_thread, E, A
  <1>4. CASE Paused(v)
    <2>1. events' \in [Vcpus -> E]
      BY <1>4, <1>a, <1>c, Zenon DEF Paused, Take
    <2>a. responses' = responses \/ \E x \in Answers : Respond(v, x)
      BY <1>4, Zenon DEF Paused, Answers
    <2>b. responses' \in [Vcpus -> A]
      <3>1. \A x \in Answers : Append(responses[v], x) \in A
        BY <1>b, <1>c
      <3> QED BY <2>a, <3>1, <1>c, Zenon DEF Respond
    <2>2. st' = st \/ Goto(v, "running") \/ Goto(v, "finished")
      BY <1>4, Zenon DEF Paused
    <2> QED BY <1>4, <2>1, <2>b, <2>2, ZenonT(40) DEF ControlType, Paused, Goto, vmm_thread, E, A
  <1>5. CASE ExitSignals(v)
    BY <1>5, Zenon DEF ControlType, ExitSignals, Goto, vmm_thread, None
  <1>6. CASE ExitResponds(v)
    BY <1>6 DEF ControlType, ExitResponds, Goto, Respond, vmm_thread, None
  <1>7. CASE Exited(v)
    BY <1>7 DEF ControlType, Exited, Goto, Take, vmm_thread, None
  <1>8. CASE EmulationStops(v)
    BY <1>8 DEF ControlType, EmulationStops, Goto, ExitCodes, vmm_thread, None
  <1>9. CASE GuestReset(v)
    BY <1>9, Zenon DEF ControlType, GuestReset, vcpu, vmm_thread
  <1> QED BY <1>1, <1>2, <1>3, <1>4, <1>5, <1>6, <1>7, <1>8, <1>9, Zenon DEF VcpuStep, Guest

\* So do those of the VMM thread.
LEMMA VmmType ==
    ASSUME ControlAssumption, ControlType, Command \/ VmmStep \/ ReceiveTimeout
    PROVE  ControlType'
  <1>a. 1 \in Vcpus /\ i \in Vcpus /\ (i < N => i + 1 \in Vcpus)
    BY DEF Vcpus, ControlAssumption, ControlType
  <1>1. CASE Command
    BY <1>1, <1>a, Zenon DEF ControlType, Command, vcpu
  <1>2. CASE Send
    <2>1. events' \in [Vcpus -> Seq(Commands \cup {"Finish"})] /\ signal' \in [Vcpus -> BOOLEAN]
      BY <1>2 DEF ControlType, Send, SendEvent
    <2>2. i' \in Vcpus /\ pc' \in {"send", "receive"} /\ op' \in Commands
      BY <1>2, <1>a, Zenon DEF ControlType, Send
    <2> QED BY <1>2, <2>1, <2>2, Zenon DEF ControlType, Send
  <1>3. CASE Receive
    <2>1. responses' \in [Vcpus -> Seq(ExitCodes \cup Answers)]
      BY <1>3, HeadTailFacts, Zenon DEF ControlType, Receive
    <2>a. bad' \in BOOLEAN
      BY <1>3, Zenon DEF Receive
    <2>2. /\ i' \in Vcpus /\ vm_state' \in {"Paused", "Running"}
          /\ pc' \in {"idle", "receive", "finish"}
      BY <1>3, <1>a, Zenon DEF ControlType, Receive, Fails, Succeeds, Commands
    <2>3. pc' = "receive" /\ op' \in {"Resume", "Pause"} => ~bad'
      <3>1. pc' = "receive" => (bad' => op \in {"SaveState", "RestoreState"})
        BY <1>3, Zenon DEF Receive, Fails, Succeeds
      <3>2. op' = op
        BY <1>3, Zenon DEF Receive
      <3> QED BY <3>1, <3>2, Zenon
    <2> QED BY <1>3, <2>1, <2>a, <2>2, <2>3, Zenon DEF ControlType, Receive
  <1>4. CASE ReceiveTimeout
    <2>1. i' \in Vcpus /\ pc' \in {"idle", "finish"} /\ timeouts' \in Nat
      BY <1>4, <1>a DEF ControlType, ReceiveTimeout, Fails
    <2> QED BY <1>4, <2>1, Zenon DEF ControlType, ReceiveTimeout, Fails, vcpu
  <1>5. CASE ExitEvent
    BY <1>5, <1>a, Zenon DEF ControlType, ExitEvent, vcpu
  <1>6. CASE Query
    <2>1. responses' \in [Vcpus -> Seq(ExitCodes \cup Answers)] /\ exit_code' \in ExitCodes \cup {None}
      BY <1>6 DEF ControlType, Query
    <2>2. i' \in Vcpus /\ pc' \in {"query", "finish"}
      <3>1. \/ pc' = "finish" /\ i' = 1
            \/ i < N /\ pc' = pc /\ i' = i + 1
        BY <1>6, Zenon DEF Query
      <3> QED BY <1>6, <3>1, <1>a, Zenon DEF Query
    <2> QED BY <1>6, <2>1, <2>2, Zenon DEF ControlType, Query
  <1>7. CASE Finish
    <2>1. events' \in [Vcpus -> Seq(Commands \cup {"Finish"})] /\ signal' \in [Vcpus -> BOOLEAN]
      BY <1>7 DEF ControlType, Finish, SendEvent
    <2>2. i' \in Vcpus /\ pc' \in {"finish", "join"}
      BY <1>7, <1>a, Zenon DEF ControlType, Finish
    <2> QED BY <1>7, <2>1, <2>2, Zenon DEF ControlType, Finish
  <1>8. CASE Join
    BY <1>8, Zenon DEF ControlType, Join, vcpu, ExitCodes
  <1> QED BY <1>1, <1>2, <1>3, <1>4, <1>5, <1>6, <1>7, <1>8, Zenon DEF VmmStep

-----------------------------------------------------------------------------
(* The steps of a vCPU.                                                    *)

\* What PausedOK says of one vCPU during a resume.
ResumeOK(v) ==
    \/ st[v] = "paused" \/ Read(v)
    \/ Asked(v) /\ responses[v] # <<>> /\ Head(responses[v]) = "Resumed"

\* A step of v changes nothing of the others.
OnlyOf(v) ==
    /\ UNCHANGED vmm_thread
    /\ \A u \in Vcpus : u # v => /\ st'[u] = st[u] /\ code'[u] = code[u]
                                 /\ events'[u] = events[u] /\ responses'[u] = responses[u]
    /\ Gone(v) => Gone(v)'

\* It is enough to look at v.
LEMMA VcpuFrame ==
    ASSUME ControlType, ControlCore, Active, NEW v \in Vcpus, OnlyOf(v),
           ChannelOK(v)',
           InStep(v) /\ st[v] = "paused" => st'[v] = "paused" \/ (pc # "idle" /\ op = "Resume"),
           vm_state = "Paused" /\ pc # "idle" /\ op = "Resume" /\ ResumeOK(v) => ResumeOK(v)'
    PROVE  ControlCore'
  <1>1. ASSUME NEW u \in Vcpus PROVE ChannelOK(u)'
    <2>1. CASE u = v
      BY <2>1, Zenon
    <2>2. CASE u # v
      <3>1. ChannelOK(u)
        BY Zenon DEF ControlCore
      <3>2. /\ st'[u] = st[u] /\ code'[u] = code[u]
            /\ events'[u] = events[u] /\ responses'[u] = responses[u]
        BY <2>2, Zenon DEF OnlyOf
      <3>3. InStep(u)' => InStep(u)
        BY Zenon DEF InStep, OnlyOf, Gone, vmm_thread
      <3>4. Gone(u)' = Gone(u) /\ Pending(u)' = Pending(u)
        BY <3>2, Zenon DEF OnlyOf, Gone, Pending, Asked, Read, vmm_thread
      <3>5. (GoneOK(u) => GoneOK(u)') /\ (LiveOK(u) => LiveOK(u)')
        BY <3>2, <3>4 DEF GoneOK, LiveOK, OnlyOf, vmm_thread
      <3> QED BY <3>1, <3>3, <3>4, <3>5, Zenon DEF ChannelOK
    <2> QED BY <2>1, <2>2, Zenon
  <1>2. PausedOK'
    <2> SUFFICES ASSUME vm_state' = "Paused"
                 PROVE  \/ (pc' = "idle" \/ op' # "Resume") /\ \A u \in Vcpus : st'[u] = "paused"
                        \/ pc' # "idle" /\ op' = "Resume" /\ ~bad' /\ \A u \in Vcpus : ResumeOK(u)'
      BY Zenon DEF PausedOK, ResumeOK
    <2>1. vm_state = "Paused" /\ pc' = pc /\ op' = op /\ bad' = bad /\ i' = i
      BY DEF OnlyOf, vmm_thread
    <2>2. CASE (pc = "idle" \/ op # "Resume") /\ \A u \in Vcpus : st[u] = "paused"
      BY <2>1, <2>2 DEF OnlyOf, InStep
    <2>3. CASE pc # "idle" /\ op = "Resume" /\ ~bad /\ \A u \in Vcpus : ResumeOK(u)
      <3>1. \A u \in Vcpus : ResumeOK(u)'
        BY <2>1, <2>3, Zenon DEF OnlyOf, ResumeOK, Asked, Read
      <3> QED BY <2>1, <2>3, <3>1
    <2> QED BY <2>1, <2>2, <2>3 DEF ControlCore, PausedOK, ResumeOK
  <1>3. ReadOK'
    <2> SUFFICES ASSUME pc' = "receive", op' \in {"Pause", "SaveState"}, ~bad',
                        NEW u \in Vcpus, u < i'
                 PROVE  st'[u] = "paused"
      BY Zenon DEF ReadOK
    <2>1. pc = "receive" /\ op \in {"Pause", "SaveState"} /\ ~bad /\ i' = i
      BY Zenon DEF OnlyOf, vmm_thread
    <2>2. \A w \in Vcpus : w < i => st[w] = "paused" /\ ~Gone(w)
      BY <2>1, Zenon DEF ControlCore, ReadOK, ControlType, Gone
    <2>3. InStep(u)
      BY <2>1, <2>2 DEF InStep, ControlType, Vcpus
    <2> QED BY <2>1, <2>2, <2>3, Zenon DEF OnlyOf
  <1> QED BY <1>1, <1>2, <1>3, Zenon DEF ControlCore, OnlyOf, vmm_thread

\* A step that changes only the signal or immediate_exit of v, or lets it run.
LEMMA QuietStep ==
    ASSUME ControlType, ControlCore, Active, NEW v \in Vcpus, OnlyOf(v),
           code'[v] = code[v], events'[v] = events[v], responses'[v] = responses[v],
           st'[v] = st[v] \/ st[v] # "paused"
    PROVE  ControlCore'
  <1>1. ChannelOK(v)'
    <2>1. (InStep(v)' => InStep(v)) /\ Gone(v)' = Gone(v) /\ Pending(v)' = Pending(v)
      BY Zenon DEF InStep, OnlyOf, Gone, Pending, Asked, Read, vmm_thread
    <2>2. (GoneOK(v) => GoneOK(v)') /\ (LiveOK(v) => LiveOK(v)')
      BY <2>1, Zenon DEF GoneOK, LiveOK, OnlyOf, vmm_thread
    <2> QED BY <2>1, <2>2, Zenon DEF ChannelOK, ControlCore
  <1>2. ResumeOK(v) => ResumeOK(v)'
    BY Zenon DEF ResumeOK, Asked, Read, OnlyOf, vmm_thread
  <1> QED BY <1>1, <1>2, VcpuFrame, Zenon

\* A vCPU that stops running guest code has answered no pause and no save since
\* it resumed.
LEMMA StopsStep ==
    ASSUME ControlType, ControlCore, Active, NEW v \in Vcpus, EmulationStops(v)
    PROVE  ControlCore'
  <1>1. /\ OnlyOf(v) /\ ~Gone(v) /\ Gone(v)' /\ responses'[v] = responses[v]
        /\ st[v] = "running" /\ st'[v] = "exit"
    BY Zenon DEF EmulationStops, Goto, OnlyOf, Gone, ControlType, ExitCodes, None, vmm_thread
  <1>2. (InStep(v)' => InStep(v)) /\ Pending(v)' = Pending(v) /\ op' = op
    BY <1>1, Zenon DEF InStep, OnlyOf, Gone, Pending, Asked, Read, vmm_thread
  <1>3. LiveOK(v) => GoneOK(v)'
    <2> SUFFICES ASSUME LiveOK(v) PROVE GoneOK(v)'
      BY Zenon
    <2>1. CASE responses[v] = <<>>
      <3>1. responses'[v] \in Seq(ExitCodes)
        BY <1>1, <2>1
      <3> QED BY <3>1, Zenon DEF GoneOK
    <2>2. CASE responses[v] # <<>>
      <3>1. Pending(v) /\ Len(responses[v]) = 1 /\ op # "Pause" /\ responses[v][1] # "SavedState"
        BY <1>1, <2>2, Zenon DEF LiveOK
      <3>2. Tail(responses[v]) = <<>> /\ Head(responses[v]) = responses[v][1]
        BY <3>1, <2>2, HeadTailFacts, Zenon DEF ControlType
      <3>3. Tail(responses'[v]) \in Seq(ExitCodes)
        <4>1. <<>> \in Seq(ExitCodes)
          OBVIOUS
        <4> QED BY <1>1, <3>2, <4>1, Zenon
      <3> QED BY <1>1, <1>2, <2>2, <3>1, <3>2, <3>3 DEF GoneOK
    <2> QED BY <2>1, <2>2, Zenon
  <1>4. ChannelOK(v)'
    BY <1>1, <1>2, <1>3, Zenon DEF ChannelOK, ControlCore
  <1>5. ResumeOK(v) => ResumeOK(v)'
    BY <1>1, Zenon DEF ResumeOK, Asked, Read, OnlyOf, vmm_thread
  <1> QED BY <1>1, <1>4, <1>5, VcpuFrame, Zenon

\* A vCPU in step that answers: its channel holds the current command, and then
\* the answer to it.
LEMMA AnswerStep ==
    ASSUME ControlType, ControlCore, Active, NEW v \in Vcpus, OnlyOf(v),
           st[v] \in {"paused", "interrupted"}, code'[v] = code[v], events[v] # <<>>,
           events'[v] = Tail(events[v]), NEW r \in Answers, responses'[v] = Append(responses[v], r),
           Head(events[v]) = "Resume" => r = "Resumed",
           Head(events[v]) = "Pause" => r = "Paused" /\ st'[v] = "paused",
           r = "SavedState" => st'[v] = "paused",
           st[v] = "paused" => st'[v] = "paused" \/ Head(events[v]) = "Resume"
    PROVE  ControlCore'
  <1>1. ~Gone(v) /\ ~Gone(v)' /\ pc' = pc /\ op' = op /\ vm_state' = vm_state /\ i' = i
    BY Zenon DEF ControlType, Gone, OnlyOf, vmm_thread
  <1>2. (InStep(v)' => InStep(v)) /\ Pending(v)' = Pending(v)
    BY DEF InStep, OnlyOf, Gone, Pending, Asked, Read, vmm_thread
  <1>3. ASSUME InStep(v)
        PROVE  /\ Pending(v) /\ Head(events[v]) = op /\ events'[v] = <<>>
               /\ responses[v] = <<>> /\ responses'[v] = <<r>>
    <2>1. LiveOK(v)
      BY <1>1, <1>3, Zenon DEF ControlCore, ChannelOK
    <2>2. Pending(v) /\ events[v] = <<op>> /\ responses[v] = <<>>
      BY <2>1, Zenon DEF LiveOK
    <2>3. responses[v] \in Seq(ExitCodes \cup Answers) /\ r \in ExitCodes \cup Answers
      BY Zenon DEF ControlType
    <2> QED BY <2>2, <2>3, SingleFacts, AppendFacts
  <1>4. ChannelOK(v)'
    <2> SUFFICES ASSUME InStep(v)' PROVE LiveOK(v)'
      BY <1>1, Zenon DEF ChannelOK
    <2> QED BY <1>1, <1>2, <1>3, SingleFacts, Zenon DEF LiveOK
  <1>5. InStep(v) /\ st[v] = "paused" => st'[v] = "paused" \/ (pc # "idle" /\ op = "Resume")
    BY <1>3, Zenon DEF Pending, Asked
  <1>6. vm_state = "Paused" /\ pc # "idle" /\ op = "Resume" /\ ResumeOK(v) => ResumeOK(v)'
    <2> SUFFICES ASSUME vm_state = "Paused", op = "Resume" PROVE ResumeOK(v)'
      BY Zenon
    <2>1. InStep(v)
      BY Zenon DEF InStep
    <2> QED BY <1>1, <1>3, <2>1, SingleFacts, Zenon DEF ResumeOK, Pending, Asked
  <1> QED BY <1>4, <1>5, <1>6, VcpuFrame, Zenon

\* A vCPU that has exited answers with its exit code.
LEMMA ExitRespondsStep ==
    ASSUME ControlType, ControlCore, Active, NEW v \in Vcpus, ExitResponds(v)
    PROVE  ControlCore'
  <1>1. /\ OnlyOf(v) /\ Gone(v) /\ Gone(v)' /\ st[v] = "exiting" /\ code[v] \in ExitCodes
        /\ responses'[v] = Append(responses[v], code[v])
    BY Zenon DEF ExitResponds, Goto, Respond, OnlyOf, Gone, ControlType, None, vmm_thread
  <1>2. (InStep(v)' => InStep(v)) /\ Pending(v)' = Pending(v) /\ op' = op
    BY <1>1, Zenon DEF InStep, OnlyOf, Gone, Pending, Asked, Read, vmm_thread
  <1>3. /\ responses[v] \in Seq(ExitCodes \cup Answers)
        /\ responses[v] # <<>> => /\ Head(responses'[v]) = Head(responses[v])
                                  /\ Tail(responses'[v]) = Append(Tail(responses[v]), code[v])
        /\ responses'[v] # <<>>
    <2>1. responses[v] \in Seq(ExitCodes \cup Answers) /\ code[v] \in ExitCodes \cup Answers
      BY <1>1, Zenon DEF ControlType
    <2>2. /\ Append(responses[v], code[v]) # <<>>
          /\ responses[v] # <<>> =>
               /\ Head(Append(responses[v], code[v])) = Head(responses[v])
               /\ Tail(Append(responses[v], code[v])) = Append(Tail(responses[v]), code[v])
      BY <2>1, AppendFacts
    <2> QED BY <1>1, <2>1, <2>2, Zenon
  <1>4. GoneOK(v) => GoneOK(v)'
    <2>1. CASE responses[v] \in Seq(ExitCodes)
      BY <1>1, <2>1, AppendFacts DEF GoneOK
    <2>2. CASE /\ Pending(v) /\ op # "Pause" /\ responses[v] # <<>>
               /\ Head(responses[v]) # "SavedState" /\ Tail(responses[v]) \in Seq(ExitCodes)
      <3>1. Tail(responses'[v]) \in Seq(ExitCodes)
        BY <1>1, <1>3, <2>2, AppendFacts
      <3> QED BY <1>2, <1>3, <2>2, <3>1, Zenon DEF GoneOK
    <2> QED BY <2>1, <2>2, Zenon DEF GoneOK
  <1>5. ChannelOK(v)'
    BY <1>1, <1>2, <1>4, Zenon DEF ChannelOK, ControlCore
  <1>6. ResumeOK(v) => ResumeOK(v)'
    BY <1>1, <1>3, Zenon DEF ResumeOK, Asked, Read, OnlyOf, vmm_thread
  <1> QED BY <1>1, <1>5, <1>6, VcpuFrame, Zenon

\* A vCPU that has exited takes an event.
LEMMA ExitedStep ==
    ASSUME ControlType, ControlCore, Active, NEW v \in Vcpus, Exited(v)
    PROVE  ControlCore'
  <1>1. /\ OnlyOf(v) /\ Gone(v) /\ Gone(v)' /\ st[v] = "exited" /\ responses'[v] = responses[v]
    BY Zenon DEF Exited, Goto, Take, OnlyOf, Gone, ControlType, None, vmm_thread
  <1>2. (InStep(v)' => InStep(v)) /\ Pending(v)' = Pending(v) /\ op' = op
    BY <1>1, Zenon DEF InStep, OnlyOf, Gone, Pending, Asked, Read, vmm_thread
  <1>3. ChannelOK(v)'
    BY <1>1, <1>2, Zenon DEF ChannelOK, GoneOK, ControlCore
  <1>4. ResumeOK(v) => ResumeOK(v)'
    BY <1>1 DEF ResumeOK, Asked, Read, OnlyOf, vmm_thread
  <1> QED BY <1>1, <1>3, <1>4, VcpuFrame, Zenon

\* While commands are served no vCPU in step is told to finish; the rest of the
\* cases of Running and Paused are answers.
LEMMA FinishStep ==
    ASSUME ControlType, ControlCore, Active, NEW v \in Vcpus, OnlyOf(v),
           st[v] \in {"paused", "interrupted"}, code'[v] = code[v],
           events[v] # <<>>, Head(events[v]) = "Finish"
    PROVE  ControlCore'
  <1>1. ~Gone(v) /\ ~Gone(v)'
    BY Zenon DEF ControlType, Gone
  <1>2. InStep(v)' => InStep(v)
    BY Zenon DEF InStep, OnlyOf, Gone, vmm_thread
  <1>3. ~InStep(v)
    <2> SUFFICES ASSUME InStep(v) PROVE FALSE
      BY Zenon
    <2>1. LiveOK(v)
      BY <1>1, Zenon DEF ControlCore, ChannelOK
    <2>2. events[v] = <<op>> /\ op \in Commands
      BY <2>1, Zenon DEF LiveOK, Pending, Asked, ControlType
    <2> QED BY <2>2, SingleFacts, Zenon DEF Commands
  <1>4. ChannelOK(v)' /\ vm_state # "Paused"
    BY <1>2, <1>3, Zenon DEF ChannelOK, InStep
  <1> QED BY <1>3, <1>4, VcpuFrame, Zenon

\* Every step of a vCPU keeps the invariant.
LEMMA VcpuCore ==
    ASSUME ControlType, ControlCore, Active, NEW v \in Vcpus, VcpuStep(v) \/ Guest(v)
    PROVE  ControlCore'
  <1>1. CASE HandleSignal(v) \/ Interrupted(v) \/ GuestReset(v) \/ ExitSignals(v)
    <2>1. /\ OnlyOf(v) /\ code'[v] = code[v] /\ events'[v] = events[v]
          /\ responses'[v] = responses[v] /\ (st'[v] = st[v] \/ st[v] # "paused")
      BY <1>1 DEF HandleSignal, Interrupted, GuestReset, ExitSignals, Goto, OnlyOf, Gone,
                  ControlType, vcpu, vmm_thread
    <2> QED BY <2>1, QuietStep, Zenon
  <1>2. CASE Running(v)
    <2>1. /\ OnlyOf(v) /\ code'[v] = code[v] /\ st[v] = "interrupted"
      BY <1>2, ZenonT(40) DEF Running, Goto, Take, Respond, OnlyOf, Gone, ControlType, vmm_thread
    <2>2. CASE events[v] = <<>>
      BY <1>2, <2>1, <2>2, QuietStep DEF Running
    <2>3. CASE events[v] # <<>> /\ Head(events[v]) = "Finish"
      BY <2>1, <2>3, FinishStep, Zenon
    <2>4. CASE events[v] # <<>> /\ Head(events[v]) # "Finish"
      <3>1. PICK r \in Answers :
               /\ Respond(v, r) /\ Take(v)
               /\ Head(events[v]) = "Resume" => r = "Resumed"
               /\ Head(events[v]) = "Pause" => r = "Paused" /\ Goto(v, "paused")
               /\ r # "SavedState"
        BY <1>2, <2>4, Zenon DEF Running, Answers
      <3>2. /\ events'[v] = Tail(events[v]) /\ responses'[v] = Append(responses[v], r)
            /\ Head(events[v]) = "Pause" => st'[v] = "paused"
        BY <3>1, Zenon DEF Respond, Take, Goto, ControlType
      <3> QED BY <2>1, <2>4, <3>1, <3>2, AnswerStep, Zenon
    <2> QED BY <2>2, <2>3, <2>4, Zenon
  <1>3. CASE Paused(v)
    <2>1. /\ OnlyOf(v) /\ code'[v] = code[v] /\ st[v] = "paused" /\ events[v] # <<>>
      BY <1>3, Zenon DEF Paused, Goto, Take, Respond, OnlyOf, Gone, ControlType, vmm_thread
    <2>2. CASE Head(events[v]) = "Finish"
      BY <2>1, <2>2, FinishStep, Zenon
    <2>3. CASE Head(events[v]) # "Finish"
      <3>1. PICK r \in Answers :
               /\ Respond(v, r) /\ Take(v)
               /\ Head(events[v]) = "Resume" => r = "Resumed"
               /\ Head(events[v]) = "Pause" => r = "Paused"
               /\ Head(events[v]) # "Resume" => UNCHANGED st
               /\ r = "SavedState" => Head(events[v]) # "Resume"
        BY <1>3, <2>3 DEF Paused, Answers
      <3>2. events'[v] = Tail(events[v]) /\ responses'[v] = Append(responses[v], r)
        BY <3>1, Zenon DEF Respond, Take, ControlType
      <3>3. Head(events[v]) # "Resume" => st'[v] = "paused"
        BY <2>1, <3>1, Zenon
      <3>4. /\ Head(events[v]) = "Pause" => r = "Paused" /\ st'[v] = "paused"
            /\ r = "SavedState" => st'[v] = "paused"
            /\ st'[v] = "paused" \/ Head(events[v]) = "Resume"
        BY <3>1, <3>3, Zenon
      <3> QED BY <2>1, <3>1, <3>2, <3>4, AnswerStep, Zenon
    <2> QED BY <2>2, <2>3, Zenon
  <1> QED BY <1>1, <1>2, <1>3, StopsStep, ExitRespondsStep, ExitedStep, Zenon DEF VcpuStep, Guest

-----------------------------------------------------------------------------
(* The steps of the VMM thread.                                            *)

\* A command starts with every vCPU in step unasked.
LEMMA CommandCore ==
    ASSUME ControlAssumption, ControlType, ControlCore, Command
    PROVE  ControlCore'
  <1>1. /\ pc = "idle" /\ pc' = "send" /\ i' = 1 /\ bad' = FALSE
        /\ UNCHANGED <<st, code, events, responses, vm_state, unquiet>>
    BY Zenon DEF Command, vcpu
  <1>2. \A v \in Vcpus : ~Pending(v) /\ ~Pending(v)'
    BY <1>1 DEF Pending, Asked, Vcpus
  <1>3. \A v \in Vcpus : ChannelOK(v)'
    BY <1>1, <1>2, Zenon DEF ControlCore, Active, ChannelOK, InStep, Gone, GoneOK, LiveOK
  <1>4. PausedOK'
    BY <1>1, Zenon DEF ControlCore, Active, PausedOK
  <1>5. ReadOK'
    BY <1>1, Zenon DEF ReadOK
  <1> QED BY <1>1, <1>3, <1>4, <1>5, Zenon DEF ControlCore

\* The command is sent to vCPU i, whose channels are empty if it is in step.
LEMMA SendCore ==
    ASSUME ControlAssumption, ControlType, ControlCore, Send
    PROVE  ControlCore'
  <1>1. /\ pc = "send" /\ i \in Vcpus /\ i \in Nat /\ N \in Nat
        /\ UNCHANGED <<st, code, responses, vm_state, op, bad, unquiet>>
        /\ \/ i < N /\ i' = i + 1 /\ pc' = "send"
           \/ i = N /\ i' = 1 /\ pc' = "receive"
    BY DEF Send, ControlType, Vcpus, ControlAssumption
  <1>2. events' = [events EXCEPT ![i] = Append(@, op)] /\ op \in Commands
    BY Zenon DEF Send, SendEvent, ControlType
  <1>3. \A v \in Vcpus : /\ Pending(v) <=> v < i
                         /\ Pending(v)' <=> v <= i
                         /\ Asked(v) => Asked(v)'
                         /\ ~Read(v) /\ ~Read(v)'
    BY <1>1 DEF Pending, Asked, Read, Vcpus
  <1>4. ASSUME NEW v \in Vcpus PROVE ChannelOK(v)'
    <2>1. ChannelOK(v) /\ (InStep(v)' => InStep(v)) /\ Gone(v)' = Gone(v)
      BY <1>1, Zenon DEF ControlCore, Active, InStep, Gone
    <2>2. GoneOK(v) => GoneOK(v)'
      BY <1>1, <1>3 DEF GoneOK, Vcpus
    <2>3. LiveOK(v) => LiveOK(v)'
      <3>1. CASE v = i
        <4>1. LiveOK(v) => events[v] = <<>> /\ responses[v] = <<>>
          BY <1>1, <1>3, <3>1 DEF LiveOK
        <4>2. events[v] = <<>> => events'[v] = <<op>>
          BY <1>2, <3>1, AppendFacts DEF ControlType
        <4> QED BY <1>1, <1>3, <3>1, <4>1, <4>2 DEF LiveOK
      <3>2. CASE v # i
        <4>1. events'[v] = events[v] /\ (Pending(v)' <=> Pending(v))
          BY <1>1, <1>2, <1>3, <3>2 DEF ControlType, Vcpus
        <4> QED BY <1>1, <4>1, Zenon DEF LiveOK
      <3> QED BY <3>1, <3>2, Zenon
    <2> QED BY <2>1, <2>2, <2>3, Zenon DEF ChannelOK
  <1>5. PausedOK'
    BY <1>1, <1>3, Zenon DEF ControlCore, Active, PausedOK
  <1>6. ReadOK'
    BY <1>1 DEF ReadOK, Vcpus
  <1> QED BY <1>1, <1>4, <1>5, <1>6, Zenon DEF ControlCore

\* What is read from a vCPU in step: the answer to the command, or, from one
\* that has exited, something that makes a pause or a save fail.
LEMMA HeadOfChannel ==
    ASSUME ControlType, ControlCore, pc = "receive", responses[i] # <<>>, InStep(i)
    PROVE  /\ ~Gone(i) => /\ events[i] = <<>> /\ Tail(responses[i]) = <<>>
                          /\ op = "Resume" => Head(responses[i]) = "Resumed"
                          /\ op = "Pause" => Head(responses[i]) = "Paused" /\ st[i] = "paused"
                          /\ Head(responses[i]) = "SavedState" => st[i] = "paused"
           /\ Gone(i) => /\ Tail(responses[i]) \in Seq(ExitCodes)
                         /\ op = "Pause" => Head(responses[i]) # "Paused"
                         /\ Head(responses[i]) # "SavedState"
  <1>1. i \in Vcpus /\ responses[i] \in Seq(ExitCodes \cup Answers) /\ ChannelOK(i)
    BY Zenon DEF ControlType, ControlCore, Active
  <1>2. CASE ~Gone(i)
    <2>1. LiveOK(i)
      BY <1>1, <1>2, Zenon DEF ChannelOK
    <2>2. /\ events[i] = <<>> /\ Len(responses[i]) = 1
          /\ op = "Resume" => responses[i][1] = "Resumed"
          /\ op = "Pause" => responses[i][1] = "Paused" /\ st[i] = "paused"
          /\ responses[i][1] = "SavedState" => st[i] = "paused"
      BY <2>1, Zenon DEF LiveOK
    <2>3. Tail(responses[i]) = <<>> /\ Head(responses[i]) = responses[i][1]
      BY <1>1, <2>2, HeadTailFacts, Zenon
    <2> QED BY <1>2, <2>2, <2>3, Zenon
  <1>3. CASE Gone(i)
    <2>1. GoneOK(i)
      BY <1>1, <1>3, Zenon DEF ChannelOK
    <2>2. CASE responses[i] \in Seq(ExitCodes)
      <3>1. Head(responses[i]) \in ExitCodes /\ Tail(responses[i]) \in Seq(ExitCodes)
        BY <2>2, HeadTailFacts, Zenon
      <3> QED BY <1>3, <3>1, Zenon DEF ExitCodes
    <2> QED BY <1>3, <2>1, <2>2, Zenon DEF GoneOK
  <1> QED BY <1>2, <1>3, Zenon

\* A pause or save whose responses were right so far has found paused vCPUs.
LEMMA GoodRead ==
    ASSUME ControlType, ControlCore, pc = "receive", responses[i] # <<>>,
           op \in {"Pause", "SaveState"}, ~bad, Head(responses[i]) = Expected(op)
    PROVE  \A v \in Vcpus : v <= i => st[v] = "paused" /\ ~Gone(v)
  <1>1. \A v \in Vcpus : st[v] = "paused" => ~Gone(v)
    BY Zenon DEF ControlType, Gone
  <1>2. \A v \in Vcpus : v < i => st[v] = "paused"
    BY Zenon DEF ControlCore, Active, ReadOK
  <1>3. InStep(i) /\ i \in Vcpus
    BY <1>1, <1>2, Zenon DEF InStep, ControlType
  <1>4. st[i] = "paused"
    BY <1>3, HeadOfChannel, Zenon DEF Expected
  <1> QED BY <1>1, <1>2, <1>4 DEF Vcpus, ControlType

\* The right answer is read while a VM that is Paused resumes or is paused again.
LEMMA PausedRead ==
    ASSUME ControlType, ControlCore, pc = "receive", responses[i] # <<>>,
           op \in {"Resume", "Pause"}, vm_state = "Paused"
    PROVE  Head(responses[i]) = Expected(op)
  <1>1. InStep(i) /\ i \in Vcpus
    BY Zenon DEF InStep, ControlType
  <1>2. CASE op = "Resume"
    <2>1. st[i] = "paused" \/ Head(responses[i]) = "Resumed"
      BY <1>1, <1>2 DEF ControlCore, Active, PausedOK, Read, Vcpus
    <2>2. st[i] = "paused" => ~Gone(i)
      BY <1>1, Zenon DEF ControlType, Gone
    <2> QED BY <1>1, <1>2, <2>1, <2>2, HeadOfChannel, Zenon DEF Expected
  <1>3. CASE op = "Pause"
    <2>1. ~Gone(i)
      BY <1>1, <1>3, Zenon DEF ControlCore, Active, PausedOK, ControlType, Gone
    <2> QED BY <1>1, <1>3, <2>1, HeadOfChannel, Zenon DEF Expected
  <1> QED BY <1>2, <1>3, Zenon

\* The channels of the vCPUs in step up to i after the read.
LEMMA AfterRead ==
    ASSUME ControlType, ControlCore, pc = "receive", responses[i] # <<>>,
           responses' = [responses EXCEPT ![i] = Tail(@)], UNCHANGED <<st, code, events, op>>,
           NEW v \in Vcpus, v <= i, InStep(v), ~Pending(v)'
    PROVE  ChannelOK(v)'
  <1>1. Gone(v)' = Gone(v) /\ i \in Vcpus
    BY Zenon DEF Gone, ControlType
  <1>2. CASE v = i
    <2>1. responses'[v] = Tail(responses[v])
      BY <1>1, <1>2, Zenon DEF ControlType
    <2>2. CASE Gone(v)
      <3>1. responses'[v] \in Seq(ExitCodes)
        BY <1>2, <2>1, <2>2, HeadOfChannel, Zenon
      <3> QED BY <1>1, <2>2, <3>1, Zenon DEF ChannelOK, GoneOK
    <2>3. CASE ~Gone(v)
      <3>1. events'[v] = <<>> /\ responses'[v] = <<>>
        BY <1>2, <2>1, <2>3, HeadOfChannel, Zenon
      <3> QED BY <1>1, <2>3, <3>1, Zenon DEF ChannelOK, LiveOK
    <2> QED BY <2>2, <2>3, Zenon
  <1>3. CASE v # i
    <2>1. ~Pending(v) /\ responses'[v] = responses[v] /\ ChannelOK(v)
      BY <1>1, <1>3 DEF Pending, Read, ControlType, ControlCore, Active, Vcpus
    <2>2. IF Gone(v) THEN responses[v] \in Seq(ExitCodes) ELSE events[v] = <<>> /\ responses[v] = <<>>
      BY <2>1, Zenon DEF ChannelOK, GoneOK, LiveOK
    <2> QED BY <1>1, <2>1, <2>2 DEF ChannelOK, GoneOK, LiveOK
  <1> QED BY <1>2, <1>3, Zenon

\* One response is read.
LEMMA ReceiveCore ==
    ASSUME ControlAssumption, ControlType, ControlType', ControlCore, Receive
    PROVE  ControlCore'
  <1>1. /\ pc = "receive" /\ responses[i] # <<>> /\ op \in Commands
        /\ responses' = [responses EXCEPT ![i] = Tail(@)]
        /\ UNCHANGED <<st, code, events, op>>
        /\ i \in Vcpus /\ i \in Nat /\ N \in Nat /\ i <= N
    BY DEF Receive, ControlType, Vcpus, ControlAssumption
  <1>2. \A v \in Vcpus : (Gone(v)' <=> Gone(v)) /\ v \in Nat /\ v <= N
    BY <1>1 DEF Gone, Vcpus
  <1>3. ~bad' => ~bad /\ Head(responses[i]) = Expected(op)
    BY Zenon DEF Receive, ControlType
  <1>4. bad' => bad \/ Head(responses[i]) # Expected(op)
    BY Zenon DEF Receive
  <1>5. CASE i < N /\ i' = i + 1 /\ UNCHANGED <<pc, vm_state, unquiet>>
    <2>1. ASSUME NEW v \in Vcpus PROVE ChannelOK(v)'
      <3>1. InStep(v)' => InStep(v)
        BY <1>2, <1>5, Zenon DEF InStep
      <3>2. CASE v <= i
        <4>1. ~Pending(v)'
          BY <1>1, <1>2, <1>5, <3>2 DEF Pending, Read
        <4>2. CASE InStep(v)
          BY <1>1, <3>2, <4>1, <4>2, AfterRead, Zenon
        <4> QED BY <3>1, <4>2, Zenon DEF ChannelOK
      <3>3. CASE v > i
        <4>1. Pending(v) /\ Pending(v)' /\ responses'[v] = responses[v] /\ ChannelOK(v)
          BY <1>1, <1>2, <1>5, <3>3, SMTT(30) DEF Pending, Asked, Read, ControlType, ControlCore, Active
        <4>2. (GoneOK(v) => GoneOK(v)') /\ (LiveOK(v) => LiveOK(v)')
          BY <1>1, <4>1, Zenon DEF GoneOK, LiveOK
        <4> QED BY <1>2, <3>1, <4>1, <4>2, Zenon DEF ChannelOK
      <3> QED BY <1>1, <1>2, <3>2, <3>3
    <2>2. PausedOK'
      <3> SUFFICES ASSUME vm_state = "Paused"
                   PROVE  \/ op # "Resume" /\ \A u \in Vcpus : st[u] = "paused"
                          \/ op = "Resume" /\ ~bad' /\ \A u \in Vcpus : ResumeOK(u)'
        BY <1>1, <1>5, Zenon DEF PausedOK, ResumeOK
      <3>1. CASE op # "Resume"
        BY <1>1, <3>1, Zenon DEF ControlCore, Active, PausedOK
      <3>2. CASE op = "Resume"
        <4>1. ~bad'
          BY <1>1, <1>5, <3>2, Zenon DEF ControlType
        <4>2. \A u \in Vcpus : ResumeOK(u)
          BY <1>1, <3>2, Zenon DEF ControlCore, Active, PausedOK, ResumeOK
        <4>3. ASSUME NEW u \in Vcpus PROVE ResumeOK(u)'
          <5>1. CASE u <= i
            BY <1>1, <1>2, <1>5, <5>1 DEF ResumeOK, Read
          <5>2. CASE u > i
            <6>1. responses'[u] = responses[u] /\ ~Read(u)
              BY <1>1, <1>2, <5>2 DEF ControlType, Read
            <6> QED BY <1>1, <1>5, <4>2, <6>1, Zenon DEF ResumeOK, Asked
          <5> QED BY <1>1, <1>2, <5>1, <5>2
        <4> QED BY <3>2, <4>1, <4>3, Zenon
      <3> QED BY <3>1, <3>2, Zenon
    <2>3. ReadOK'
      <3> SUFFICES ASSUME op \in {"Pause", "SaveState"}, ~bad', NEW v \in Vcpus, v < i'
                   PROVE  st'[v] = "paused"
        BY <1>1, Zenon DEF ReadOK
      <3> QED BY <1>1, <1>2, <1>3, <1>5, GoodRead
    <2> QED BY <1>5, <2>1, <2>2, <2>3, Zenon DEF ControlCore
  <1>6. CASE bad' /\ Fails /\ (i = N \/ op \in {"Resume", "Pause"})
    <2>1. UNCHANGED <<vm_state, unquiet>> /\ (pc' = "idle" \/ (pc' = "finish" /\ op = "RestoreState"))
      BY <1>6, Zenon DEF Fails
    <2>2. CASE pc' = "finish"
      BY <2>1, <2>2, Zenon DEF ControlCore, Active
    <2>3. CASE pc' = "idle"
      <3>1. \A v \in Vcpus : ~Pending(v)'
        BY <2>3, Zenon DEF Pending, Asked
      <3>2. op \in {"Resume", "Pause"} => vm_state # "Paused" /\ \E u \in Vcpus : u <= i /\ Gone(u)
        <4> SUFFICES ASSUME op \in {"Resume", "Pause"}
                     PROVE  vm_state # "Paused" /\ \E u \in Vcpus : u <= i /\ Gone(u)
          BY Zenon
        <4>1. Head(responses[i]) # Expected(op)
          BY <1>1, <1>4, <1>6, Zenon DEF ControlType
        <4>2. vm_state # "Paused"
          BY <1>1, <4>1, PausedRead, Zenon
        <4>3. ASSUME \A u \in Vcpus : u <= i => ~Gone(u) PROVE FALSE
          <5>1. InStep(i) /\ ~Gone(i)
            BY <1>1, <1>2, <4>3 DEF InStep
          <5> QED BY <1>1, <4>1, <5>1, HeadOfChannel, Zenon DEF Expected
        <4> QED BY <4>2, <4>3, Zenon
      <3>3. ASSUME NEW v \in Vcpus PROVE ChannelOK(v)'
        <4> SUFFICES ASSUME InStep(v)' PROVE ChannelOK(v)'
          BY Zenon DEF ChannelOK
        <4>1. InStep(v)
          BY <1>2, <2>1, Zenon DEF InStep
        <4>2. v <= i
          BY <1>1, <1>2, <1>6, <3>2, <4>1 DEF InStep
        <4> QED BY <1>1, <3>1, <4>1, <4>2, AfterRead, Zenon
      <3>4. PausedOK'
        BY <1>1, <2>1, <2>3, <3>2, Zenon DEF ControlCore, Active, PausedOK
      <3>5. ReadOK'
        BY <2>3, Zenon DEF ReadOK
      <3> QED BY <2>1, <3>3, <3>4, <3>5, Zenon DEF ControlCore
    <2> QED BY <2>1, <2>2, <2>3, Zenon
  <1>7. CASE i = N /\ ~bad' /\ Succeeds
    <2>1. /\ pc' = "idle"
          /\ op = "Resume" => vm_state' = "Running"
          /\ op = "Pause" => vm_state' = "Paused"
          /\ op \notin {"Resume", "Pause"} => vm_state' = vm_state
          /\ op # "SaveState" => unquiet' = unquiet
          /\ op = "SaveState" => unquiet' = unquiet \cup {v \in Vcpus : st[v] # "paused"}
      BY <1>7, Zenon DEF Succeeds
    <2>2. op \in {"Pause", "SaveState"} => \A v \in Vcpus : st[v] = "paused" /\ ~Gone(v)
      BY <1>1, <1>2, <1>3, <1>7, GoodRead, Zenon
    <2>3. ASSUME NEW v \in Vcpus PROVE ChannelOK(v)'
      <3> SUFFICES ASSUME InStep(v)' PROVE ChannelOK(v)'
        BY DEF ChannelOK
      <3>1. InStep(v)
        BY <1>1, <1>2, <2>1, <2>2, Zenon DEF InStep, Commands
      <3>2. ~Pending(v)' /\ v <= i
        BY <1>2, <1>7, <2>1, Zenon DEF Pending, Asked
      <3> QED BY <1>1, <3>1, <3>2, AfterRead, Zenon
    <2>4. PausedOK'
      BY <1>1, <2>1, <2>2, Zenon DEF ControlCore, Active, PausedOK, Commands
    <2>5. ReadOK'
      BY <2>1, Zenon DEF ReadOK
    <2>6. unquiet' = {}
      BY <2>1, <2>2, Zenon DEF ControlCore
    <2> QED BY <2>3, <2>4, <2>5, <2>6, Zenon DEF ControlCore
  <1> QED BY <1>5, <1>6, <1>7, Zenon DEF Receive

-----------------------------------------------------------------------------
(* The theorems.                                                           *)

\* ControlInv holds of every reachable state.
THEOREM ControlInvariant == ASSUME ControlAssumption PROVE Spec => []ControlInv
  <1>1. Init => ControlInv
    <2> SUFFICES ASSUME Init PROVE ControlInv
      BY Zenon
    <2>1. ControlType
      <3>1. 1 \in Vcpus
        BY ControlAssumption DEF ControlAssumption, Vcpus
      <3>2. <<>> \in Seq(Commands \cup {"Finish"}) /\ <<>> \in Seq(ExitCodes \cup Answers)
        OBVIOUS
      <3>3. /\ events \in [Vcpus -> Seq(Commands \cup {"Finish"})]
            /\ responses \in [Vcpus -> Seq(ExitCodes \cup Answers)]
        BY <3>2, Zenon DEF Init
      <3> QED BY <3>1, <3>3, Zenon DEF Init, ControlType
    <2>2. \A v \in Vcpus : ChannelOK(v)
      BY Zenon DEF Init, ChannelOK, Gone, LiveOK, Pending, Asked
    <2>3. PausedOK /\ ReadOK /\ unquiet = {}
      BY Zenon DEF Init, PausedOK, ReadOK
    <2> QED BY <2>1, <2>2, <2>3, Zenon DEF ControlInv, ControlCore
  <1>2. ControlInv /\ [Next]_vars => ControlInv'
    <2> SUFFICES ASSUME ControlInv, [Next]_vars PROVE ControlInv'
      BY Zenon
    <2>1. CASE UNCHANGED vars
      BY <2>1 DEF vars, vcpu, vmm_thread, ControlInv, ControlType, ControlCore, Active, PausedOK, ReadOK,
                  ChannelOK, InStep, Gone, GoneOK, LiveOK, Pending, Asked, Read
    <2>2. CASE Next
      <3>1. ControlType'
        BY <2>2, ControlAssumption, VcpuType, VmmType, Zenon DEF Next, ControlInv
      <3>2. ASSUME timeouts' = 0 PROVE ControlCore'
        <4>1. ~ReceiveTimeout
          BY <3>2, SMTT(30) DEF ReceiveTimeout, ControlInv, ControlType
        <4>2. timeouts = 0
          BY <2>2, <3>2, <4>1, Zenon DEF Next, Command, VmmStep, Send, Receive, ExitEvent, Query, Finish, Join,
                                  VcpuStep, Guest, HandleSignal, Interrupted, Running, Paused, ExitSignals,
                                  ExitResponds, Exited, EmulationStops, GuestReset, vmm_thread
        <4>3. ControlType /\ ControlCore
          BY <4>2, Zenon DEF ControlInv
        <4>4. CASE Command \/ Send \/ Receive
          BY <3>1, <4>3, <4>4, ControlAssumption, CommandCore, SendCore, ReceiveCore, Zenon
        <4>5. CASE ExitEvent \/ Query \/ Finish \/ Join
          BY <4>3, <4>5, Zenon DEF ControlCore, Active, ExitEvent, Query, Finish, Join
        <4>6. ASSUME NEW v \in Vcpus, VcpuStep(v) \/ Guest(v) PROVE ControlCore'
          <5>1. CASE Active
            BY <4>3, <4>6, <5>1, VcpuCore, SMTT(30)
          <5>2. CASE ~Active
            BY <4>3, <4>6, <5>2, Zenon DEF ControlCore, Active, VcpuStep, Guest, HandleSignal, Interrupted, Running,
                 Paused, ExitSignals, ExitResponds, Exited, EmulationStops, GuestReset, vmm_thread
          <5> QED BY <5>1, <5>2, Zenon
        <4> QED BY <2>2, <4>1, <4>4, <4>5, <4>6, Zenon DEF Next, VmmStep
      <3> QED BY <3>1, <3>2, Zenon DEF ControlInv
    <2> QED BY <2>1, <2>2, Zenon
  <1> QED BY <1>1, <1>2, PTL DEF Spec

\* A microVM that the VMM reports as Paused executes no guest code, for every
\* number of vCPUs, as long as no response has timed out.
THEOREM PausedThm == ASSUME ControlAssumption PROVE Spec => []PausedIsPaused
  <1>1. ControlInv => PausedIsPaused
    BY Zenon DEF ControlInv, ControlCore, Active, PausedOK, PausedIsPaused
  <1> QED BY <1>1, ControlInvariant, ControlAssumption, PTL

\* save_vcpu_states succeeds only while every vCPU is paused, whatever failed
\* commands left in the channels, as long as no response has timed out.
THEOREM SavedThm == ASSUME ControlAssumption PROVE Spec => []SavedWhilePaused
  <1>1. ControlInv => SavedWhilePaused
    BY Zenon DEF ControlInv, ControlCore, SavedWhilePaused
  <1> QED BY <1>1, ControlInvariant, ControlAssumption, PTL

-----------------------------------------------------------------------------
(* The memory of a snapshot.                                               *)

\* Every set of naturals has a least one.
LEMMA Least ==
    ASSUME NEW T, T \subseteq Nat, T # {}
    PROVE  \E x \in T : \A y \in T : x <= y
  <1> DEFINE R == {ss \in Nat \X Nat : ss[1] < ss[2]}
  <1>1. IsWellFoundedOn(R, Nat)
    BY NatLessThanWellFounded, Zenon DEF OpToRel
  <1>2. \A x, y \in Nat : y < x => <<y, x>> \in R
    BY Zenon
  <1> HIDE DEF R
  <1>3. PICK x \in T : \A y \in T : ~ (<<y, x>> \in R)
    BY <1>1, WFMin, Zenon
  <1>4. \A y \in T : ~(y < x)
    BY <1>2, <1>3, Zenon
  <1> QED BY <1>3, <1>4

Files == UNION {[D -> Nat] : D \in SUBSET Pages}

\* A page has not changed since the last snapshot, or has been emptied since.
SameAs(p, v) == v = snapped[p] \/ (p \in inflated /\ v = 0)
AddsUp(p) == Reads(p, snapped[p]) \/ (p \in inflated /\ snapped[p] = 0)

\* A diff file that is being written: the pages behind the writer are in the file
\* or have not changed, those of the batch are about to be written, and those
\* ahead are marked or have not changed.
Batch(w) == w.write_size > 0 => /\ w.pos = w.writer_offset + w.dirty_batch_start
                                /\ w.dirty_batch_start + w.write_size = w.page
Place(w) ==
    \/ w.slot \in 1..Len(Regions) /\ w.writer_offset = offset(w.slot) /\ w.page <= Regions[w.slot].size
    \/ w.slot = Len(Regions) + 1 /\ w.writer_offset = NumPages /\ w.page = 0
Writer == [bitmap : SUBSET Pages, slot : Nat, page : Nat, writer_offset : Nat, pos : Nat,
           dirty_batch_start : Nat, write_size : Nat, file : Files]
Behind(w) == \A p \in Pages : p < w.writer_offset + w.page - w.write_size /\ p \notin DOMAIN w.file =>
                 SameAs(p, mem[p])
Ahead(w) == \A p \in Pages : p >= w.writer_offset + w.page /\ p \notin w.bitmap /\ p \notin fc_dirty =>
                SameAs(p, mem[p])
Copies(w) == \A p \in DOMAIN w.file : w.file[p] = mem[p]
DumpInv(w) ==
    /\ w \in Writer /\ Place(w) /\ Batch(w) /\ w.write_size <= w.page
    /\ Copies(w) /\ (~failed => Behind(w) /\ Ahead(w))
    /\ ~vcpus_run /\ io = << >> /\ track_dirty_pages

\* The pages the kernel has written for a request that is not complete.
InFlight == {p \in Pages : io # << >> /\ io[1].page = p /\ io[1].state = "written"}
Tracked == \A p \in Pages : p \notin kvm_dirty /\ p \notin fc_dirty /\ p \notin InFlight => SameAs(p, mem[p])

\* What rebase-snap has copied.
Copied == layers # << >> => \A p \in DOMAIN layers[1] : p < cursor => base[p] = layers[1][p]

SnapTypes ==
    /\ vcpus_run \in BOOLEAN /\ track_dirty_pages \in BOOLEAN /\ failed \in BOOLEAN
    /\ writes \in Nat /\ snapshots \in Nat /\ cursor \in Nat
    /\ mem \in [Pages -> Nat] /\ base \in [Pages -> Nat] /\ snapped \in [Pages -> Nat]
    /\ kvm_dirty \in SUBSET Pages /\ fc_dirty \in SUBSET Pages
    /\ io = << >> \/ \E p \in Pages, stage \in {"submitted", "written"} : io = <<[page |-> p, state |-> stage]>>
    /\ layers \in Seq(Files)

SnapInv ==
    /\ SnapTypes
    /\ Free => (~failed /\ track_dirty_pages => Tracked)
    /\ Dumping => writer = <<writer[1]>> /\ DumpInv(writer[1])
    /\ layers = << >> => cursor = 0
    /\ Copied /\ DiffsAddUp

\* A region lies in the memory file.
LEMMA RegionsFit ==
    ASSUME NEW r \in 1..Len(Regions)
    PROVE  /\ Len(Regions) \in Nat /\ NumPages \in Nat
           /\ offset(r) \in Nat /\ Regions[r].size \in Nat \ {0} /\ offset(r) + Regions[r].size <= NumPages
  <1>1. Len(Regions) \in Nat \ {0}
    BY SnapAssumption
  <1>2. \A q \in 1..Len(Regions) : offset(q) \in Nat /\ Regions[q].size \in Nat \ {0}
    <2>1. \A q \in 1..Len(Regions) : Regions[q] \in [offset : Nat, size : Nat \ {0}]
      <3> DEFINE S == [offset : Nat, size : Nat \ {0}]
      <3>1. Regions \in Seq(S)
        BY SnapAssumption, Zenon
      <3> HIDE DEF S
      <3>2. \A q \in 1..Len(Regions) : Regions[q] \in S
        BY <3>1
      <3> QED BY <3>2, Zenon DEF S
    <2> QED BY <2>1, Zenon DEF offset
  <1>3. NumPages = offset(Len(Regions)) + Regions[Len(Regions)].size
    BY Zenon DEF NumPages, offset
  <1>4. NumPages \in Nat
    BY <1>1, <1>2, <1>3
  <1> DEFINE Fits(q) == offset(q) + Regions[q].size <= NumPages
  <1> DEFINE T == {k \in 0..Len(Regions) - 1 : ~Fits(Len(Regions) - k)}
  <1>5. Fits(Len(Regions))
    BY <1>1, <1>2, <1>3, <1>4
  <1>6. \A q \in 1..Len(Regions) - 1 : offset(q + 1) = offset(q) + Regions[q].size
    BY SnapAssumption, Zenon
  <1>7. \A q \in 1..Len(Regions) - 1 : Fits(q + 1) => Fits(q)
    <2> SUFFICES ASSUME NEW q \in 1..Len(Regions) - 1, Fits(q + 1) PROVE Fits(q)
      BY Zenon
    <2>1. q \in 1..Len(Regions) /\ q + 1 \in 1..Len(Regions)
      BY <1>1
    <2>2. offset(q + 1) = offset(q) + Regions[q].size
      BY <1>6, Zenon
    <2>3. offset(q) \in Nat /\ offset(q + 1) \in Nat /\ Regions[q].size \in Nat /\ Regions[q + 1].size \in Nat
      BY <1>2, <2>1, Zenon
    <2> DEFINE b == offset(q + 1)
    <2> DEFINE z == Regions[q + 1].size
    <2>4. b + z <= NumPages /\ b \in Nat /\ z \in Nat
      BY <2>3, Zenon
    <2> HIDE DEF b, z
    <2>5. b <= NumPages
      BY <1>4, <2>4
    <2> QED BY <2>2, <2>5, Zenon DEF b
  <1>8. T = {}
    <2> SUFFICES ASSUME T # {} PROVE FALSE
      BY Zenon
    <2>1. T \subseteq Nat
      BY <1>1
    <2>2. PICK k \in T : \A y \in T : k <= y
      BY <2>1, Least, Zenon
    <2> HIDE DEF Fits
    <2>3. k \in 0..Len(Regions) - 1 /\ ~Fits(Len(Regions) - k)
      BY <2>2, Zenon
    <2>4. k # 0
      BY <1>1, <1>5, <2>3
    <2>5. k - 1 \in 0..Len(Regions) - 1 /\ ~(k <= k - 1)
      BY <1>1, <2>3, <2>4
    <2>6. Fits(Len(Regions) - (k - 1))
      BY <2>2, <2>5, Zenon
    <2>7. Len(Regions) - k \in 1..Len(Regions) - 1 /\ Len(Regions) - (k - 1) = (Len(Regions) - k) + 1
      BY <1>1, <2>3, <2>4
    <2> QED BY <1>7, <2>3, <2>6, <2>7, Zenon
  <1>9. Fits(r)
    <2> HIDE DEF Fits
    <2>1. Len(Regions) - r \in 0..Len(Regions) - 1 /\ Len(Regions) - (Len(Regions) - r) = r
      BY <1>1
    <2> QED BY <1>8, <2>1, Zenon
  <1> QED BY <1>1, <1>2, <1>4, <1>9, Zenon

\* Before anything has been written.
LEMMA SnapStarts == SnapInit => SnapInv
  <1> SUFFICES ASSUME SnapInit PROVE SnapInv
    BY Zenon
  <1> USE DEF SnapInit
  <1>1. SnapTypes
    <2>1. /\ mem \in [Pages -> Nat] /\ base \in [Pages -> Nat] /\ snapped \in [Pages -> Nat]
          /\ layers \in Seq(Files)
      OBVIOUS
    <2> QED BY <2>1, Zenon DEF SnapTypes
  <1>2. Tracked
    BY Zenon DEF Tracked, SameAs
  <1>3. DiffsAddUp
    BY DEF DiffsAddUp, Reads
  <1> QED BY <1>1, <1>2, <1>3, Zenon DEF SnapInv, Copied, Dumping

\* What a write of memory leaves as it was.
LEMMA WritesKeep ==
    ASSUME SnapInv, Free, NEW q \in Pages, mem' = [mem EXCEPT ![q] = writes + 1], writes' = writes + 1,
           UNCHANGED <<track_dirty_pages, files>>, vcpus_run' \in BOOLEAN,
           kvm_dirty' \in SUBSET Pages, fc_dirty' \in SUBSET Pages,
           io' = << >> \/ \E p \in Pages, stage \in {"submitted", "written"} : io' = <<[page |-> p, state |-> stage]>>,
           track_dirty_pages => \A p \in Pages : p \notin kvm_dirty' /\ p \notin fc_dirty' /\ p \notin InFlight' =>
                                   p # q /\ p \notin kvm_dirty /\ p \notin fc_dirty /\ p \notin InFlight
    PROVE  SnapInv'
  <1>1. SnapTypes'
    <2>1. mem' \in [Pages -> Nat] /\ writes' \in Nat
      BY DEF SnapInv, SnapTypes
    <2> QED BY <2>1, Zenon DEF SnapInv, SnapTypes, files
  <1>2. /\ base' = base /\ layers' = layers /\ cursor' = cursor /\ snapped' = snapped /\ failed' = failed
        /\ inflated' = inflated /\ writer' = << >> /\ track_dirty_pages' = track_dirty_pages
    BY Zenon DEF files, Free
  <1>3. ~failed /\ track_dirty_pages => Tracked'
    <2> SUFFICES ASSUME ~failed, track_dirty_pages, NEW p \in Pages,
                        p \notin kvm_dirty', p \notin fc_dirty', p \notin InFlight'
                 PROVE  SameAs(p, mem[p])'
      BY Zenon DEF Tracked, SameAs
    <2>1. p # q /\ SameAs(p, mem[p])
      BY Zenon DEF SnapInv, Tracked
    <2>2. mem'[p] = mem[p]
      BY <2>1, Zenon DEF SnapInv, SnapTypes
    <2> QED BY <1>2, <2>1, <2>2, Zenon DEF SameAs
  <1>4. Copied' /\ DiffsAddUp'
    BY <1>2, Zenon DEF SnapInv, Copied, DiffsAddUp, Reads
  <1>5. layers' = << >> => cursor' = 0
    BY <1>2, Zenon DEF SnapInv
  <1>6. ~Dumping' /\ (~failed' /\ track_dirty_pages' => Tracked')
    BY <1>1, <1>2, <1>3 DEF Dumping
  <1> QED BY <1>1, <1>2, <1>4, <1>5, <1>6, Zenon DEF SnapInv

\* What a step that leaves memory alone keeps.
LEMMA RestKeeps ==
    ASSUME SnapInv, Free, UNCHANGED <<mem, writes, track_dirty_pages, files>>, vcpus_run' \in BOOLEAN,
           kvm_dirty' \in SUBSET Pages, fc_dirty' \in SUBSET Pages,
           io' = << >> \/ \E p \in Pages, stage \in {"submitted", "written"} : io' = <<[page |-> p, state |-> stage]>>,
           track_dirty_pages => \A p \in Pages : p \notin kvm_dirty' /\ p \notin fc_dirty' /\ p \notin InFlight' =>
                                   p \notin kvm_dirty /\ p \notin fc_dirty /\ p \notin InFlight
    PROVE  SnapInv'
  <1>1. /\ base' = base /\ layers' = layers /\ cursor' = cursor /\ snapped' = snapped /\ failed' = failed
        /\ inflated' = inflated /\ writer' = << >> /\ track_dirty_pages' = track_dirty_pages /\ mem' = mem /\ writes' = writes
        /\ snapshots' = snapshots
    BY Zenon DEF files, Free
  <1>2. SnapTypes'
    BY <1>1, Zenon DEF SnapInv, SnapTypes
  <1>3. ~failed /\ track_dirty_pages => Tracked'
    BY <1>1, Zenon DEF Tracked, SnapInv, SameAs
  <1>4. Copied' /\ DiffsAddUp'
    BY <1>1, Zenon DEF SnapInv, Copied, DiffsAddUp, Reads
  <1>5. layers' = << >> => cursor' = 0
    BY <1>1, Zenon DEF SnapInv
  <1>6. ~Dumping' /\ (~failed' /\ track_dirty_pages' => Tracked')
    BY <1>1, <1>2, <1>3 DEF Dumping
  <1> QED BY <1>1, <1>2, <1>4, <1>5, <1>6, Zenon DEF SnapInv

\* A request in flight, if there is one.
LEMMA RequestFields ==
    ASSUME SnapInv, io # << >>
    PROVE  /\ io = <<io[1]>> /\ io[1].page \in Pages /\ io[1].state \in {"submitted", "written"}
           /\ io[1] = [page |-> io[1].page, state |-> io[1].state]
  <1>1. PICK p \in Pages, stage \in {"submitted", "written"} : io = <<[page |-> p, state |-> stage]>>
    BY Zenon DEF SnapInv, SnapTypes
  <1> QED BY <1>1, Zenon

\* The guest and the devices write memory and mark it.
LEMMA GuestWritesKeep ==
    ASSUME SnapInv, GuestWrites
    PROVE  SnapInv'
  <1>1. PICK q \in Pages : Changed(q) /\ kvm_dirty' = IF track_dirty_pages THEN kvm_dirty \cup {q} ELSE {}
    BY Zenon DEF GuestWrites
  <1>2. vcpus_run' = vcpus_run /\ vcpus_run /\ UNCHANGED <<fc_dirty, track_dirty_pages, io, files>>
    BY Zenon DEF GuestWrites
  <1>3. Free
    BY <1>2, Zenon DEF SnapInv, Free, Dumping, DumpInv
  <1>4. kvm_dirty' \in SUBSET Pages /\ kvm_dirty \in SUBSET Pages /\ fc_dirty \in SUBSET Pages /\ vcpus_run \in BOOLEAN
    BY <1>1, Zenon DEF SnapInv, SnapTypes
  <1>5. InFlight' = InFlight
    BY <1>2, Zenon DEF InFlight
  <1>6. track_dirty_pages => \A p \in Pages : p \notin kvm_dirty' => p # q /\ p \notin kvm_dirty
    BY <1>1, Zenon
  <1>7. io' = << >> \/ \E p \in Pages, stage \in {"submitted", "written"} : io' = <<[page |-> p, state |-> stage]>>
    BY <1>2, Zenon DEF SnapInv, SnapTypes
  <1> QED BY <1>1, <1>2, <1>3, <1>4, <1>5, <1>6, <1>7, WritesKeep, Zenon DEF Changed

LEMMA DeviceWritesKeep ==
    ASSUME SnapInv, DeviceWrites
    PROVE  SnapInv'
  <1>1. PICK q \in Pages : Changed(q) /\ fc_dirty' = IF track_dirty_pages THEN fc_dirty \cup {q} ELSE {}
    BY Zenon DEF DeviceWrites, mark_dirty_mem
  <1>2. Free /\ UNCHANGED <<vcpus_run, kvm_dirty, track_dirty_pages, io, files>>
    BY Zenon DEF DeviceWrites
  <1>3. fc_dirty' \in SUBSET Pages /\ kvm_dirty \in SUBSET Pages /\ fc_dirty \in SUBSET Pages /\ vcpus_run \in BOOLEAN
    BY <1>1, Zenon DEF SnapInv, SnapTypes
  <1>4. InFlight' = InFlight
    BY <1>2, Zenon DEF InFlight
  <1>5. track_dirty_pages => \A p \in Pages : p \notin fc_dirty' => p # q /\ p \notin fc_dirty
    BY <1>1
  <1>6. io' = << >> \/ \E p \in Pages, stage \in {"submitted", "written"} : io' = <<[page |-> p, state |-> stage]>>
    BY <1>2, Zenon DEF SnapInv, SnapTypes
  <1> QED BY <1>1, <1>2, <1>3, <1>4, <1>5, <1>6, WritesKeep, Zenon DEF Changed

\* The balloon empties a page, and nobody marks it.
LEMMA InflatesKeep ==
    ASSUME SnapInv, BalloonInflates
    PROVE  SnapInv'
  <1>1. PICK q \in Pages : mem' = [mem EXCEPT ![q] = 0] /\ inflated' = inflated \cup {q}
    BY Zenon DEF BalloonInflates
  <1>2. /\ Free /\ writes' = writes + 1
        /\ UNCHANGED <<vcpus_run, kvm_dirty, fc_dirty, track_dirty_pages, io, base, layers, cursor, writer,
                       snapped, snapshots, failed>>
    BY Zenon DEF BalloonInflates
  <1>3. SnapTypes'
    <2>1. mem' \in [Pages -> Nat] /\ writes' \in Nat
      BY <1>1, <1>2 DEF SnapInv, SnapTypes
    <2> QED BY <1>2, <2>1, Zenon DEF SnapInv, SnapTypes
  <1>4. ~failed /\ track_dirty_pages => Tracked'
    <2> SUFFICES ASSUME ~failed, track_dirty_pages, NEW p \in Pages,
                        p \notin kvm_dirty', p \notin fc_dirty', p \notin InFlight'
                 PROVE  SameAs(p, mem[p])'
      BY Zenon DEF Tracked
    <2>1. SameAs(p, mem[p])
      BY <1>2, Zenon DEF SnapInv, Tracked, InFlight
    <2>2. mem'[p] = IF p = q THEN 0 ELSE mem[p]
      BY <1>1, Zenon DEF SnapInv, SnapTypes
    <2> QED BY <1>1, <1>2, <2>1, <2>2, Zenon DEF SameAs
  <1>5. Copied' /\ DiffsAddUp'
    BY <1>1, <1>2, Zenon DEF SnapInv, Copied, DiffsAddUp, Reads
  <1>6. layers' = << >> => cursor' = 0
    BY <1>2, Zenon DEF SnapInv
  <1>7. ~Dumping' /\ (~failed' /\ track_dirty_pages' => Tracked')
    BY <1>2, <1>4, Zenon DEF Dumping, Free
  <1> QED BY <1>3, <1>5, <1>6, <1>7, Zenon DEF SnapInv

\* The kernel writes it for a request, which nobody marks.
LEMMA KernelWritesKeep ==
    ASSUME SnapInv, KernelWrites
    PROVE  SnapInv'
  <1>1. /\ io # << >> /\ io[1].state = "submitted" /\ Changed(io[1].page)
        /\ io' = <<[io[1] EXCEPT !.state = "written"]>>
        /\ UNCHANGED <<vcpus_run, kvm_dirty, fc_dirty, track_dirty_pages, files>>
    BY Zenon DEF KernelWrites
  <1>2. Free
    BY <1>1, Zenon DEF SnapInv, Free, Dumping, DumpInv
  <1> DEFINE q == io[1].page
  <1>3. q \in Pages /\ io' = <<[page |-> q, state |-> "written"]>>
    BY <1>1, RequestFields
  <1>4. kvm_dirty \in SUBSET Pages /\ fc_dirty \in SUBSET Pages /\ vcpus_run \in BOOLEAN
    BY Zenon DEF SnapInv, SnapTypes
  <1>5. InFlight' = {q} /\ InFlight = {}
    <2>1. io' # << >> /\ io'[1].page = q /\ io'[1].state = "written"
      BY <1>3, Zenon
    <2> HIDE DEF q
    <2> QED BY <1>1, <1>3, <2>1, Zenon DEF InFlight
  <1>6. io' = << >> \/ \E p \in Pages, stage \in {"submitted", "written"} : io' = <<[page |-> p, state |-> stage]>>
    BY <1>3, Zenon
  <1>7. mem' = [mem EXCEPT ![q] = writes + 1] /\ writes' = writes + 1
    BY <1>1, Zenon DEF Changed
  <1>8. UNCHANGED <<track_dirty_pages, files>> /\ vcpus_run' \in BOOLEAN
        /\ kvm_dirty' \in SUBSET Pages /\ fc_dirty' \in SUBSET Pages
    BY <1>1, <1>4, Zenon
  <1>9. \A p \in Pages : p \notin kvm_dirty' /\ p \notin fc_dirty' /\ p \notin InFlight' =>
                           p # q /\ p \notin kvm_dirty /\ p \notin fc_dirty /\ p \notin InFlight
    BY <1>1, <1>5, Zenon
  <1> HIDE DEF q
  <1> QED BY <1>2, <1>3, <1>6, <1>7, <1>8, <1>9, WritesKeep, Zenon

\* Steps that do not write it.
LEMMA SubmitKeeps ==
    ASSUME SnapInv, SubmitIo
    PROVE  SnapInv'
  <1>1. PICK q \in Pages : io' = <<[page |-> q, state |-> "submitted"]>>
    BY Zenon DEF SubmitIo
  <1>2. /\ Free /\ io = << >>
        /\ UNCHANGED <<vcpus_run, mem, writes, kvm_dirty, fc_dirty, track_dirty_pages, files>>
    BY Zenon DEF SubmitIo
  <1>3. kvm_dirty \in SUBSET Pages /\ fc_dirty \in SUBSET Pages /\ vcpus_run \in BOOLEAN
    BY Zenon DEF SnapInv, SnapTypes
  <1>4. InFlight' = {} /\ InFlight = {}
    BY <1>1, <1>2, Zenon DEF InFlight
  <1>5. io' = << >> \/ \E p \in Pages, stage \in {"submitted", "written"} : io' = <<[page |-> p, state |-> stage]>>
    BY <1>1, Zenon
  <1> QED BY <1>2, <1>3, <1>4, <1>5, RestKeeps, Zenon

LEMMA CompleteKeeps ==
    ASSUME SnapInv, CompleteIo
    PROVE  SnapInv'
  <1>1. /\ Free /\ io # << >> /\ io[1].state = "written" /\ io' = << >>
        /\ fc_dirty' = IF track_dirty_pages THEN fc_dirty \cup {io[1].page} ELSE {}
        /\ UNCHANGED <<vcpus_run, mem, writes, kvm_dirty, track_dirty_pages, files>>
    BY Zenon DEF CompleteIo, mark_dirty_mem
  <1>2. io[1].page \in Pages
    BY <1>1, RequestFields, Zenon
  <1>3. kvm_dirty \in SUBSET Pages /\ fc_dirty \in SUBSET Pages /\ vcpus_run \in BOOLEAN
    BY Zenon DEF SnapInv, SnapTypes
  <1>4. fc_dirty' \in SUBSET Pages
    BY <1>1, <1>2, <1>3, Zenon
  <1>5. InFlight' = {} /\ InFlight = {io[1].page}
    BY <1>1, <1>2, Zenon DEF InFlight
  <1>6. track_dirty_pages => \A p \in Pages : p \notin kvm_dirty' /\ p \notin fc_dirty' /\ p \notin InFlight' =>
                                p \notin kvm_dirty /\ p \notin fc_dirty /\ p \notin InFlight
    BY <1>1, <1>5, Zenon
  <1> QED BY <1>1, <1>3, <1>4, <1>6, RestKeeps, Zenon

LEMMA PauseResumeKeep ==
    ASSUME SnapInv, pause_vcpus \/ resume_vcpus
    PROVE  SnapInv'
  <1>1. UNCHANGED <<mem, writes, kvm_dirty, fc_dirty, track_dirty_pages, io, files>> /\ vcpus_run' \in BOOLEAN
    BY Zenon DEF pause_vcpus, resume_vcpus
  <1>2. Free
    BY Zenon DEF SnapInv, Free, Dumping, DumpInv, pause_vcpus, resume_vcpus
  <1>3. kvm_dirty \in SUBSET Pages /\ fc_dirty \in SUBSET Pages
    BY Zenon DEF SnapInv, SnapTypes
  <1>4. InFlight' = InFlight
    BY <1>1, Zenon DEF InFlight
  <1>5. io' = << >> \/ \E p \in Pages, stage \in {"submitted", "written"} : io' = <<[page |-> p, state |-> stage]>>
    BY <1>1, Zenon DEF SnapInv, SnapTypes
  <1> QED BY <1>1, <1>2, <1>3, <1>4, <1>5, RestKeeps, Zenon

\* save_state drains the request in flight: what is left to mark is marked.
LEMMA Drained ==
    ASSUME SnapInv, save_state
    PROVE  /\ Free /\ ~vcpus_run /\ mem' = drained_mem /\ io' = << >> /\ UNCHANGED <<vcpus_run, track_dirty_pages>>
           /\ drained_mem \in [Pages -> Nat] /\ writes' \in Nat /\ drained_dirty \in SUBSET Pages
           /\ ~failed /\ track_dirty_pages =>
                \A p \in Pages : p \notin kvm_dirty /\ p \notin drained_dirty => SameAs(p, drained_mem[p])
           /\ InFlight' = {}
  <1>1. /\ Free /\ ~vcpus_run /\ mem' = drained_mem /\ io' = << >> /\ UNCHANGED <<vcpus_run, track_dirty_pages>>
        /\ writes' = IF drained_mem # mem THEN writes + 1 ELSE writes
    BY Zenon DEF save_state
  <1>2. mem \in [Pages -> Nat] /\ writes \in Nat /\ fc_dirty \in SUBSET Pages
    BY Zenon DEF SnapInv, SnapTypes
  <1>3. InFlight' = {}
    BY <1>1, Zenon DEF InFlight
  <1>4. ~failed /\ track_dirty_pages => Tracked
    BY <1>1, Zenon DEF SnapInv
  <1>5. CASE io = << >>
    <2>1. drained_mem = mem /\ drained_dirty = fc_dirty /\ InFlight = {}
      BY <1>5, Zenon DEF drained_mem, drained_dirty, InFlight
    <2> QED BY <1>1, <1>2, <1>3, <1>4, <2>1, Zenon DEF Tracked, SameAs
  <1>6. CASE io # << >>
    <2> DEFINE q == io[1].page
    <2>1. q \in Pages /\ io[1].state \in {"submitted", "written"}
      BY <1>6, RequestFields, Zenon
    <2>2. drained_dirty = IF track_dirty_pages THEN fc_dirty \cup {q} ELSE {}
      BY <1>6, Zenon DEF drained_dirty, mark_dirty_mem
    <2>3. drained_mem = mem \/ drained_mem = [mem EXCEPT ![q] = writes + 1]
      BY <1>6, Zenon DEF drained_mem
    <2>4. InFlight \subseteq {q}
      BY Zenon DEF InFlight
    <2> HIDE DEF q
    <2>5. drained_mem \in [Pages -> Nat] /\ writes' \in Nat /\ drained_dirty \in SUBSET Pages
      BY <1>1, <1>2, <2>1, <2>2, <2>3
    <2>6. \A p \in Pages : p # q => drained_mem[p] = mem[p]
      BY <1>2, <2>3, Zenon
    <2>7. ~failed /\ track_dirty_pages =>
            \A p \in Pages : p \notin kvm_dirty /\ p \notin drained_dirty => SameAs(p, drained_mem[p])
      BY <1>4, <2>2, <2>4, <2>6, Zenon DEF Tracked, SameAs
    <2> QED BY <1>1, <1>3, <2>5, <2>7, Zenon
  <1> QED BY <1>5, <1>6, Zenon

\* A full snapshot starts a new chain.
LEMMA CreateFullKeeps ==
    ASSUME SnapInv, CreateFull
    PROVE  SnapInv'
  <1>1. /\ save_state /\ base' = dump(drained_mem) /\ layers' = << >> /\ cursor' = 0 /\ snapped' = drained_mem
        /\ snapshots' = snapshots + 1 /\ failed' = FALSE /\ inflated' = {} /\ fc_dirty' = drained_dirty
        /\ UNCHANGED <<kvm_dirty, writer>>
    BY Zenon DEF CreateFull
  <1>2. /\ Free /\ ~vcpus_run /\ mem' = drained_mem /\ io' = << >> /\ UNCHANGED <<vcpus_run, track_dirty_pages>>
        /\ drained_mem \in [Pages -> Nat] /\ writes' \in Nat /\ drained_dirty \in SUBSET Pages
    BY <1>1, Drained, Zenon
  <1> HIDE DEF drained_mem
  <1>3. base' = drained_mem
    BY <1>1, <1>2, Zenon DEF dump
  <1>4. SnapTypes'
    <2>1. snapshots' \in Nat /\ layers' \in Seq(Files) /\ cursor' \in Nat
      BY <1>1 DEF SnapInv, SnapTypes
    <2>2. /\ vcpus_run \in BOOLEAN /\ track_dirty_pages \in BOOLEAN /\ kvm_dirty \in SUBSET Pages
      BY Zenon DEF SnapInv, SnapTypes
    <2> QED BY <1>1, <1>2, <1>3, <2>1, <2>2, Zenon DEF SnapTypes
  <1>5. Tracked' /\ Copied'
    BY <1>1, <1>2, Zenon DEF Tracked, Copied, SameAs
  <1>6. DiffsAddUp'
    <2>1. \A p \in Pages : Reads(p, snapped[p])'
      BY <1>1, <1>3 DEF Reads
    <2> QED BY <2>1, Zenon DEF DiffsAddUp
  <1>7. ~Dumping'
    BY <1>1, <1>2, Zenon DEF Dumping, Free
  <1> QED BY <1>1, <1>4, <1>5, <1>6, <1>7, Zenon DEF SnapInv

\* Steps of create_snapshot that take the bitmaps but leave the files alone.
LEMMA SaveKeepsFiles ==
    ASSUME SnapInv, save_state, UNCHANGED <<base, layers, cursor, snapped, inflated>>, snapshots' = snapshots + 1,
           kvm_dirty' \in SUBSET Pages, fc_dirty' = drained_dirty, failed' \in BOOLEAN, failed => failed'
    PROVE  SnapTypes' /\ Copied' /\ DiffsAddUp' /\ (layers' = << >> => cursor' = 0)
  <1>1. /\ mem' = drained_mem /\ io' = << >> /\ UNCHANGED <<vcpus_run, track_dirty_pages>>
        /\ drained_mem \in [Pages -> Nat] /\ writes' \in Nat /\ drained_dirty \in SUBSET Pages
    BY Drained, Zenon
  <1>2. SnapTypes'
    <2>1. snapshots' \in Nat
      BY DEF SnapInv, SnapTypes
    <2> QED BY <1>1, <2>1, Zenon DEF SnapInv, SnapTypes
  <1>3. Copied' /\ (layers' = << >> => cursor' = 0)
    BY Zenon DEF SnapInv, Copied
  <1>4. DiffsAddUp'
    BY Zenon DEF SnapInv, DiffsAddUp, Reads
  <1> QED BY <1>2, <1>3, <1>4, Zenon

\* A snapshot fails before a diff file is begun.
LEMMA FailuresKeep ==
    ASSUME SnapInv, get_dirty_bitmap_fails \/ CreateFullFails
    PROVE  SnapInv'
  <1>1. /\ save_state /\ UNCHANGED <<base, layers, cursor, writer, snapped, inflated>> /\ snapshots' = snapshots + 1
        /\ fc_dirty' = drained_dirty
    BY Zenon DEF get_dirty_bitmap_fails, CreateFullFails
  <1>2. /\ Free /\ mem' = drained_mem /\ track_dirty_pages' = track_dirty_pages
        /\ ~failed /\ track_dirty_pages =>
             \A p \in Pages : p \notin kvm_dirty /\ p \notin drained_dirty => SameAs(p, drained_mem[p])
    BY <1>1, Drained, Zenon
  <1>3. kvm_dirty \in SUBSET Pages /\ failed \in BOOLEAN
    BY Zenon DEF SnapInv, SnapTypes
  <1>4. kvm_dirty' \in SUBSET Pages /\ failed' \in BOOLEAN /\ (failed => failed') /\ (~failed' => kvm_dirty' = kvm_dirty)
    <2>1. CASE get_dirty_bitmap_fails
      <3>1. PICK n \in 0..Len(Regions) : /\ kvm_dirty' = kvm_dirty \ UNION {PagesOfRegion(r) : r \in 1..n}
                                         /\ failed' = (failed \/ n > 0)
        BY <2>1, Zenon DEF get_dirty_bitmap_fails
      <3>2. n = 0 \/ n > 0
        BY SnapAssumption
      <3>3. n = 0 => UNION {PagesOfRegion(r) : r \in 1..n} = {}
        OBVIOUS
      <3> QED BY <1>3, <3>1, <3>2, <3>3, Zenon
    <2>2. CASE CreateFullFails
      BY <1>3, <2>2, Zenon DEF CreateFullFails
    <2> QED BY <2>1, <2>2, Zenon
  <1>5. SnapTypes' /\ Copied' /\ DiffsAddUp' /\ (layers' = << >> => cursor' = 0)
    BY <1>1, <1>4, SaveKeepsFiles, Zenon
  <1>6. ~failed' /\ track_dirty_pages' => Tracked'
    BY <1>1, <1>2, <1>3, <1>4, Zenon DEF Tracked, SameAs
  <1>7. ~Dumping'
    BY <1>1, <1>2, Zenon DEF Dumping, Free
  <1> QED BY <1>5, <1>6, <1>7, Zenon DEF SnapInv

\* A diff snapshot begins.
LEMMA CreateDiffKeeps ==
    ASSUME SnapInv, CreateDiff
    PROVE  SnapInv'
  <1> PICK w : w = [bitmap |-> kvm_dirty, slot |-> 1, page |-> 0, writer_offset |-> 0, pos |-> 0,
                    dirty_batch_start |-> 0, write_size |-> 0, file |-> [p \in {} |-> 0]]
    BY Zenon
  <1>1. /\ save_state /\ track_dirty_pages /\ kvm_dirty' = {} /\ fc_dirty' = drained_dirty
        /\ snapshots' = snapshots + 1 /\ writer' = <<w>>
        /\ UNCHANGED <<base, layers, cursor, snapped, failed, inflated>>
    BY Zenon DEF CreateDiff
  <1>2. /\ ~vcpus_run /\ mem' = drained_mem /\ io' = << >> /\ UNCHANGED <<vcpus_run, track_dirty_pages>>
        /\ ~failed /\ track_dirty_pages =>
             \A p \in Pages : p \notin kvm_dirty /\ p \notin drained_dirty => SameAs(p, drained_mem[p])
    BY <1>1, Drained, Zenon
  <1>3. kvm_dirty \in SUBSET Pages /\ failed \in BOOLEAN
    BY Zenon DEF SnapInv, SnapTypes
  <1>4. SnapTypes' /\ Copied' /\ DiffsAddUp' /\ (layers' = << >> => cursor' = 0)
    <2>1. kvm_dirty' \in SUBSET Pages /\ failed' \in BOOLEAN /\ (failed => failed')
      BY <1>1, <1>3, Zenon
    <2> QED BY <1>1, <2>1, SaveKeepsFiles, Zenon
  <1>5. /\ w.bitmap = kvm_dirty /\ w.slot = 1 /\ w.page = 0 /\ w.writer_offset = 0 /\ w.pos = 0
        /\ w.dirty_batch_start = 0 /\ w.write_size = 0 /\ w.file = [p \in {} |-> 0]
    BY Zenon
  <1>6. [p \in {} |-> 0] \in Files
    BY Zenon DEF Files
  <1>7. w \in Writer
    BY <1>3, <1>6, Zenon DEF Writer
  <1>8. Place(w)
    <2>1. 1 \in 1..Len(Regions) /\ offset(1) = 0
      BY SnapAssumption
    <2>2. Regions[1].size \in Nat
      BY <2>1, RegionsFit, Zenon
    <2> QED BY <1>5, <2>1, <2>2, SMTT(30) DEF Place
  <1>9. Batch(w) /\ w.write_size <= w.page /\ (Copies(w))'
    <2>1. DOMAIN w.file = {}
      BY <1>5, Zenon
    <2> QED BY <1>5, <2>1 DEF Batch, Copies
  <1>10. ~failed' => (Behind(w))' /\ (Ahead(w))'
    <2>1. \A p \in Pages : p \notin kvm_dirty /\ p \notin drained_dirty /\ ~failed => SameAs(p, mem[p])'
      BY <1>1, <1>2, Zenon DEF SameAs
    <2>2. \A p \in Pages : ~(p < 0 + 0 - 0)
      BY DEF Pages
    <2>3. (Behind(w))'
      BY <1>5, <2>2, Zenon DEF Behind
    <2>4. ~failed' => (Ahead(w))'
      BY <1>1, <1>5, <2>1, Zenon DEF Ahead
    <2> QED BY <2>3, <2>4, Zenon
  <1>11. (DumpInv(w))'
    BY <1>1, <1>2, <1>7, <1>8, <1>9, <1>10, Zenon DEF DumpInv
  <1>12. writer'[1] = w /\ writer' = <<writer'[1]>> /\ ~Free'
    BY <1>1, Zenon DEF Free
  <1> QED BY <1>4, <1>11, <1>12, Zenon DEF SnapInv

\* The writer of a dump that goes on.
LEMMA DumpingFacts ==
    ASSUME SnapInv, Dumping
    PROVE  /\ writer = <<writer[1]>> /\ DumpInv(writer[1])
           /\ SnapTypes /\ Copied /\ DiffsAddUp /\ (layers = << >> => cursor = 0)
  BY Zenon DEF SnapInv

\* A step of a dump that leaves all but the writer and the bitmap alone.
LEMMA DumpStepKeeps ==
    ASSUME SnapInv, Dumping, NEW w, writer' = <<w>>, fc_dirty' \in SUBSET Pages,
           UNCHANGED <<layers, snapped, failed, inflated>>, UNCHANGED_but_files,
           w \in Writer, Place(w), Batch(w), w.write_size <= w.page, Copies(w), ~failed => Behind(w) /\ (Ahead(w))'
    PROVE  SnapInv'
  <1>1. /\ DumpInv(writer[1]) /\ SnapTypes /\ Copied /\ DiffsAddUp /\ (layers = << >> => cursor = 0)
    BY DumpingFacts, Zenon
  <1>2. /\ vcpus_run' = vcpus_run /\ mem' = mem /\ writes' = writes /\ kvm_dirty' = kvm_dirty
        /\ track_dirty_pages' = track_dirty_pages /\ io' = io /\ base' = base /\ cursor' = cursor
        /\ snapshots' = snapshots
    BY Zenon DEF UNCHANGED_but_files
  <1>3. SnapTypes'
    BY <1>1, <1>2, Zenon DEF SnapTypes
  <1>4. Copied' /\ DiffsAddUp' /\ (layers' = << >> => cursor' = 0)
    BY <1>1, <1>2, Zenon DEF Copied, DiffsAddUp, Reads
  <1>5. (Copies(w))' /\ (~failed' => (Behind(w))')
    BY <1>2, Zenon DEF Copies, Behind, SameAs
  <1>6. ~vcpus_run' /\ io' = << >> /\ track_dirty_pages'
    BY <1>1, <1>2, Zenon DEF DumpInv
  <1>7. (DumpInv(w))'
    BY <1>5, <1>6, Zenon DEF DumpInv
  <1>8. writer'[1] = w /\ writer' = <<writer'[1]>> /\ ~Free'
    BY Zenon DEF Free
  <1> QED BY <1>3, <1>4, <1>7, <1>8, Zenon DEF SnapInv

\* The fields of a writer.
LEMMA WriterFields ==
    ASSUME NEW w \in Writer
    PROVE  /\ w.bitmap \in SUBSET Pages /\ w.slot \in Nat /\ w.page \in Nat /\ w.writer_offset \in Nat /\ w.pos \in Nat
           /\ w.dirty_batch_start \in Nat /\ w.write_size \in Nat /\ w.file \in Files
  BY Zenon DEF Writer

\* A batch is written: the file gets the pages of the batch, as they are in memory.
LEMMA BatchWritten ==
    ASSUME mem \in [Pages -> Nat], NEW w \in Writer, w.slot \in 1..Len(Regions), Place(w), Batch(w), Copies(w),
           w.write_size > 0, w.write_size <= w.page, NEW v, v = WriteBatch(w)
    PROVE  /\ v \in Writer /\ v.bitmap = w.bitmap /\ v.slot = w.slot /\ v.page = w.page
           /\ v.writer_offset = w.writer_offset /\ v.write_size = 0
           /\ DOMAIN v.file = DOMAIN w.file \cup (w.writer_offset + w.page - w.write_size..w.writer_offset + w.page - 1)
           /\ Copies(v)
  <1> DEFINE written == w.pos..w.pos + w.write_size - 1
  <1> DEFINE f == [p \in DOMAIN w.file \cup written |->
                     IF p \in written THEN mem[offset(w.slot) + w.dirty_batch_start + (p - w.pos)] ELSE w.file[p]]
  <1>1. v = [w EXCEPT !.file = f, !.pos = w.pos + w.write_size, !.write_size = 0]
    BY Zenon DEF WriteBatch
  <1>2. /\ w.bitmap \in SUBSET Pages /\ w.slot \in Nat /\ w.page \in Nat /\ w.writer_offset \in Nat /\ w.pos \in Nat
        /\ w.dirty_batch_start \in Nat /\ w.write_size \in Nat /\ w.file \in Files
    BY WriterFields, Zenon
  <1>3. /\ offset(w.slot) \in Nat /\ offset(w.slot) + Regions[w.slot].size <= NumPages
        /\ Regions[w.slot].size \in Nat /\ NumPages \in Nat /\ Len(Regions) \in Nat
    BY RegionsFit, Zenon
  <1>4. w.writer_offset = offset(w.slot) /\ w.page <= Regions[w.slot].size
    BY <1>2, <1>3 DEF Place
  <1>5. /\ w.pos = offset(w.slot) + w.dirty_batch_start /\ w.pos = w.writer_offset + w.dirty_batch_start
        /\ w.dirty_batch_start + w.write_size = w.page
    BY <1>4, Zenon DEF Batch
  <1> PICK start : start = w.dirty_batch_start
    BY Zenon
  <1>14. w.pos = w.writer_offset + start /\ w.page = start + w.write_size /\ start \in Nat
    BY <1>2, <1>5, Zenon
  <1>6. written = w.writer_offset + w.page - w.write_size..w.writer_offset + w.page - 1
    <2>1. w.pos = w.writer_offset + w.page - w.write_size
      BY <1>2, <1>14, SMTT(30)
    <2>2. w.pos + w.write_size - 1 = w.writer_offset + w.page - 1
      BY <1>2, <2>1, SMTT(30)
    <2> QED BY <2>1, <2>2, Zenon
  <1>7. written \subseteq Pages
    <2> SUFFICES ASSUME NEW p \in written PROVE p \in Pages
      BY Zenon
    <2>1. p \in Int /\ w.pos <= p /\ p < w.pos + w.write_size
      BY <1>2, SMTT(30)
    <2> DEFINE end == w.pos + w.write_size
    <2>2. end = w.writer_offset + w.page /\ end \in Nat
      BY <1>2, <1>14, SMTT(30)
    <2> DEFINE z == Regions[w.slot].size
    <2>3. /\ z \in Nat /\ w.writer_offset \in Nat /\ w.page \in Nat /\ w.page <= z /\ w.writer_offset + z <= NumPages
          /\ NumPages \in Nat /\ w.pos \in Nat
      BY <1>2, <1>3, <1>4, Zenon
    <2>4. p < end
      BY <2>1, Zenon
    <2> HIDE DEF end, z
    <2>5. 0 <= p /\ p < NumPages
      BY <2>1, <2>2, <2>3, <2>4, SMTT(30)
    <2> QED BY <1>3, <2>1, <2>5 DEF Pages
  <1>8. \A p \in written : offset(w.slot) + w.dirty_batch_start + (p - w.pos) = p
    BY <1>2, <1>3, <1>5
  <1> HIDE DEF written
  <1>9. DOMAIN w.file \subseteq Pages /\ \A p \in DOMAIN w.file : w.file[p] \in Nat
    BY <1>2, Zenon DEF Files
  <1>10. \A p \in DOMAIN f : f[p] = mem[p] /\ p \in Pages
    <2> SUFFICES ASSUME NEW p \in DOMAIN f PROVE f[p] = mem[p] /\ p \in Pages
      BY Zenon
    <2>1. CASE p \in written
      <3>1. f[p] = mem[offset(w.slot) + w.dirty_batch_start + (p - w.pos)]
        BY <2>1, Zenon
      <3> QED BY <1>7, <1>8, <2>1, <3>1, Zenon
    <2>2. CASE p \notin written
      <3>1. f[p] = w.file[p] /\ p \in DOMAIN w.file
        BY <2>2, Zenon
      <3> QED BY <1>9, <3>1, Zenon DEF Copies
    <2> QED BY <2>1, <2>2, Zenon
  <1>11. DOMAIN f = DOMAIN w.file \cup written /\ f = [p \in DOMAIN f |-> f[p]]
    BY Zenon
  <1> HIDE DEF f
  <1>12. f \in Files
    <2>1. f \in [DOMAIN f -> Nat]
      BY <1>10, <1>11, Zenon
    <2>2. DOMAIN f \in SUBSET Pages
      BY <1>10, Zenon
    <2> QED BY <2>1, <2>2, Zenon DEF Files
  <1>13. w.pos + w.write_size \in Nat
    BY <1>2
  <1>15. /\ v.file = f /\ v.bitmap = w.bitmap /\ v.slot = w.slot /\ v.page = w.page
         /\ v.writer_offset = w.writer_offset /\ v.write_size = 0 /\ v \in Writer
    <2>1. w = [bitmap |-> w.bitmap, slot |-> w.slot, page |-> w.page, writer_offset |-> w.writer_offset, pos |-> w.pos,
               dirty_batch_start |-> w.dirty_batch_start, write_size |-> w.write_size, file |-> w.file]
      BY Zenon DEF Writer
    <2>2. v = [bitmap |-> w.bitmap, slot |-> w.slot, page |-> w.page, writer_offset |-> w.writer_offset,
               pos |-> w.pos + w.write_size, dirty_batch_start |-> w.dirty_batch_start, write_size |-> 0, file |-> f]
      BY <1>1, <2>1, Zenon
    <2>3. v \in Writer
      BY <1>2, <1>12, <1>13, <2>2 DEF Writer
    <2> QED BY <2>2, <2>3
  <1> QED BY <1>6, <1>10, <1>11, <1>15, Zenon DEF Copies

\* One page of a region: it begins or joins a batch, or ends one.
LEMMA NextPageKeeps ==
    ASSUME SnapInv, NextPage
    PROVE  SnapInv'
  <1> PICK w : w = writer[1]
    BY Zenon
  <1> PICK v : v = DumpPage(w)
    BY Zenon
  <1> PICK u : u = [v EXCEPT !.page = @ + 1]
    BY Zenon
  <1>1. /\ Dumping /\ w.slot <= Len(Regions) /\ w.page < Regions[w.slot].size /\ writer' = <<u>>
        /\ fc_dirty' = fc_dirty /\ UNCHANGED <<layers, snapped, failed, inflated>> /\ UNCHANGED_but_files
    BY Zenon DEF NextPage
  <1>2. DumpInv(w) /\ SnapTypes
    BY <1>1, DumpingFacts, Zenon
  <1>3. /\ w \in Writer /\ Place(w) /\ Batch(w) /\ w.write_size <= w.page /\ Copies(w)
        /\ (~failed => Behind(w) /\ Ahead(w))
    BY <1>2, Zenon DEF DumpInv
  <1>4. mem \in [Pages -> Nat] /\ fc_dirty \in SUBSET Pages
    BY <1>2, Zenon DEF SnapTypes
  <1>5. /\ w.bitmap \in SUBSET Pages /\ w.slot \in Nat /\ w.page \in Nat /\ w.writer_offset \in Nat /\ w.pos \in Nat
        /\ w.dirty_batch_start \in Nat /\ w.write_size \in Nat /\ w.file \in Files
    BY <1>3, WriterFields, Zenon
  <1>6. w.slot \in 1..Len(Regions) /\ w.writer_offset = offset(w.slot)
    <2>1. Len(Regions) \in Nat
      BY SnapAssumption
    <2> QED BY <1>1, <1>3, <1>5, <2>1 DEF Place
  <1>7. Regions[w.slot].size \in Nat
    BY <1>6, RegionsFit, Zenon
  <1>8. is_dirty(w) <=> w.writer_offset + w.page \in w.bitmap \cup fc_dirty
    BY <1>6, Zenon DEF is_dirty
  <1> DEFINE here == w.writer_offset + w.page
  <1> DEFINE size == w.write_size
  <1>9. here \in Nat /\ size \in Nat
    BY <1>5
  \* What is the same whatever becomes of the page.
  <1>10. ASSUME v \in Writer, v.bitmap = w.bitmap, v.slot = w.slot, v.page = w.page,
                v.writer_offset = w.writer_offset
         PROVE  /\ u \in Writer /\ Place(u) /\ (Ahead(w) => (Ahead(u))')
                /\ u.bitmap = w.bitmap /\ u.page = w.page + 1 /\ u.writer_offset = w.writer_offset
                /\ u.pos = v.pos /\ u.dirty_batch_start = v.dirty_batch_start
                /\ u.write_size = v.write_size /\ u.file = v.file
    <2>1. /\ u \in Writer /\ u.bitmap = w.bitmap /\ u.page = w.page + 1 /\ u.writer_offset = w.writer_offset
          /\ u.slot = w.slot /\ u.pos = v.pos /\ u.dirty_batch_start = v.dirty_batch_start
          /\ u.write_size = v.write_size /\ u.file = v.file
      BY <1>5, <1>10 DEF Writer
    <2>2. Place(u)
      <3>1. w.page + 1 <= Regions[w.slot].size
        BY <1>1, <1>5, <1>7
      <3> QED BY <1>6, <2>1, <3>1, Zenon DEF Place
    <2>3. Ahead(w) => (Ahead(u))'
      <3>1. \A p \in Pages : p >= w.writer_offset + (w.page + 1) => p >= w.writer_offset + w.page
        BY <1>5 DEF Pages
      <3>2. mem' = mem /\ snapped' = snapped
        BY <1>1, Zenon DEF UNCHANGED_but_files
      <3> QED BY <1>1, <2>1, <3>1, <3>2, Zenon DEF Ahead, SameAs
    <2> QED BY <2>1, <2>2, <2>3, Zenon
  <1>11. ASSUME ~is_dirty(w), Ahead(w) PROVE \A p \in Pages : p = here => SameAs(p, mem[p])
    <2>1. \A p \in Pages : p = here => p >= here
      BY <1>9
    <2> QED BY <1>8, <1>11, <2>1, Zenon DEF Ahead
  <1>12. CASE is_dirty(w) /\ w.write_size = 0
    <2>1. v = [w EXCEPT !.pos = w.writer_offset + w.page, !.dirty_batch_start = w.page, !.write_size = 1]
      BY <1>12, Zenon DEF DumpPage, seek_pos
    <2>2. /\ v \in Writer /\ v.bitmap = w.bitmap /\ v.slot = w.slot /\ v.page = w.page
          /\ v.writer_offset = w.writer_offset /\ v.file = w.file /\ v.write_size = 1
          /\ v.pos = w.writer_offset + w.page /\ v.dirty_batch_start = w.page
      <3>1. w = [bitmap |-> w.bitmap, slot |-> w.slot, page |-> w.page, writer_offset |-> w.writer_offset, pos |-> w.pos,
                 dirty_batch_start |-> w.dirty_batch_start, write_size |-> w.write_size, file |-> w.file]
        BY <1>3, Zenon DEF Writer
      <3>2. v = [bitmap |-> w.bitmap, slot |-> w.slot, page |-> w.page, writer_offset |-> w.writer_offset,
                 pos |-> here, dirty_batch_start |-> w.page, write_size |-> 1, file |-> w.file]
        BY <2>1, <3>1, ZenonT(40)
      <3> HIDE DEF here
      <3>3. v \in Writer
        BY <1>5, <1>9, <3>2 DEF Writer
      <3>4. /\ v.bitmap = w.bitmap /\ v.slot = w.slot /\ v.page = w.page
            /\ v.writer_offset = w.writer_offset /\ v.file = w.file /\ v.write_size = 1
            /\ v.pos = here /\ v.dirty_batch_start = w.page
        BY <3>2
      <3> QED BY <3>3, <3>4, Zenon DEF here
    <2>3. /\ u \in Writer /\ Place(u) /\ (Ahead(w) => (Ahead(u))')
          /\ u.bitmap = w.bitmap /\ u.page = w.page + 1 /\ u.writer_offset = w.writer_offset
          /\ u.pos = v.pos /\ u.dirty_batch_start = v.dirty_batch_start
          /\ u.write_size = v.write_size /\ u.file = v.file
      BY <1>10, <2>2, Zenon
    <2>4. Batch(u) /\ u.write_size <= u.page
      BY <1>5, <2>2, <2>3 DEF Batch
    <2>5. Copies(u)
      <3>1. u.file = w.file
        BY <2>2, <2>3, Zenon
      <3> QED BY <1>3, <3>1, Zenon DEF Copies
    <2>6. Behind(w) => Behind(u)
      <3>1. u.writer_offset + u.page - u.write_size = w.writer_offset + w.page - w.write_size
        BY <1>5, <1>12, <2>2, <2>3, SMTT(30)
      <3> QED BY <2>2, <2>3, <3>1, Zenon DEF Behind
    <2> QED BY <1>1, <1>3, <1>4, <2>3, <2>4, <2>5, <2>6, DumpStepKeeps, Zenon
  <1>13. CASE is_dirty(w) /\ w.write_size # 0
    <2>1. v = [w EXCEPT !.write_size = @ + 1]
      BY <1>13, Zenon DEF DumpPage
    <2>2. /\ v \in Writer /\ v.bitmap = w.bitmap /\ v.slot = w.slot /\ v.page = w.page
          /\ v.writer_offset = w.writer_offset /\ v.file = w.file /\ v.write_size = w.write_size + 1
          /\ v.pos = w.pos /\ v.dirty_batch_start = w.dirty_batch_start
      BY <1>3, <1>5, <2>1 DEF Writer
    <2>3. /\ u \in Writer /\ Place(u) /\ (Ahead(w) => (Ahead(u))')
          /\ u.bitmap = w.bitmap /\ u.page = w.page + 1 /\ u.writer_offset = w.writer_offset
          /\ u.pos = v.pos /\ u.dirty_batch_start = v.dirty_batch_start
          /\ u.write_size = v.write_size /\ u.file = v.file
      BY <1>10, <2>2, Zenon
    <2>4. Batch(u) /\ u.write_size <= u.page
      BY <1>3, <1>5, <1>13, <2>2, <2>3 DEF Batch
    <2>5. Copies(u)
      <3>1. u.file = w.file
        BY <2>2, <2>3, Zenon
      <3> QED BY <1>3, <3>1, Zenon DEF Copies
    <2>6. Behind(w) => Behind(u)
      <3>1. u.writer_offset + u.page - u.write_size = w.writer_offset + w.page - w.write_size
        BY <1>5, <2>2, <2>3
      <3> QED BY <2>2, <2>3, <3>1, Zenon DEF Behind
    <2> QED BY <1>1, <1>3, <1>4, <2>3, <2>4, <2>5, <2>6, DumpStepKeeps, Zenon
  <1>14. CASE ~is_dirty(w) /\ w.write_size > 0
    <2>1. v = WriteBatch(w)
      BY <1>14, Zenon DEF DumpPage
    <2>2. /\ v \in Writer /\ v.bitmap = w.bitmap /\ v.slot = w.slot /\ v.page = w.page
          /\ v.writer_offset = w.writer_offset /\ v.write_size = 0
          /\ DOMAIN v.file = DOMAIN w.file \cup (w.writer_offset + w.page - w.write_size..w.writer_offset + w.page - 1)
          /\ Copies(v)
      BY <1>3, <1>4, <1>6, <1>14, <2>1, BatchWritten, Zenon
    <2>3. /\ u \in Writer /\ Place(u) /\ (Ahead(w) => (Ahead(u))')
          /\ u.bitmap = w.bitmap /\ u.page = w.page + 1 /\ u.writer_offset = w.writer_offset
          /\ u.pos = v.pos /\ u.dirty_batch_start = v.dirty_batch_start
          /\ u.write_size = v.write_size /\ u.file = v.file
      BY <1>10, <2>2, Zenon
    <2>4. Batch(u) /\ u.write_size <= u.page
      BY <1>5, <2>2, <2>3 DEF Batch
    <2>5. Copies(u)
      BY <2>2, <2>3, ZenonT(40) DEF Copies
    <2>6. Behind(w) /\ Ahead(w) => Behind(u)
      <3>1. \A p \in Pages : p < u.writer_offset + u.page - u.write_size =>
              \/ p < w.writer_offset + w.page - w.write_size \/ p = here
              \/ p \in w.writer_offset + w.page - w.write_size..w.writer_offset + w.page - 1
        BY <1>5, <2>2, <2>3, SMTT(30) DEF Pages
      <3> QED BY <1>11, <1>14, <2>2, <2>3, <3>1, Zenon DEF Behind
    <2> QED BY <1>1, <1>3, <1>4, <2>3, <2>4, <2>5, <2>6, DumpStepKeeps, Zenon
  <1>15. CASE ~is_dirty(w) /\ ~(w.write_size > 0)
    <2>1. v = w /\ w.write_size = 0
      <3>1. v = w
        BY <1>15, Zenon DEF DumpPage
      <3> QED BY <1>5, <1>15, <3>1
    <2>3. /\ u \in Writer /\ Place(u) /\ (Ahead(w) => (Ahead(u))')
          /\ u.bitmap = w.bitmap /\ u.page = w.page + 1 /\ u.writer_offset = w.writer_offset
          /\ u.pos = v.pos /\ u.dirty_batch_start = v.dirty_batch_start
          /\ u.write_size = v.write_size /\ u.file = v.file
      BY <1>3, <1>10, <2>1, Zenon
    <2>4. Batch(u) /\ u.write_size <= u.page
      BY <1>5, <2>1, <2>3, SMTT(30) DEF Batch
    <2>5. Copies(u)
      <3>1. u.file = w.file
        BY <2>1, <2>3, Zenon
      <3> QED BY <1>3, <3>1, Zenon DEF Copies
    <2>6. Behind(w) /\ Ahead(w) => Behind(u)
      <3>1. \A p \in Pages : p < u.writer_offset + u.page - u.write_size =>
              p < w.writer_offset + w.page - w.write_size \/ p = here
        BY <1>5, <2>1, <2>3 DEF Pages
      <3> QED BY <1>11, <1>15, <2>1, <2>3, <3>1, Zenon DEF Behind
    <2> QED BY <1>1, <1>3, <1>4, <2>3, <2>4, <2>5, <2>6, DumpStepKeeps, Zenon
  <1> QED BY <1>12, <1>13, <1>14, <1>15, Zenon

\* The end of a region: its last batch is written and its bitmap is reset.
LEMMA NextRegionKeeps ==
    ASSUME SnapInv, NextRegion
    PROVE  SnapInv'
  <1> PICK w : w = writer[1]
    OBVIOUS
  <1> PICK v : v = last_batch(w)
    OBVIOUS
  <1> PICK u : u = [v EXCEPT !.slot = @ + 1, !.page = 0, !.writer_offset = @ + Regions[w.slot].size]
    BY Zenon
  <1>1. /\ Dumping /\ w.slot <= Len(Regions) /\ w.page = Regions[w.slot].size /\ writer' = <<u>>
        /\ fc_dirty' = fc_dirty \ PagesOfRegion(w.slot) /\ UNCHANGED <<layers, snapped, failed, inflated>> /\ UNCHANGED_but_files
    BY Zenon DEF NextRegion
  <1>2. DumpInv(w) /\ SnapTypes
    BY <1>1, DumpingFacts, Zenon
  <1>3. /\ w \in Writer /\ Place(w) /\ Batch(w) /\ w.write_size <= w.page /\ Copies(w)
        /\ (~failed => Behind(w) /\ Ahead(w))
    BY <1>2, Zenon DEF DumpInv
  <1>4. mem \in [Pages -> Nat] /\ fc_dirty \in SUBSET Pages
    BY <1>2, Zenon DEF SnapTypes
  <1>5. /\ w.bitmap \in SUBSET Pages /\ w.slot \in Nat /\ w.page \in Nat /\ w.writer_offset \in Nat /\ w.pos \in Nat
        /\ w.dirty_batch_start \in Nat /\ w.write_size \in Nat /\ w.file \in Files
    BY <1>3, WriterFields, Zenon
  <1>6. w.slot \in 1..Len(Regions) /\ w.writer_offset = offset(w.slot) /\ Len(Regions) \in Nat
    <2>1. Len(Regions) \in Nat
      BY SnapAssumption
    <2> QED BY <1>1, <1>3, <1>5, <2>1 DEF Place
  <1>7. Regions[w.slot].size \in Nat
    BY <1>6, RegionsFit, Zenon
  <1> DEFINE z == Regions[w.slot].size
  <1>8. /\ v \in Writer /\ v.bitmap = w.bitmap /\ v.slot = w.slot /\ v.page = w.page
        /\ v.writer_offset = w.writer_offset /\ v.write_size = 0 /\ Copies(v) /\ DOMAIN w.file \subseteq DOMAIN v.file
        /\ \A p \in w.writer_offset + w.page - w.write_size..w.writer_offset + w.page - 1 : p \in DOMAIN v.file
    <2>1. CASE w.write_size > 0
      <3>1. v = WriteBatch(w)
        BY <2>1, Zenon DEF last_batch
      <3>2. /\ v \in Writer /\ v.bitmap = w.bitmap /\ v.slot = w.slot /\ v.page = w.page
            /\ v.writer_offset = w.writer_offset /\ v.write_size = 0
            /\ DOMAIN v.file = DOMAIN w.file \cup (w.writer_offset + w.page - w.write_size..w.writer_offset + w.page - 1)
            /\ Copies(v)
        BY <1>3, <1>4, <1>6, <2>1, <3>1, BatchWritten, Zenon
      <3> QED BY <3>2, Zenon
    <2>2. CASE ~(w.write_size > 0)
      <3>1. v = w
        BY <2>2, Zenon DEF last_batch
      <3>2. w.write_size = 0
        BY <1>5, <2>2
      <3>3. \A p \in w.writer_offset + w.page - w.write_size..w.writer_offset + w.page - 1 : FALSE
        BY <1>5, <3>2
      <3> QED BY <1>3, <3>1, <3>2, <3>3, Zenon
    <2> QED BY <2>1, <2>2, Zenon
  <1>9. /\ u.bitmap = w.bitmap /\ u.slot = w.slot + 1 /\ u.page = 0 /\ u.writer_offset = w.writer_offset + z
        /\ u.write_size = 0 /\ u.file = v.file /\ u \in Writer
    <2>1. v = [bitmap |-> v.bitmap, slot |-> v.slot, page |-> v.page, writer_offset |-> v.writer_offset, pos |-> v.pos,
               dirty_batch_start |-> v.dirty_batch_start, write_size |-> v.write_size, file |-> v.file]
      BY <1>8, Zenon DEF Writer
    <2>2. u = [bitmap |-> v.bitmap, slot |-> v.slot + 1, page |-> 0, writer_offset |-> v.writer_offset + z, pos |-> v.pos,
               dirty_batch_start |-> v.dirty_batch_start, write_size |-> v.write_size, file |-> v.file]
      BY <2>1, Zenon
    <2>3. v.slot + 1 \in Nat /\ v.writer_offset + z \in Nat
      BY <1>5, <1>7, <1>8
    <2>4. /\ v.bitmap \in SUBSET Pages /\ v.pos \in Nat
          /\ v.dirty_batch_start \in Nat /\ v.write_size \in Nat /\ v.file \in Files
      BY <1>8, WriterFields, Zenon
    <2>5. u \in Writer
      <3> DEFINE next == v.slot + 1
      <3> DEFINE further == v.writer_offset + z
      <3>1. u = [bitmap |-> v.bitmap, slot |-> next, page |-> 0, writer_offset |-> further, pos |-> v.pos,
                 dirty_batch_start |-> v.dirty_batch_start, write_size |-> v.write_size, file |-> v.file]
        BY <2>2, Zenon
      <3>2. next \in Nat /\ further \in Nat
        BY <2>3, Zenon
      <3> HIDE DEF next, further
      <3> QED BY <2>4, <3>1, <3>2 DEF Writer
    <2>6. /\ u.bitmap = v.bitmap /\ u.slot = v.slot + 1 /\ u.page = 0 /\ u.writer_offset = v.writer_offset + z
          /\ u.write_size = v.write_size /\ u.file = v.file
      BY <2>2, Zenon
    <2> QED BY <1>8, <2>5, <2>6, Zenon
  <1>10. Place(u)
    <2>1. CASE w.slot = Len(Regions)
      <3>1. u.writer_offset = NumPages
        BY <1>6, <1>9, <2>1, Zenon DEF NumPages, offset
      <3> QED BY <1>9, <2>1, <3>1, Zenon DEF Place
    <2>2. CASE w.slot # Len(Regions)
      <3>1. w.slot \in 1..Len(Regions) - 1 /\ w.slot + 1 \in 1..Len(Regions)
        BY <1>6, <2>2
      <3>2. offset(w.slot + 1) = offset(w.slot) + Regions[w.slot].size
        BY <3>1, SnapAssumption, Zenon
      <3>3. 0 <= Regions[w.slot + 1].size
        <4>1. Regions[w.slot + 1].size \in Nat \ {0}
          BY <3>1, RegionsFit, Zenon
        <4> QED BY <4>1
      <3> QED BY <1>6, <1>9, <3>1, <3>2, <3>3, Zenon DEF Place
    <2> QED BY <2>1, <2>2, Zenon
  <1>11. Batch(u) /\ u.write_size <= u.page
    BY <1>9 DEF Batch
  <1>12. Copies(u)
    BY <1>8, <1>9, Zenon DEF Copies
  <1>13. Behind(w) => Behind(u)
    <2>1. \A p \in Pages : p < u.writer_offset + u.page - u.write_size =>
            \/ p < w.writer_offset + w.page - w.write_size
            \/ p \in w.writer_offset + w.page - w.write_size..w.writer_offset + w.page - 1
      <3>1. z \in Nat /\ w.page = z
        BY <1>1, <1>7, Zenon
      <3> HIDE DEF z
      <3> QED BY <1>5, <1>9, <3>1 DEF Pages
    <2> QED BY <1>8, <1>9, <2>1, Zenon DEF Behind
  <1>14. Ahead(w) => (Ahead(u))'
    <2>1. mem' = mem /\ snapped' = snapped
      BY <1>1, Zenon DEF UNCHANGED_but_files
    <2>2. \A p \in Pages : p >= u.writer_offset + u.page =>
            p >= w.writer_offset + w.page /\ p \notin PagesOfRegion(w.slot)
      <3>1. PagesOfRegion(w.slot) = w.writer_offset..w.writer_offset + z - 1
        BY <1>6, Zenon DEF PagesOfRegion
      <3>2. z \in Nat /\ w.page = z
        BY <1>1, <1>7, Zenon
      <3> HIDE DEF z
      <3> QED BY <1>5, <1>9, <3>1, <3>2, SMTT(30) DEF Pages
    <2> QED BY <1>1, <1>9, <2>1, <2>2, Zenon DEF Ahead, SameAs
  <1>15. fc_dirty' \in SUBSET Pages
    BY <1>1, <1>4, Zenon
  <1> QED BY <1>1, <1>3, <1>9, <1>10, <1>11, <1>12, <1>13, <1>14, <1>15, DumpStepKeeps, Zenon

\* The diff file is complete.
LEMMA DumpedKeeps ==
    ASSUME SnapInv, Dumped
    PROVE  SnapInv'
  <1> PICK w : w = writer[1]
    OBVIOUS
  <1>1. /\ Dumping /\ w.slot > Len(Regions) /\ layers' = Append(layers, w.file) /\ snapped' = mem /\ writer' = << >>
        /\ fc_dirty' = fc_dirty /\ failed' = failed /\ inflated' = inflated \ DOMAIN w.file
        /\ vcpus_run' = vcpus_run /\ mem' = mem /\ writes' = writes /\ kvm_dirty' = kvm_dirty
        /\ track_dirty_pages' = track_dirty_pages /\ io' = io /\ base' = base /\ cursor' = cursor
        /\ snapshots' = snapshots
    BY Zenon DEF Dumped, UNCHANGED_but_files
  <1>2. DumpInv(w) /\ SnapTypes /\ Copied /\ DiffsAddUp /\ (layers = << >> => cursor = 0)
    BY <1>1, DumpingFacts, Zenon
  <1>3. w \in Writer /\ Place(w) /\ w.write_size <= w.page /\ Copies(w) /\ (~failed => Behind(w))
    BY <1>2, Zenon DEF DumpInv
  <1>4. w.file \in Files /\ w.write_size \in Nat /\ w.slot \in Nat
    BY <1>3, WriterFields, Zenon
  <1>5. Len(Regions) \in Nat /\ NumPages \in Nat
    <2>1. Len(Regions) \in Nat \ {0}
      BY SnapAssumption
    <2>2. 1 \in 1..Len(Regions)
      BY <2>1, SMTT(30)
    <2> QED BY <2>1, <2>2, RegionsFit, Zenon
  <1>6. w.writer_offset + w.page - w.write_size = NumPages
    <2>1. w.writer_offset = NumPages /\ w.page = 0
      BY <1>1, <1>3, <1>4, <1>5 DEF Place
    <2> QED BY <1>3, <1>4, <1>5, <2>1, SMTT(30)
  <1>7. ~failed => \A p \in Pages : p \notin DOMAIN w.file => SameAs(p, mem[p])
    <2>1. \A p \in Pages : p < NumPages
      BY <1>5 DEF Pages
    <2> QED BY <1>3, <1>6, <2>1, Zenon DEF Behind
  <1>8. layers \in Seq(Files)
    BY <1>2, Zenon DEF SnapTypes
  <1> DEFINE n == Len(layers)
  <1>9. /\ layers' \in Seq(Files) /\ layers' # << >> /\ n \in Nat /\ Len(layers') = n + 1
        /\ layers'[n + 1] = w.file /\ \A k \in 1..n : layers'[k] = layers[k]
    BY <1>1, <1>4, <1>8
  <1>10. SnapTypes'
    <2>1. snapped' \in [Pages -> Nat]
      BY <1>1, <1>2, Zenon DEF SnapTypes
    <2> QED BY <1>1, <1>2, <1>9, <2>1, Zenon DEF SnapTypes
  <1>11. Tracked'
    BY <1>1, Zenon DEF Tracked, SameAs
  <1>12. Copied'
    <2>1. CASE layers = << >>
      <3>1. cursor = 0
        BY <1>2, <2>1, Zenon
      <3>2. DOMAIN layers'[1] \subseteq Pages
        <4>1. n = 0
          BY <2>1, Zenon
        <4>2. layers'[1] = w.file
          BY <1>9, <4>1
        <4> QED BY <1>4, <4>2, Zenon DEF Files
      <3>3. \A p \in Pages : ~(p < 0)
        BY DEF Pages
      <3> QED BY <1>1, <3>1, <3>2, <3>3, Zenon DEF Copied
    <2>2. CASE layers # << >>
      <3>1. 1 \in 1..n
        BY <1>8, <2>2
      <3>2. layers'[1] = layers[1]
        BY <1>9, <3>1, Zenon
      <3> QED BY <1>1, <1>2, <2>2, <3>2, Zenon DEF Copied
    <2> QED BY <2>1, <2>2, Zenon
  <1>13. DiffsAddUp'
    <2> SUFFICES ASSUME ~failed, NEW p \in Pages
                 PROVE  Reads(p, mem[p])' \/ (p \in inflated' /\ mem[p] = 0)
      BY <1>1, Zenon DEF DiffsAddUp, Reads
    <2>1. \A k \in 1..n + 1 : k \in 1..n \/ k = n + 1
      BY <1>9
    <2>2. n + 1 \in 1..n + 1 /\ \A k \in 1..n : k \in 1..n + 1 /\ \A l \in k + 1..n + 1 : l \in k + 1..n \/ l = n + 1
      BY <1>9
    <2>3. \A k \in 1..n : \A l \in k + 1..n : l \in 1..n
      BY <1>9
    <2> HIDE DEF n
    <2>4. CASE p \in DOMAIN w.file
      <3>1. w.file[p] = mem[p]
        BY <1>3, <2>4, Zenon DEF Copies
      <3>2. \A l \in (n + 1) + 1..n + 1 : FALSE
        BY <1>9
      <3> QED BY <1>1, <1>9, <2>2, <2>4, <3>1, <3>2, Zenon DEF Reads
    <2>5. CASE p \notin DOMAIN w.file
      <3>1. Reads(p, mem[p]) \/ (p \in inflated /\ mem[p] = 0)
        BY <1>2, <1>7, <2>5, Zenon DEF DiffsAddUp, SameAs
      <3>2. CASE base[p] = mem[p] /\ \A k \in 1..n : p \notin DOMAIN layers[k]
        <4>1. \A k \in 1..n + 1 : p \notin DOMAIN layers'[k]
          BY <1>9, <2>1, <2>5, <3>2, Zenon
        <4> QED BY <1>1, <1>9, <3>2, <4>1, Zenon DEF Reads
      <3>3. CASE \E k \in 1..n : /\ p \in DOMAIN layers[k] /\ layers[k][p] = mem[p]
                                 /\ \A l \in k + 1..n : p \notin DOMAIN layers[l]
        <4>1. PICK k \in 1..n : /\ p \in DOMAIN layers[k] /\ layers[k][p] = mem[p]
                                /\ \A l \in k + 1..n : p \notin DOMAIN layers[l]
          BY <3>3, Zenon
        <4>2. layers'[k] = layers[k] /\ k \in 1..n + 1
          BY <1>9, <2>2, Zenon
        <4>3. \A l \in k + 1..n + 1 : p \notin DOMAIN layers'[l]
          BY <1>9, <2>2, <2>3, <2>5, <4>1, Zenon
        <4>4. p \in DOMAIN layers'[k] /\ layers'[k][p] = mem'[p]
          BY <1>1, <4>1, <4>2, Zenon
        <4>5. k \in 1..Len(layers') /\ \A l \in k + 1..Len(layers') : p \notin DOMAIN layers'[l]
          BY <1>9, <4>2, <4>3, Zenon
        <4> QED BY <4>4, <4>5, Zenon DEF Reads
      <3>4. CASE p \in inflated /\ mem[p] = 0
        BY <1>1, <2>5, <3>4, Zenon
      <3> QED BY <3>1, <3>2, <3>3, <3>4, Zenon DEF Reads, n
    <2> QED BY <2>4, <2>5, Zenon
  <1>14. ~Dumping' /\ layers' # << >> /\ (~failed' /\ track_dirty_pages' => Tracked')
    BY <1>1, <1>9, <1>11, Zenon DEF Dumping
  <1> QED BY <1>10, <1>12, <1>13, <1>14, Zenon DEF SnapInv

\* A dump is given up.
LEMMA DumpFailsKeeps ==
    ASSUME SnapInv, DumpFails
    PROVE  SnapInv'
  <1>1. /\ Dumping /\ writer' = << >> /\ failed' = TRUE /\ fc_dirty' = fc_dirty /\ layers' = layers /\ snapped' = snapped
        /\ inflated' = inflated /\ vcpus_run' = vcpus_run /\ mem' = mem /\ writes' = writes /\ kvm_dirty' = kvm_dirty
        /\ track_dirty_pages' = track_dirty_pages /\ io' = io /\ base' = base /\ cursor' = cursor
        /\ snapshots' = snapshots
    BY Zenon DEF DumpFails, UNCHANGED_but_files
  <1>2. SnapTypes /\ Copied /\ (layers = << >> => cursor = 0)
    BY <1>1, DumpingFacts, Zenon
  <1>3. failed' \in BOOLEAN
    BY <1>1, Zenon
  <1>4. SnapTypes' /\ Copied' /\ (layers' = << >> => cursor' = 0)
    BY <1>1, <1>2, <1>3, Zenon DEF SnapTypes, Copied
  <1>5. ~Dumping'
    BY <1>1, Zenon DEF Dumping
  <1> QED BY <1>1, <1>4, <1>5, Zenon DEF SnapInv, DiffsAddUp

\* A step of rebase-snap changes the base, the layers and the cursor.
LEMMA RebaseKeeps ==
    ASSUME SnapInv, base' \in [Pages -> Nat], layers' \in Seq(Files), cursor' \in Nat,
           UNCHANGED <<vcpus_run, mem, writes, kvm_dirty, fc_dirty, track_dirty_pages, io, writer, snapped, snapshots, failed, inflated>>,
           layers' = << >> => cursor' = 0, Copied', DiffsAddUp'
    PROVE  SnapInv'
  <1>1. SnapTypes'
    BY Zenon DEF SnapInv, SnapTypes
  <1>2. Free' => (~failed' /\ track_dirty_pages' => Tracked')
    BY Zenon DEF SnapInv, Free, Tracked, InFlight, SameAs
  <1>3. Dumping' => writer' = <<writer'[1]>> /\ DumpInv(writer[1])'
    BY Zenon DEF SnapInv, Dumping, DumpInv, Copies, Behind, Ahead, SameAs
  <1> QED BY <1>1, <1>2, <1>3, Zenon DEF SnapInv

\* The first layer and where its data begin and end.
LEMMA Seeks ==
    ASSUME SnapInv, layers # << >>
    PROVE  /\ Layer \in Files /\ 1 \in 1..Len(layers)
           /\ \A p \in seek_data(cursor) : /\ p \in DOMAIN Layer
                                           /\ \A q \in DOMAIN Layer : q >= cursor => p <= q
                                           /\ seek_hole(p) \in p + 1..NumPages
                                           /\ p..seek_hole(p) - 1 \subseteq DOMAIN Layer
           /\ seek_data(cursor) = {} => \A q \in DOMAIN Layer : q < cursor
  <1>1. layers \in Seq(Files) /\ cursor \in Nat
    BY Zenon DEF SnapInv, SnapTypes
  <1>2. Layer \in Files /\ 1 \in 1..Len(layers)
    BY <1>1 DEF Layer
  <1>3. DOMAIN Layer \subseteq Pages
    BY <1>2, Zenon DEF Files
  <1>4. NumPages \in Nat
    <2>1. 1 \in 1..Len(Regions)
      BY SnapAssumption
    <2> QED BY <2>1, RegionsFit, Zenon
  <1>5. ASSUME NEW p \in seek_data(cursor)
        PROVE  /\ p \in DOMAIN Layer /\ \A q \in DOMAIN Layer : q >= cursor => p <= q
               /\ seek_hole(p) \in p + 1..NumPages /\ p..seek_hole(p) - 1 \subseteq DOMAIN Layer
    <2>1. p \in DOMAIN Layer /\ \A q \in DOMAIN Layer : q >= cursor => p <= q
      BY Zenon DEF seek_data
    <2>2. p \in Nat /\ p < NumPages
      BY <1>3, <1>4, <2>1 DEF Pages
    <2> DEFINE T == {e \in p + 1..NumPages : e \notin DOMAIN Layer}
    <2>3. T \subseteq Nat
      BY <1>4, <2>2
    <2>4. NumPages \in T
      BY <1>3, <1>4, <2>2 DEF Pages
    <2>5. PICK e \in T : \A y \in T : e <= y
      BY <2>3, <2>4, Least, Zenon
    <2>6. e \in p + 1..NumPages /\ e \notin DOMAIN Layer
      BY <2>5, Zenon
    <2>7. \A q \in p..e - 1 : q = p \/ (q \in p + 1..NumPages /\ ~(e <= q))
      BY <1>4, <2>2, <2>6
    <2>8. p..e - 1 \subseteq DOMAIN Layer
      BY <2>1, <2>5, <2>7, Zenon
    <2>9. \E h \in p + 1..NumPages : p..h - 1 \subseteq DOMAIN Layer /\ h \notin DOMAIN Layer
      BY <2>6, <2>8, Zenon
    <2>10. /\ seek_hole(p) \in p + 1..NumPages /\ p..seek_hole(p) - 1 \subseteq DOMAIN Layer
      BY <2>9, Zenon DEF seek_hole
    <2> QED BY <2>1, <2>10, Zenon
  <1>6. ASSUME seek_data(cursor) = {} PROVE \A q \in DOMAIN Layer : q < cursor
    <2> SUFFICES ASSUME NEW q \in DOMAIN Layer, ~(q < cursor) PROVE FALSE
      BY Zenon
    <2> DEFINE T == {p \in DOMAIN Layer : p >= cursor}
    <2>1. T \subseteq Nat /\ DOMAIN Layer \subseteq Nat
      BY <1>3, <1>4 DEF Pages
    <2>2. q \in T
      BY <1>1, <2>1
    <2>3. PICK p \in T : \A y \in T : p <= y
      BY <2>1, <2>2, Least, Zenon
    <2>4. p \in seek_data(cursor)
      BY <2>3, Zenon DEF seek_data
    <2> QED BY <1>6, <2>4, Zenon
  <1> QED BY <1>2, <1>5, <1>6, Zenon

\* rebase-snap copies some of a block of data.
LEMMA RebaseStepKeeps ==
    ASSUME SnapInv, RebaseStep
    PROVE  SnapInv'
  <1>1. layers # << >> /\ layers' = layers
        /\ UNCHANGED <<vcpus_run, mem, writes, kvm_dirty, fc_dirty, track_dirty_pages, io, writer, snapped, snapshots, failed, inflated>>
    BY Zenon DEF RebaseStep
  <1> PICK start \in seek_data(cursor) :
         \E end \in start + 1..seek_hole(start) :
           /\ base' = [p \in Pages |-> IF p \in start..end - 1 THEN Layer[p] ELSE base[p]]
           /\ cursor' = end
    BY Zenon DEF RebaseStep
  <1>2. PICK end \in start + 1..seek_hole(start) :
           /\ base' = [p \in Pages |-> IF p \in start..end - 1 THEN Layer[p] ELSE base[p]]
           /\ cursor' = end
    BY Zenon
  <1>3. /\ Layer \in Files /\ 1 \in 1..Len(layers) /\ start \in DOMAIN Layer
        /\ \A q \in DOMAIN Layer : q >= cursor => start <= q
        /\ seek_hole(start) \in start + 1..NumPages /\ start..seek_hole(start) - 1 \subseteq DOMAIN Layer
    BY <1>1, <1>2, Seeks, Zenon
  <1>4. /\ base \in [Pages -> Nat] /\ layers \in Seq(Files) /\ cursor \in Nat /\ Copied /\ DiffsAddUp
    BY Zenon DEF SnapInv, SnapTypes
  <1>5. DOMAIN Layer \subseteq Pages /\ \A p \in DOMAIN Layer : Layer[p] \in Nat
    BY <1>3 DEF Files
  <1>6. DOMAIN Layer \subseteq Nat
    BY <1>5 DEF Pages
  <1> DEFINE hole == seek_hole(start)
  <1>7. hole \in start + 1..NumPages /\ start..hole - 1 \subseteq DOMAIN Layer /\ end \in start + 1..hole /\ start \in Nat
    BY <1>2, <1>3, <1>6, Zenon
  <1> HIDE DEF hole
  <1>8. end \in Nat /\ start..end - 1 \subseteq DOMAIN Layer
    <2>1. hole \in Int /\ end \in Nat /\ end <= hole
      BY <1>7, SMTT(30)
    <2>2. \A q \in start..end - 1 : q \in start..hole - 1
      BY <1>7, <2>1
    <2> QED BY <1>7, <2>1, <2>2, Zenon
  <1>9. \A p \in Pages : base'[p] = IF p \in start..end - 1 THEN Layer[p] ELSE base[p]
    BY <1>2, Zenon
  <1>10. base' \in [Pages -> Nat]
    <2>1. \A p \in Pages : (IF p \in start..end - 1 THEN Layer[p] ELSE base[p]) \in Nat
      BY <1>4, <1>5, <1>8, Zenon
    <2> QED BY <1>2, <2>1, Zenon
  <1>11. Copied'
    <2> SUFFICES ASSUME NEW p \in DOMAIN Layer, p < end PROVE base'[p] = Layer[p]
      BY <1>1, <1>2, Zenon DEF Copied, Layer
    <2>1. p \in Pages /\ p \in Nat
      BY <1>5, <1>6, Zenon
    <2>2. CASE p \in start..end - 1
      BY <1>9, <2>1, <2>2, Zenon
    <2>3. CASE p \notin start..end - 1
      <3>1. ~(start <= p)
        BY <1>7, <1>8, <2>1, <2>3, SMTT(30)
      <3>2. p < cursor
        BY <1>3, <1>4, <2>1, <3>1
      <3>3. base[p] = Layer[p]
        BY <1>1, <1>4, <3>2, Zenon DEF Copied, Layer
      <3> QED BY <1>9, <2>1, <2>3, <3>3, Zenon
    <2> QED BY <2>2, <2>3, Zenon
  <1>12. DiffsAddUp'
    <2> SUFFICES ASSUME ~failed, NEW p \in Pages PROVE AddsUp(p)'
      BY <1>1, Zenon DEF DiffsAddUp, AddsUp
    <2>1. AddsUp(p)
      BY <1>4, Zenon DEF DiffsAddUp, AddsUp
    <2>2. (\A k \in 1..Len(layers) : p \notin DOMAIN layers[k]) => base'[p] = base[p]
      <3>1. (\A k \in 1..Len(layers) : p \notin DOMAIN layers[k]) => p \notin DOMAIN Layer
        BY <1>3, Zenon DEF Layer
      <3> QED BY <1>8, <1>9, <3>1, Zenon
    <2> QED BY <1>1, <2>1, <2>2, Zenon DEF AddsUp, Reads
  <1>13. cursor' \in Nat /\ layers' \in Seq(Files) /\ layers' # << >>
    BY <1>1, <1>2, <1>4, <1>8, Zenon
  <1> QED BY <1>1, <1>10, <1>11, <1>12, <1>13, RebaseKeeps, Zenon

\* rebase-snap has no more data to copy: the base has all of the layer.
LEMMA RebaseDoneKeeps ==
    ASSUME SnapInv, RebaseDone
    PROVE  SnapInv'
  <1>1. layers # << >> /\ seek_data(cursor) = {} /\ layers' = Tail(layers) /\ cursor' = 0 /\ base' = base
        /\ UNCHANGED <<vcpus_run, mem, writes, kvm_dirty, fc_dirty, track_dirty_pages, io, writer, snapped, snapshots, failed, inflated>>
    BY Zenon DEF RebaseDone
  <1>2. Layer \in Files /\ 1 \in 1..Len(layers) /\ \A q \in DOMAIN Layer : q < cursor
    BY <1>1, Seeks, Zenon
  <1>3. base \in [Pages -> Nat] /\ layers \in Seq(Files) /\ cursor \in Nat /\ Copied /\ DiffsAddUp
    BY Zenon DEF SnapInv, SnapTypes
  <1>4. \A p \in DOMAIN layers[1] : base[p] = layers[1][p]
    BY <1>1, <1>2, <1>3, Zenon DEF Copied, Layer
  <1> DEFINE n == Len(layers)
  <1>5. n \in Nat \ {0}
    BY <1>1, <1>3
  <1>6. layers' \in Seq(Files) /\ Len(layers') = n - 1
    BY <1>1, <1>3
  <1>7. \A k \in 1..n - 1 : layers'[k] = layers[k + 1]
    BY <1>1, <1>3
  <1>8. Copied'
    <2> SUFFICES ASSUME layers' # << >>, NEW p \in DOMAIN layers'[1] PROVE ~(p < 0)
      BY <1>1, Zenon DEF Copied
    <2>1. layers'[1] \in Files
      BY <1>6
    <2>2. p \in Pages
      BY <2>1, Zenon DEF Files
    <2> QED BY <2>2 DEF Pages
  <1>9. DiffsAddUp'
    <2> SUFFICES ASSUME ~failed, NEW p \in Pages, ~(p \in inflated /\ snapped[p] = 0)
                 PROVE  Reads(p, snapped[p])'
      BY <1>1, Zenon DEF DiffsAddUp
    <2> PICK v : v = snapped[p] /\ v = snapped'[p]
      BY <1>1, Zenon
    <2>1. Reads(p, v)
      BY <1>3, Zenon DEF DiffsAddUp
    <2>2. \A k \in 1..n - 1 : k + 1 \in 1..n /\ k + 1 \in 2..n
      BY <1>5
    <2>3. ASSUME base[p] = v, \A l \in 2..n : p \notin DOMAIN layers[l] PROVE Reads(p, v)'
      <3>1. \A k \in 1..n - 1 : p \notin DOMAIN layers'[k]
        BY <1>7, <2>2, <2>3, Zenon
      <3>2. \A k \in 1..Len(layers') : p \notin DOMAIN layers'[k]
        BY <1>6, <3>1, Zenon
      <3> QED BY <1>1, <2>3, <3>2, Zenon DEF Reads
    <2>4. CASE base[p] = v /\ \A k \in 1..n : p \notin DOMAIN layers[k]
      <3>1. \A l \in 2..n : l \in 1..n
        BY <1>5
      <3> QED BY <2>3, <2>4, <3>1, Zenon
    <2>5. CASE \E k \in 1..n : /\ p \in DOMAIN layers[k] /\ layers[k][p] = v
                               /\ \A l \in k + 1..n : p \notin DOMAIN layers[l]
      <3> PICK k \in 1..n : /\ p \in DOMAIN layers[k] /\ layers[k][p] = v
                            /\ \A l \in k + 1..n : p \notin DOMAIN layers[l]
        BY <2>5, Zenon
      <3>1. CASE k = 1
        <4>1. base[p] = v
          BY <1>4, <3>1, Zenon
        <4>2. \A l \in 2..n : p \notin DOMAIN layers[l]
          BY <3>1
        <4> QED BY <2>3, <4>1, <4>2, Zenon
      <3>2. CASE k # 1
        <4> PICK j : j = k - 1
          BY Zenon
        <4>1. j \in 1..n - 1 /\ j + 1 = k
          BY <1>5, <3>2
        <4>2. p \in DOMAIN layers'[j] /\ layers'[j][p] = v
          BY <1>7, <4>1, Zenon
        <4>3. \A l \in j + 1..n - 1 : l \in 1..n - 1 /\ l + 1 \in k + 1..n
          BY <1>5, <4>1
        <4>4. \A l \in j + 1..n - 1 : p \notin DOMAIN layers'[l]
          BY <1>7, <4>3, Zenon
        <4>5. j \in 1..Len(layers') /\ \A l \in j + 1..Len(layers') : p \notin DOMAIN layers'[l]
          BY <1>6, <4>1, <4>4, Zenon
        <4> QED BY <4>2, <4>5, Zenon DEF Reads
      <3> QED BY <3>1, <3>2, Zenon
    <2>6. Reads(p, v)'
      BY <2>1, <2>4, <2>5, Zenon DEF Reads
    <2> QED BY <2>6, Zenon DEF Reads
  <1>10. base' \in [Pages -> Nat] /\ cursor' \in Nat
    BY <1>1, <1>3, Zenon
  <1> QED BY <1>1, <1>6, <1>8, <1>9, <1>10, RebaseKeeps, Zenon

\* rebase-snap is run again from the start.
LEMMA RebaseRestartsKeeps ==
    ASSUME SnapInv, RebaseRestarts
    PROVE  SnapInv'
  <1>1. layers # << >> /\ layers' = layers /\ cursor' = 0 /\ base' = base
        /\ UNCHANGED <<vcpus_run, mem, writes, kvm_dirty, fc_dirty, track_dirty_pages, io, writer, snapped, snapshots, failed, inflated>>
    BY Zenon DEF RebaseRestarts
  <1>2. base \in [Pages -> Nat] /\ layers \in Seq(Files) /\ DiffsAddUp
    BY Zenon DEF SnapInv, SnapTypes
  <1>3. Copied'
    <2> SUFFICES ASSUME NEW p \in DOMAIN layers[1] PROVE ~(p < 0)
      BY <1>1, Zenon DEF Copied
    <2>1. layers[1] \in Files
      BY <1>1, <1>2
    <2>2. p \in Pages
      BY <2>1, Zenon DEF Files
    <2> QED BY <2>2 DEF Pages
  <1>4. DiffsAddUp'
    BY <1>1, <1>2, Zenon DEF DiffsAddUp, Reads
  <1>5. base' \in [Pages -> Nat] /\ layers' \in Seq(Files) /\ cursor' \in Nat
    BY <1>1, <1>2, Zenon
  <1> QED BY <1>1, <1>3, <1>4, <1>5, RebaseKeeps, Zenon

\* A new process maps the merged file, and goes on from there.
LEMMA LoadKeeps ==
    ASSUME SnapInv, load_memory
    PROVE  SnapInv'
  <1>1. /\ layers = << >> /\ mem' = base /\ io' = << >> /\ vcpus_run' = FALSE
        /\ kvm_dirty' = {} /\ fc_dirty' = {} /\ track_dirty_pages' \in BOOLEAN /\ writer' = << >>
        /\ writes' = writes /\ base' = base /\ layers' = layers /\ cursor' = cursor /\ snapped' = base
        /\ snapshots' = snapshots /\ failed' = FALSE /\ inflated' = {}
    BY Zenon DEF load_memory
  <1>2. SnapTypes /\ cursor = 0
    BY <1>1, Zenon DEF SnapInv
  <1>3. SnapTypes'
    <2>1. vcpus_run' \in BOOLEAN /\ kvm_dirty' \in SUBSET Pages /\ fc_dirty' \in SUBSET Pages /\ failed' \in BOOLEAN
      BY <1>1, Zenon
    <2> QED BY <1>1, <1>2, <2>1, Zenon DEF SnapTypes
  <1>4. Tracked' /\ Copied'
    BY <1>1, Zenon DEF Tracked, Copied, SameAs
  <1>5. DiffsAddUp'
    <2>1. \A p \in Pages : Reads(p, snapped[p])'
      BY <1>1 DEF Reads
    <2> QED BY <2>1, Zenon DEF DiffsAddUp
  <1>6. ~Dumping' /\ (layers' = << >> => cursor' = 0)
    BY <1>1, <1>2, Zenon DEF Dumping
  <1> QED BY <1>3, <1>4, <1>5, <1>6, Zenon DEF SnapInv

\* Nothing happens.
LEMMA SnapStutters ==
    ASSUME SnapInv, UNCHANGED svars
    PROVE  SnapInv'
  <1>1. UNCHANGED <<vcpus_run, mem, writes, kvm_dirty, fc_dirty, track_dirty_pages, io, writer, snapped, snapshots, failed, inflated>>
        /\ base' = base /\ layers' = layers /\ cursor' = cursor
    BY Zenon DEF svars
  <1>2. base' \in [Pages -> Nat] /\ layers' \in Seq(Files) /\ cursor' \in Nat
    BY <1>1, Zenon DEF SnapInv, SnapTypes
  <1>3. Copied' /\ DiffsAddUp' /\ (layers' = << >> => cursor' = 0)
    BY <1>1, Zenon DEF SnapInv, Copied, DiffsAddUp, Reads
  <1> QED BY <1>1, <1>2, <1>3, RebaseKeeps, Zenon

\* Any number of full and diff snapshots of a guest, in memory of any shape, with
\* merges that are interrupted and new processes that go on from the merged file:
\* base and layers read as the memory of the last snapshot, but for pages the
\* balloon has emptied (DiffsAddUp).
THEOREM SnapshotMemory == SnapSpec => []DiffsAddUp
  <1>1. SnapInit => SnapInv
    BY SnapStarts, Zenon
  <1>2. SnapInv /\ [SnapNext]_svars => SnapInv'
    <2> SUFFICES ASSUME SnapInv, [SnapNext]_svars PROVE SnapInv'
      BY Zenon
    <2>1. CASE GuestWrites
      BY <2>1, GuestWritesKeep, Zenon
    <2>2. CASE DeviceWrites
      BY <2>2, DeviceWritesKeep, Zenon
    <2>3. CASE SubmitIo
      BY <2>3, SubmitKeeps, Zenon
    <2>4. CASE KernelWrites
      BY <2>4, KernelWritesKeep, Zenon
    <2>5. CASE CompleteIo
      BY <2>5, CompleteKeeps, Zenon
    <2>6. CASE pause_vcpus \/ resume_vcpus
      BY <2>6, PauseResumeKeep, Zenon
    <2>7. CASE CreateFull
      BY <2>7, CreateFullKeeps, Zenon
    <2>8. CASE CreateDiff
      BY <2>8, CreateDiffKeeps, Zenon
    <2>9. CASE get_dirty_bitmap_fails \/ CreateFullFails
      BY <2>9, FailuresKeep, ZenonT(40)
    <2>10. CASE NextPage
      BY <2>10, NextPageKeeps, Zenon
    <2>11. CASE NextRegion
      BY <2>11, NextRegionKeeps, Zenon
    <2>12. CASE Dumped
      BY <2>12, DumpedKeeps, Zenon
    <2>13. CASE DumpFails
      BY <2>13, DumpFailsKeeps, Zenon
    <2>14. CASE RebaseStep
      BY <2>14, RebaseStepKeeps, Zenon
    <2>15. CASE RebaseDone
      BY <2>15, RebaseDoneKeeps, Zenon
    <2>16. CASE RebaseRestarts
      BY <2>16, RebaseRestartsKeeps, Zenon
    <2>17. CASE load_memory
      BY <2>17, LoadKeeps, Zenon
    <2>18. CASE BalloonInflates
      BY <2>18, InflatesKeep, Zenon
    <2>19. CASE UNCHANGED svars
      BY <2>19, SnapStutters, Zenon
    <2> QED BY <2>1, <2>2, <2>3, <2>4, <2>5, <2>6, <2>7, <2>8, <2>9, <2>10, <2>11, <2>12, <2>13, <2>14, <2>15,
               <2>16, <2>17, <2>18, <2>19, ZenonT(40) DEF SnapNext
  <1>3. SnapInv => DiffsAddUp
    BY Zenon DEF SnapInv
  <1> QED BY <1>1, <1>2, <1>3, PTL DEF SnapSpec
=============================================================================
