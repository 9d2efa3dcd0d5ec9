---------------------------- MODULE RolloutProofs ----------------------------
(***************************************************************************)
(* Theorems about AgentLoop and Rollout, for every batch, number of        *)
(* workers, servers and lengths, every limit of turns and every number of  *)
(* failures.  The first part is about the agent loops: their inductive     *)
(* invariant says of each sample what its coroutine relies on wherever it  *)
(* awaits.  The second is about the rollout: what holds of the agent loops *)
(* holds in the asynchronous mode; in the synchronous one each request     *)
(* keeps a conversation whose mask follows its turns, wherever its         *)
(* coroutine awaits.                                                       *)
(***************************************************************************)
EXTENDS Rollout, SequenceTheorems, FiniteSetTheorems, TLAPS

-----------------------------------------------------------------------------
\* The agent loops.

Token  == {"prompt", "llm", "tool", "user"}
Bit    == {0, 1}
Output == [response : Seq(Token), mask : Seq(Bit), logprobs : Seq(Bit)]

Phases == {"waking", "gather", "sleeping", "raised", "finished"}

\* A sample that has no trajectory, one in a trajectory, and one in the middle of a turn's work.
Away     == {"none", "pending", "scoring", "done"}
Working  == {"processing_tools", "interacting"}
OnTheWay == {"generating", "requested", "terminated"} \cup Working
States   == Away \cup OnTheWay \cup {"failed"}

AgentTypeOK ==
  /\ phase \in Phases /\ awake \subseteq Servers
  /\ state \in [Batch -> States] /\ at \in [Batch -> Servers \cup {0}]
  /\ prompt \in [Batch -> Seq(Token)] /\ mask \in [Batch -> Seq(Bit)] /\ logprobs \in [Batch -> Seq(Bit)]
  /\ userTurns \in [Batch -> Nat] /\ assistantTurns \in [Batch -> Nat]
  /\ out \in [Batch -> Output]

-----------------------------------------------------------------------------
\* Facts about sequences of tokens and bits.

\* The mask speaks of the last tokens, all of them behind a prompt that fits.
Aligned(p, m) ==
  /\ Len(p) - Len(m) \in 1 .. PromptLength
  /\ \A i \in 1 .. Len(m) :
       /\ m[i] = 1 <=> p[Len(p) - Len(m) + i] = "llm"
       /\ p[Len(p) - Len(m) + i] # "prompt"

\* Repeating one element makes a sequence.
LEMMA Repeated ==
  ASSUME NEW S, NEW x \in S, NEW n \in Nat
  PROVE  /\ [i \in 1 .. n |-> x] \in Seq(S)
         /\ Len([i \in 1 .. n |-> x]) = n
         /\ DOMAIN [i \in 1 .. n |-> x] = 1 .. n
         /\ \A i \in 1 .. n : [j \in 1 .. n |-> x][i] = x
<1>1. [i \in 1 .. n |-> x] \in [1 .. n -> S]
  OBVIOUS
<1>2. [i \in 1 .. n |-> x] \in Seq(S)
  BY <1>1, SeqDef
<1>3. DOMAIN [i \in 1 .. n |-> x] = 1 .. n
  OBVIOUS
<1>4. Len([i \in 1 .. n |-> x]) = n
  BY <1>2, <1>3, LenProperties
<1> QED
  BY <1>2, <1>3, <1>4

\* n times the same.
Repeats(f, n, x) == f = [i \in 1 .. n |-> x]

\* Tokens of one origin with the bits that belong to it keep tokens and mask aligned.
LEMMA ExtensionAligned ==
  ASSUME NEW p \in Seq(Token), NEW m \in Seq(Bit), NEW n \in Nat, NEW b \in Bit, NEW o \in Token,
         b = 1 <=> o = "llm", o # "prompt", Aligned(p, m),
         NEW f, Repeats(f, n, o), NEW g, Repeats(g, n, b)
  PROVE  LET p1 == p \o f
             m1 == m \o g
         IN  /\ p1 \in Seq(Token) /\ Len(p1) = Len(p) + n
             /\ m1 \in Seq(Bit) /\ Len(m1) = Len(m) + n
             /\ Aligned(p1, m1)
             /\ n > 0 => p1[Len(p1)] = o
<1> DEFINE p1 == p \o f
           m1 == m \o g
<1>1. f \in Seq(Token) /\ Len(f) = n /\ \A i \in 1 .. n : f[i] = o
  BY Repeated DEF Repeats
<1>2. g \in Seq(Bit) /\ Len(g) = n /\ \A i \in 1 .. n : g[i] = b
  BY Repeated DEF Repeats
<1>3. Len(p) \in Nat /\ Len(m) \in Nat
  BY LenProperties
<1>4. /\ p1 \in Seq(Token) /\ Len(p1) = Len(p) + n
      /\ \A i \in 1 .. Len(p) + n : p1[i] = IF i <= Len(p) THEN p[i] ELSE o
  <2>1. \A i \in 1 .. Len(p) + n :
          (p \o f)[i] = IF i <= Len(p) THEN p[i] ELSE f[i - Len(p)]
    BY <1>1, ConcatProperties
  <2>2. p \o f \in Seq(Token) /\ Len(p \o f) = Len(p) + n
    BY <1>1, ConcatProperties
  <2>3. \A i \in 1 .. Len(p) + n : ~(i <= Len(p)) => i - Len(p) \in 1 .. n
    BY <1>3
  <2> QED
    BY <1>1, <2>1, <2>2, <2>3
<1>5. /\ m1 \in Seq(Bit) /\ Len(m1) = Len(m) + n
      /\ \A i \in 1 .. Len(m) + n : m1[i] = IF i <= Len(m) THEN m[i] ELSE b
  <2>1. \A i \in 1 .. Len(m) + n :
          (m \o g)[i] = IF i <= Len(m) THEN m[i] ELSE g[i - Len(m)]
    BY <1>2, ConcatProperties
  <2>2. m \o g \in Seq(Bit) /\ Len(m \o g) = Len(m) + n
    BY <1>2, ConcatProperties
  <2>3. \A i \in 1 .. Len(m) + n : ~(i <= Len(m)) => i - Len(m) \in 1 .. n
    BY <1>3
  <2> QED
    BY <1>2, <2>1, <2>2, <2>3
<1>6. Aligned(p1, m1)
  <2>1. Len(p1) - Len(m1) = Len(p) - Len(m)
    BY <1>3, <1>4, <1>5
  <2>2. ASSUME NEW i \in 1 .. Len(m1)
        PROVE  /\ m1[i] = 1 <=> p1[Len(p1) - Len(m1) + i] = "llm"
               /\ p1[Len(p1) - Len(m1) + i] # "prompt"
    <3>1. Len(p) - Len(m) + i \in 1 .. Len(p) + n
      <4>1. Len(p) - Len(m) \in 1 .. PromptLength /\ PromptLength \in Nat
        BY AgentLoopAssumption DEF Aligned
      <4>2. i \in 1 .. Len(m) + n
        BY <1>5
      <4> QED BY ONLY <1>3, <4>1, <4>2, n \in Nat
    <3>2. CASE i <= Len(m)
      <4>1. i \in 1 .. Len(m) /\ Len(p) - Len(m) + i <= Len(p)
        BY <1>3, <1>5, <3>2
      <4> QED
        BY <1>4, <1>5, <2>1, <3>1, <4>1 DEF Aligned
    <3>3. CASE ~(i <= Len(m))
      <4>1. ~(Len(p) - Len(m) + i <= Len(p))
        BY <1>3, <1>5, <3>3
      <4> QED
        BY <1>4, <1>5, <2>1, <3>1, <3>3, <4>1
    <3> QED
      BY <3>2, <3>3
  <2> QED
    BY <2>1, <2>2 DEF Aligned
<1> QED
  BY <1>3, <1>4, <1>5, <1>6

\* A truncated sequence is the front of it.
LEMMA Truncated ==
  ASSUME NEW S, NEW q \in Seq(S)
  PROVE  /\ Truncate(q) \in Seq(S)
         /\ Len(Truncate(q)) = IF Len(q) <= ResponseLength THEN Len(q) ELSE ResponseLength
         /\ \A i \in 1 .. Len(Truncate(q)) : i \in 1 .. Len(q) /\ Truncate(q)[i] = q[i]
<1> DEFINE n == IF Len(q) <= ResponseLength THEN Len(q) ELSE ResponseLength
<1>1. Len(q) \in Nat /\ n \in Nat /\ n <= Len(q)
  BY LenProperties, AgentLoopAssumption
<1>2. \A i \in 1 .. n : q[i] \in S
  BY <1>1, ElementOfSeq
<1>3. /\ SubSeq(q, 1, n) \in Seq(S)
      /\ Len(SubSeq(q, 1, n)) = IF 1 <= n THEN n - 1 + 1 ELSE 0
      /\ \A i \in 1 .. n - 1 + 1 : SubSeq(q, 1, n)[i] = q[1 + i - 1]
  BY <1>1, <1>2, SubSeqProperties
<1>4. Truncate(q) = SubSeq(q, 1, n)
  BY DEF Truncate
<1> QED
  BY <1>1, <1>3, <1>4

-----------------------------------------------------------------------------
\* The inductive invariant.

Blanked(s) ==
  state[s] \in Away =>
    /\ prompt[s] = <<>> /\ mask[s] = <<>> /\ logprobs[s] = <<>>
    /\ userTurns[s] = 0 /\ assistantTurns[s] = 0

Buffered(s) ==
  state[s] \in OnTheWay =>
    /\ Aligned(prompt[s], mask[s])
    /\ logprobs[s] = IF LogProbs THEN mask[s] ELSE <<>>

Spoken(s) == state[s] \in Working \cup {"terminated"} => Len(mask[s]) > 0

Counted(s) ==
  /\ MaxUserTurns # 0 => userTurns[s] <= MaxUserTurns
  /\ MaxAssistantTurns # 0 => assistantTurns[s] <= MaxAssistantTurns
  /\ state[s] \in Working => ~AtLimit(userTurns[s], MaxUserTurns)
  /\ state[s] \in Working \cup {"generating", "requested"} => ~AtLimit(assistantTurns[s], MaxAssistantTurns)

\* Only a user's turn may fill the context.
Roomy(s) ==
  state[s] \in {"generating", "requested"} =>
    Len(prompt[s]) < MaxModelLen \/ prompt[s][Len(prompt[s])] = "user"

Delivered(s) ==
  /\ Len(out[s].response) <= ResponseLength
  /\ state[s] \in {"scoring", "done"} =>
       /\ Len(out[s].mask) = Len(out[s].response)
       /\ LogProbs => out[s].logprobs = out[s].mask
       /\ \A i \in 1 .. Len(out[s].mask) :
            (out[s].mask[i] = 1 <=> out[s].response[i] = "llm") /\ out[s].response[i] # "prompt"

Served(s) == state[s] = "requested" => at[s] \in Servers

SampleInv(s) ==
  Blanked(s) /\ Buffered(s) /\ Spoken(s) /\ Counted(s) /\ Roomy(s) /\ Delivered(s) /\ Served(s)

\* Samples are on their way between dispatch and gather only, and after an exception.
PhaseInv ==
  /\ phase \notin {"gather", "raised"} => \A s \in Batch : state[s] \in {"none", "done"}
  /\ phase \in {"gather", "raised"} => awake = Servers

AgentInv == AgentTypeOK /\ PhaseInv /\ \A s \in Batch : SampleInv(s)

\* A manager with new workers has no trajectory.
LEMMA AgentInitial == Init => AgentInv
<1> SUFFICES ASSUME Init PROVE AgentInv
  OBVIOUS
<1> USE AgentLoopAssumption
<1>1. /\ <<>> \in Seq(Token) /\ <<>> \in Seq(Bit) /\ NoOutput \in Output
      /\ Len(NoOutput.response) = 0
  BY EmptySeq DEF NoOutput, Output
<1>2. AgentTypeOK
  BY <1>1 DEF Init, AgentTypeOK, Phases, States, Away
<1>3. PhaseInv
  BY DEF Init, PhaseInv
<1>4. ASSUME NEW s \in Batch PROVE SampleInv(s)
  <2>1. /\ state[s] = "none" /\ prompt[s] = <<>> /\ mask[s] = <<>> /\ logprobs[s] = <<>>
        /\ userTurns[s] = 0 /\ assistantTurns[s] = 0 /\ out[s] = NoOutput
    BY DEF Init
  <2> QED
    BY <1>1, <2>1 DEF SampleInv, Blanked, Buffered, Spoken, Counted, Roomy, Delivered, Served, OnTheWay, Working
<1> QED
  BY <1>2, <1>3, <1>4 DEF AgentInv

-----------------------------------------------------------------------------
\* Steps of the manager.

\* A step that leaves a sample alone keeps what holds of it.
Untouched(t) ==
  /\ state'[t] = state[t] /\ at'[t] = at[t] /\ out'[t] = out[t]
  /\ prompt'[t] = prompt[t] /\ mask'[t] = mask[t] /\ logprobs'[t] = logprobs[t]
  /\ userTurns'[t] = userTurns[t] /\ assistantTurns'[t] = assistantTurns[t]

\* What a sample relies on is its own: it survives every step that leaves the sample alone.
LEMMA Elsewhere ==
  ASSUME NEW t \in Batch, SampleInv(t), Untouched(t)
  PROVE  SampleInv(t)'
BY DEF SampleInv, Blanked, Buffered, Spoken, Counted, Roomy, Delivered, Served, Untouched

\* The manager puts no server to sleep under a sample, and hands out fresh trajectories.
LEMMA ManagerKeeps ==
  ASSUME AgentInv, Manager
  PROVE  AgentInv'
<1> USE DEF AgentInv
<1>1. CASE Dispatch
  <2>1. /\ <<>> \in Seq(Token) /\ <<>> \in Seq(Bit) /\ NoOutput \in Output
        /\ Len(NoOutput.response) = 0
    BY EmptySeq DEF NoOutput, Output
  <2>2. AgentTypeOK'
    BY <1>1, <2>1 DEF Dispatch, AgentTypeOK, Phases, States, Away, tokens, turns
  <2>3. PhaseInv'
    BY <1>1 DEF Dispatch, PhaseInv
  <2>4. ASSUME NEW s \in Batch PROVE SampleInv(s)'
    <3>1. state[s] \in {"none", "done"}
      BY <1>1 DEF Dispatch, PhaseInv
    <3>2. /\ state'[s] = "pending" /\ out'[s] = NoOutput
          /\ prompt'[s] = <<>> /\ mask'[s] = <<>> /\ logprobs'[s] = <<>>
          /\ userTurns'[s] = 0 /\ assistantTurns'[s] = 0
      BY <1>1, <3>1 DEF Dispatch, SampleInv, Blanked, Away, tokens, turns
    <3> QED
      BY <2>1, <3>2, AgentLoopAssumption
      DEF SampleInv, Blanked, Buffered, Spoken, Counted, Roomy, Delivered, Served, OnTheWay, Working
  <2> QED
    BY <2>2, <2>3, <2>4
<1>2. ASSUME UNCHANGED <<state, at, tokens, turns, out>>, PhaseInv', phase' \in Phases, awake' \subseteq Servers
      PROVE  AgentInv'
  <2>1. AgentTypeOK'
    BY <1>2 DEF AgentTypeOK, tokens, turns
  <2>2. ASSUME NEW t \in Batch PROVE SampleInv(t)'
    <3>1. Untouched(t)
      BY <1>2 DEF Untouched, tokens, turns
    <3> QED
      BY <3>1, Elsewhere
  <2> QED
    BY <1>2, <2>1, <2>2
<1>3. CASE Gathered
  BY <1>2, <1>3 DEF Gathered, AllDone, PhaseInv, AgentTypeOK, Phases
<1>4. CASE Raised
  BY <1>2, <1>4 DEF Raised, PhaseInv, AgentTypeOK, Phases
<1>5. CASE NextBatch
  BY <1>2, <1>5 DEF NextBatch, PhaseInv, AgentTypeOK, Phases
<1>6. ASSUME NEW v \in Servers, WakeUp(v) \/ Sleep(v) PROVE AgentInv'
  BY <1>2, <1>6 DEF WakeUp, Sleep, PhaseInv, AgentTypeOK
<1> QED
  BY <1>1, <1>3, <1>4, <1>5, <1>6 DEF Manager

-----------------------------------------------------------------------------
\* Steps of a sample.

\* It suffices to look at the sample itself.
LEMMA OneSample ==
  ASSUME AgentInv, NEW s \in Batch, state[s] \notin {"none", "done"}, UNCHANGED <<phase, awake>>,
         AgentTypeOK', SampleInv(s)', \A t \in Batch \ {s} : Untouched(t)
  PROVE  AgentInv'
<1>1. phase \in {"gather", "raised"}
  BY DEF AgentInv, PhaseInv
<1>2. PhaseInv'
  BY <1>1 DEF AgentInv, PhaseInv
<1>3. ASSUME NEW t \in Batch PROVE SampleInv(t)'
  BY Elsewhere DEF AgentInv
<1> QED
  BY <1>2, <1>3 DEF AgentInv

\* A trajectory starts with a prompt that fits.
LEMMA ApplyTemplateKeeps ==
  ASSUME AgentInv, NEW s \in Batch, ApplyTemplate(s)
  PROVE  AgentInv'
<1> USE DEF AgentInv
<1>1. PICK n \in 1 .. PromptLength : prompt' = [prompt EXCEPT ![s] = [i \in 1 .. n |-> "prompt"]]
  BY DEF ApplyTemplate
<1>2. n \in Nat /\ "prompt" \in Token
  BY AgentLoopAssumption DEF Token
<1>3. [i \in 1 .. n |-> "prompt"] \in Seq(Token) /\ Len([i \in 1 .. n |-> "prompt"]) = n
  BY <1>2, Repeated
<1>4. AgentTypeOK'
  BY <1>1, <1>3 DEF AgentTypeOK, ApplyTemplate, Goto, manager, turns, States, OnTheWay
<1>5. \A t \in Batch \ {s} : Untouched(t)
  BY <1>1 DEF AgentTypeOK, Untouched, ApplyTemplate, Goto, turns
<1>6. /\ state[s] = "pending" /\ state'[s] = "generating"
      /\ prompt'[s] = [i \in 1 .. n |-> "prompt"]
      /\ UNCHANGED <<mask, logprobs, userTurns, assistantTurns, out, phase, awake>>
  BY <1>1 DEF AgentTypeOK, ApplyTemplate, Goto, turns, manager
<1>7. Blanked(s) /\ Counted(s) /\ Delivered(s)
  BY DEF SampleInv
<1>8. mask[s] = <<>> /\ logprobs[s] = <<>> /\ userTurns[s] = 0 /\ assistantTurns[s] = 0
  BY <1>6, <1>7 DEF Blanked, Away
<1>9. Blanked(s)' /\ Spoken(s)' /\ Served(s)' /\ Delivered(s)'
  BY <1>6, <1>7 DEF Blanked, Spoken, Served, Delivered, Away, Working
<1>10. Buffered(s)'
  BY <1>2, <1>3, <1>6, <1>8, EmptySeq DEF Buffered, Aligned
<1>11. Counted(s)'
  BY <1>6, <1>8, AgentLoopAssumption DEF Counted, AtLimit, Working
<1>12. Roomy(s)'
  BY <1>2, <1>3, <1>6, AgentLoopAssumption DEF Roomy, MaxModelLen
<1> QED
  BY <1>4, <1>5, <1>6, <1>9, <1>10, <1>11, <1>12, OneSample DEF SampleInv

\* A request goes to a server, all of which are awake.
LEMMA SendRequestKeeps ==
  ASSUME AgentInv, NEW s \in Batch, SendRequest(s)
  PROVE  AgentInv'
<1> USE DEF AgentInv
<1>1. PICK v \in Servers : at' = [at EXCEPT ![s] = v]
  BY DEF SendRequest
<1>2. /\ state[s] = "generating" /\ state' = [state EXCEPT ![s] = "requested"]
      /\ UNCHANGED <<prompt, mask, logprobs, userTurns, assistantTurns, out, phase, awake>>
  BY DEF SendRequest, Goto, tokens, turns, manager
<1>3. AgentTypeOK'
  BY <1>1, <1>2 DEF AgentTypeOK, States, OnTheWay
<1>4. \A t \in Batch \ {s} : Untouched(t)
  BY <1>1, <1>2 DEF AgentTypeOK, Untouched
<1>5. state'[s] = "requested" /\ at'[s] = v
  BY <1>1, <1>2 DEF AgentTypeOK
<1>6. SampleInv(s)'
  BY <1>1, <1>2, <1>5
  DEF SampleInv, Blanked, Buffered, Spoken, Counted, Roomy, Delivered, Served, Away, OnTheWay, Working
<1> QED
  BY <1>2, <1>3, <1>4, <1>6, OneSample

\* What Extend does to a sample's buffers, which stay in step.
LEMMA Extended ==
  ASSUME AgentInv, NEW s \in Batch, state[s] \in OnTheWay,
         NEW n \in Nat \ {0}, NEW b \in Bit, NEW o \in Token, b = 1 <=> o = "llm", o # "prompt",
         o = "llm" \/ Len(mask[s]) > 0,
         Extend(s, o, [i \in 1 .. n |-> b])
  PROVE  /\ prompt' \in [Batch -> Seq(Token)] /\ mask' \in [Batch -> Seq(Bit)]
         /\ logprobs' \in [Batch -> Seq(Bit)]
         /\ \A t \in Batch \ {s} : prompt'[t] = prompt[t] /\ mask'[t] = mask[t] /\ logprobs'[t] = logprobs[t]
         /\ Aligned(prompt'[s], mask'[s])
         /\ logprobs'[s] = IF LogProbs THEN mask'[s] ELSE <<>>
         /\ Len(prompt'[s]) = Len(prompt[s]) + n /\ Len(mask'[s]) = Len(mask[s]) + n
         /\ prompt'[s][Len(prompt'[s])] = o
<1> USE DEF AgentInv
<1> DEFINE bits == [i \in 1 .. n |-> b]
<1>1. prompt[s] \in Seq(Token) /\ mask[s] \in Seq(Bit) /\ logprobs[s] \in Seq(Bit)
  BY DEF AgentTypeOK
<1>2. bits \in Seq(Bit) /\ DOMAIN bits = 1 .. n
  BY Repeated
<1>3. /\ prompt' = [prompt EXCEPT ![s] = prompt[s] \o [i \in 1 .. n |-> o]]
      /\ mask' = [mask EXCEPT ![s] = mask[s] \o bits]
      /\ logprobs' = IF (o = "llm" /\ LogProbs) \/ logprobs[s] # <<>>
                     THEN [logprobs EXCEPT ![s] = logprobs[s] \o bits] ELSE logprobs
  BY <1>2 DEF Extend
<1>4. prompt'[s] = prompt[s] \o [i \in 1 .. n |-> o] /\ mask'[s] = mask[s] \o bits
  BY <1>3 DEF AgentTypeOK
<1>5. Aligned(prompt[s], mask[s]) /\ logprobs[s] = IF LogProbs THEN mask[s] ELSE <<>>
  BY DEF SampleInv, Buffered
<1>6. /\ prompt'[s] \in Seq(Token) /\ Len(prompt'[s]) = Len(prompt[s]) + n
      /\ mask'[s] \in Seq(Bit) /\ Len(mask'[s]) = Len(mask[s]) + n
      /\ Aligned(prompt'[s], mask'[s])
      /\ prompt'[s][Len(prompt'[s])] = o
  <2> DEFINE x  == prompt[s]
             y  == mask[s]
             f  == [i \in 1 .. n |-> o]
             g  == [i \in 1 .. n |-> b]
             p1 == x \o f
             m1 == y \o g
  <2>1. /\ n \in Nat /\ n > 0 /\ b \in Bit /\ o \in Token /\ (b = 1 <=> o = "llm") /\ o # "prompt"
        /\ x \in Seq(Token) /\ y \in Seq(Bit) /\ Aligned(x, y)
        /\ Repeats(f, n, o) /\ Repeats(g, n, b)
    BY <1>1, <1>5 DEF Repeats
  <2> HIDE DEF x, y, f, g
  <2>2. p1 \in Seq(Token) /\ Len(p1) = Len(x) + n
    BY ONLY <2>1, ExtensionAligned
  <2>3. m1 \in Seq(Bit) /\ Len(m1) = Len(y) + n
    BY ONLY <2>1, ExtensionAligned
  <2>4. Aligned(p1, m1)
    BY ONLY <2>1, ExtensionAligned
  <2>5. p1[Len(p1)] = o
    BY ONLY <2>1, ExtensionAligned
  <2> HIDE DEF p1, m1
  <2>6. prompt'[s] = p1 /\ mask'[s] = m1
    BY <1>4 DEF p1, m1, x, y, f, g
  <2> QED
    BY <2>2, <2>3, <2>4, <2>5, <2>6 DEF x, y
<1>7. logprobs[s] \o bits \in Seq(Bit)
  BY <1>1, <1>2, ConcatProperties
<1>8. logprobs'[s] = IF LogProbs THEN mask'[s] ELSE <<>>
  <2>1. CASE LogProbs
    <3>1. o = "llm" \/ logprobs[s] # <<>>
      BY <1>5, <2>1, EmptySeq
    <3> QED
      BY <1>3, <1>4, <1>5, <2>1, <3>1 DEF AgentTypeOK
  <2>2. CASE ~LogProbs
    BY <1>3, <1>5, <2>2
  <2> QED
    BY <2>1, <2>2
<1> QED
  BY <1>1, <1>2, <1>3, <1>6, <1>7, <1>8 DEF AgentTypeOK

\* An answer is masked in, counted, and followed by a turn only within the limits.
LEMMA AnswerKeeps ==
  ASSUME AgentInv, NEW s \in Batch, Answer(s)
  PROVE  AgentInv'
<1> USE DEF AgentInv
<1>1. PICK n \in 1 .. MaxModelLen - Len(prompt[s]) :
        /\ Extend(s, "llm", Generated(n))
        /\ \E next \in AfterTurn(s, Len(mask[s]) + n) : Goto(s, next)
  BY DEF Answer
<1>2. PICK next \in AfterTurn(s, Len(mask[s]) + n) : state' = [state EXCEPT ![s] = next]
  BY <1>1 DEF Goto
<1>3. /\ state[s] = "requested"
      /\ assistantTurns' = [assistantTurns EXCEPT ![s] = assistantTurns[s] + 1]
      /\ UNCHANGED <<at, userTurns, out, phase, awake>>
  BY DEF Answer, manager
<1>4. /\ n \in Nat \ {0} /\ 1 \in Bit /\ "llm" \in Token /\ state[s] \in OnTheWay
      /\ Extend(s, "llm", [i \in 1 .. n |-> 1])
  <2>1. Len(prompt[s]) \in Nat /\ MaxModelLen \in Nat
    BY LenProperties, AgentLoopAssumption DEF AgentTypeOK, MaxModelLen
  <2>2. n \in Nat \ {0}
    BY <2>1
  <2>3. 1 \in Bit /\ "llm" \in Token /\ state[s] \in OnTheWay
    BY <1>3 DEF Bit, Token, OnTheWay
  <2>4. Extend(s, "llm", [i \in 1 .. n |-> 1])
    BY <1>1 DEF Generated
  <2> QED
    BY <2>2, <2>3, <2>4
<1>5. /\ prompt' \in [Batch -> Seq(Token)] /\ mask' \in [Batch -> Seq(Bit)]
      /\ logprobs' \in [Batch -> Seq(Bit)]
      /\ \A t \in Batch \ {s} : prompt'[t] = prompt[t] /\ mask'[t] = mask[t] /\ logprobs'[t] = logprobs[t]
      /\ Aligned(prompt'[s], mask'[s])
      /\ logprobs'[s] = IF LogProbs THEN mask'[s] ELSE <<>>
      /\ Len(mask'[s]) = Len(mask[s]) + n
  <2> HIDE DEF AgentInv
  <2> DEFINE bit == 1
             origin == "llm"
  <2>1. /\ bit \in Bit /\ origin \in Token /\ (bit = 1 <=> origin = "llm") /\ origin # "prompt"
        /\ origin = "llm" \/ Len(mask[s]) > 0
    BY <1>4
  <2>2. state[s] \in OnTheWay /\ n \in Nat \ {0} /\ Extend(s, origin, [i \in 1 .. n |-> bit])
    BY <1>4
  <2> HIDE DEF bit, origin
  <2> QED
    BY <2>1, <2>2, Extended, ZenonT(60)
<1>6. next \in Working \cup {"terminated"}
  BY <1>2 DEF AfterTurn, Working
<1>7. /\ state'[s] = next /\ assistantTurns'[s] = assistantTurns[s] + 1 /\ userTurns'[s] = userTurns[s]
      /\ assistantTurns[s] \in Nat /\ userTurns[s] \in Nat
  BY <1>2, <1>3 DEF AgentTypeOK
<1>8. AgentTypeOK'
  <2>1. next \in States
    BY <1>6 DEF States, OnTheWay
  <2>2. state' \in [Batch -> States]
    BY <1>2, <2>1 DEF AgentTypeOK
  <2>3. assistantTurns' \in [Batch -> Nat]
    BY <1>3 DEF AgentTypeOK
  <2> QED
    BY <1>3, <1>5, <2>2, <2>3 DEF AgentTypeOK
<1>9. \A t \in Batch \ {s} : Untouched(t)
  BY <1>2, <1>3, <1>5 DEF AgentTypeOK, Untouched
<1>10. Spoken(s)'
  BY <1>4, <1>5, LenProperties DEF AgentTypeOK, Spoken
<1>11. Buffered(s)'
  BY <1>5 DEF Buffered
<1>12. Counted(s)'
  <2>1. next \in Working => ~AtLimit(assistantTurns[s] + 1, MaxAssistantTurns) /\ ~AtLimit(userTurns[s], MaxUserTurns)
    BY <1>2 DEF AfterTurn, Working
  <2>2. ~AtLimit(assistantTurns[s], MaxAssistantTurns)
    BY <1>3 DEF SampleInv, Counted
  <2>3. MaxAssistantTurns # 0 => assistantTurns[s] + 1 <= MaxAssistantTurns
    BY <1>7, <2>2, AgentLoopAssumption DEF AtLimit
  <2>4. next \notin {"generating", "requested"}
    BY <1>6 DEF Working
  <2> QED
    BY <1>7, <2>1, <2>3, <2>4 DEF SampleInv, Counted
<1>13. Blanked(s)' /\ Roomy(s)' /\ Served(s)' /\ Delivered(s)'
  BY <1>3, <1>6, <1>7 DEF SampleInv, Blanked, Roomy, Served, Delivered, Working, Away
<1> QED
  BY <1>3, <1>8, <1>9, <1>10, <1>11, <1>12, <1>13, OneSample DEF SampleInv

\* A sample that only changes its state, to one that asks for no more.
LEMMA StateStep ==
  ASSUME AgentInv, NEW s \in Batch, NEW next \in {"failed", "terminated", "done"},
         state' = [state EXCEPT ![s] = next],
         state[s] \notin {"none", "done"},
         next = "terminated" => state[s] \in Working,
         next = "done" => state[s] = "scoring",
         UNCHANGED <<at, prompt, mask, logprobs, userTurns, assistantTurns, out, phase, awake>>
  PROVE  AgentInv'
<1> USE DEF AgentInv
<1>1. AgentTypeOK'
  BY DEF AgentTypeOK, States, Away, OnTheWay
<1>2. \A t \in Batch \ {s} : Untouched(t)
  BY DEF AgentTypeOK, Untouched
<1>3. state'[s] = next
  BY DEF AgentTypeOK
<1>4. SampleInv(s)'
  BY <1>3 DEF SampleInv, Blanked, Buffered, Spoken, Counted, Roomy, Delivered, Served, Away, OnTheWay, Working
<1> QED
  BY <1>1, <1>2, <1>4, OneSample

\* Tools and users lengthen the conversation and take a turn.
LEMMA ObservationKeeps ==
  ASSUME AgentInv, NEW s \in Batch, NEW n \in 1 .. MaxObservation, NEW o \in {"tool", "user"},
         NEW next \in {"generating", "terminated"}, state[s] \in Working,
         Extend(s, o, Observed(n)),
         o = "tool" => ~NoRoom(Len(mask[s]) + n),
         state' = [state EXCEPT ![s] = next],
         userTurns' = [userTurns EXCEPT ![s] = userTurns[s] + 1],
         UNCHANGED <<at, assistantTurns, out, phase, awake>>
  PROVE  AgentInv'
<1> USE DEF AgentInv
<1>1. /\ n \in Nat \ {0} /\ 0 \in Bit /\ o \in Token /\ o # "llm" /\ o # "prompt"
      /\ state[s] \in OnTheWay /\ state[s] \notin {"none", "done"}
      /\ Extend(s, o, [i \in 1 .. n |-> 0])
  BY AgentLoopAssumption DEF Observed, Bit, Token, OnTheWay, Working
<1>2. Len(mask[s]) > 0
  BY DEF SampleInv, Spoken
<1>3. /\ prompt' \in [Batch -> Seq(Token)] /\ mask' \in [Batch -> Seq(Bit)]
      /\ logprobs' \in [Batch -> Seq(Bit)]
      /\ \A t \in Batch \ {s} : prompt'[t] = prompt[t] /\ mask'[t] = mask[t] /\ logprobs'[t] = logprobs[t]
      /\ Aligned(prompt'[s], mask'[s])
      /\ logprobs'[s] = IF LogProbs THEN mask'[s] ELSE <<>>
      /\ Len(prompt'[s]) = Len(prompt[s]) + n /\ Len(mask'[s]) = Len(mask[s]) + n
      /\ prompt'[s][Len(prompt'[s])] = o
  <2> HIDE DEF AgentInv
  <2>1. 0 = 1 <=> o = "llm"
    BY <1>1
  <2>2. o # "prompt" /\ (o = "llm" \/ Len(mask[s]) > 0) /\ o \in Token /\ 0 \in Bit
    BY <1>1, <1>2
  <2>3. n \in Nat \ {0} /\ state[s] \in OnTheWay /\ Extend(s, o, [i \in 1 .. n |-> 0])
    BY <1>1
  <2> HIDE <1>1
  <2> QED
    BY <2>1, <2>2, <2>3, Extended
<1>4. /\ state'[s] = next /\ userTurns'[s] = userTurns[s] + 1 /\ assistantTurns'[s] = assistantTurns[s]
      /\ assistantTurns[s] \in Nat /\ userTurns[s] \in Nat /\ Len(mask[s]) \in Nat /\ Len(prompt[s]) \in Nat
  BY LenProperties DEF AgentTypeOK
<1>5. AgentTypeOK'
  <2>1. next \in States
    BY DEF States, OnTheWay
  <2>2. state' \in [Batch -> States]
    BY <2>1 DEF AgentTypeOK
  <2>3. userTurns' \in [Batch -> Nat]
    BY DEF AgentTypeOK
  <2> QED
    BY <1>3, <2>2, <2>3 DEF AgentTypeOK
<1>6. \A t \in Batch \ {s} : Untouched(t)
  BY <1>3 DEF AgentTypeOK, Untouched
<1>7. Buffered(s)' /\ Spoken(s)'
  BY <1>1, <1>2, <1>3, <1>4 DEF Buffered, Spoken
<1>8. Counted(s)'
  <2>1. ~AtLimit(assistantTurns[s], MaxAssistantTurns) /\ ~AtLimit(userTurns[s], MaxUserTurns)
    BY DEF SampleInv, Counted
  <2>2. MaxUserTurns # 0 => userTurns[s] + 1 <= MaxUserTurns
    BY <1>4, <2>1, AgentLoopAssumption DEF AtLimit
  <2> QED
    BY <1>4, <2>1, <2>2 DEF SampleInv, Counted, Working
<1>9. Roomy(s)'
  <2>1. CASE o = "user"
    BY <1>3, <2>1 DEF Roomy
  <2>2. CASE o = "tool"
    <3>1. Len(mask[s]) + n < ResponseLength
      BY <1>1, <1>4, <2>2, AgentLoopAssumption DEF NoRoom
    <3>2. Len(prompt[s]) - Len(mask[s]) \in 1 .. PromptLength
      BY <1>1 DEF SampleInv, Buffered, Aligned
    <3>3. Len(prompt'[s]) < MaxModelLen
      <4>1. Len(prompt'[s]) = Len(prompt[s]) + n /\ n \in Nat /\ Len(prompt[s]) \in Nat /\ Len(mask[s]) \in Nat
        BY <1>1, <1>3, <1>4
      <4>2. PromptLength \in Nat /\ ResponseLength \in Nat
        BY AgentLoopAssumption
      <4> QED
        BY <3>1, <3>2, <4>1, <4>2 DEF MaxModelLen
    <3> QED
      BY <3>3 DEF Roomy
  <2> QED
    BY <2>1, <2>2
<1>10. Blanked(s)' /\ Served(s)' /\ Delivered(s)'
  BY <1>4 DEF SampleInv, Blanked, Served, Delivered, Away
<1> QED
  BY <1>1, <1>5, <1>6, <1>7, <1>8, <1>9, <1>10, OneSample DEF SampleInv

\* What is cut off the end of an aligned conversation is aligned.
LEMMA SuffixAligned ==
  ASSUME NEW p \in Seq(Token), NEW m \in Seq(Bit), Aligned(p, m)
  PROVE  LET r == SubSeq(p, Len(p) - Len(m) + 1, Len(p))
         IN  /\ r \in Seq(Token) /\ Len(r) = Len(m)
             /\ \A i \in 1 .. Len(m) : (m[i] = 1 <=> r[i] = "llm") /\ r[i] # "prompt"
<1> DEFINE k == Len(p) - Len(m) + 1
           r == SubSeq(p, k, Len(p))
<1>1. Len(p) \in Nat /\ Len(m) \in Nat /\ k \in Int /\ k >= 1 /\ Len(p) - k + 1 = Len(m)
  BY LenProperties, AgentLoopAssumption DEF Aligned
<1>2. \A i \in k .. Len(p) : p[i] \in Token
  BY <1>1, ElementOfSeq
<1>3. /\ r \in Seq(Token)
      /\ Len(r) = IF k <= Len(p) THEN Len(p) - k + 1 ELSE 0
      /\ \A i \in 1 .. Len(p) - k + 1 : r[i] = p[k + i - 1]
  <2> HIDE DEF k
  <2> QED
    BY <1>1, <1>2, SubSeqProperties
<1>4. Len(r) = Len(m)
  <2> HIDE DEF r
  <2> QED
    BY <1>1, <1>3
<1>5. \A i \in 1 .. Len(m) : r[i] = p[Len(p) - Len(m) + i]
  <2> TAKE i \in 1 .. Len(m)
  <2>1. i \in 1 .. Len(p) - k + 1 /\ k + i - 1 = Len(p) - Len(m) + i
    BY <1>1
  <2> HIDE DEF r, k
  <2> QED
    BY <1>3, <2>1
<1> HIDE DEF r
<1>6. \A i \in 1 .. Len(m) : (m[i] = 1 <=> r[i] = "llm") /\ r[i] # "prompt"
  BY <1>5 DEF Aligned
<1> QED
  BY <1>3, <1>4, <1>6 DEF r

\* What run returns is the end of an aligned conversation, cut to the response's length.
LEMMA FinishKeeps ==
  ASSUME AgentInv, NEW s \in Batch, Finish(s)
  PROVE  AgentInv'
<1> DEFINE r == SubSeq(prompt[s], Len(prompt[s]) - Len(mask[s]) + 1, Len(prompt[s]))
           o == [response |-> Truncate(r), mask |-> Truncate(mask[s]), logprobs |-> Truncate(logprobs[s])]
<1>1. /\ state[s] = "terminated" /\ state' = [state EXCEPT ![s] = "scoring"]
      /\ prompt' = [prompt EXCEPT ![s] = <<>>] /\ mask' = [mask EXCEPT ![s] = <<>>]
      /\ logprobs' = [logprobs EXCEPT ![s] = <<>>]
      /\ userTurns' = [userTurns EXCEPT ![s] = 0] /\ assistantTurns' = [assistantTurns EXCEPT ![s] = 0]
      /\ UNCHANGED <<at, phase, awake>>
  BY DEF Finish, Goto, manager
<1>2. /\ prompt[s] \in Seq(Token) /\ mask[s] \in Seq(Bit) /\ logprobs[s] \in Seq(Bit)
      /\ Aligned(prompt[s], mask[s]) /\ logprobs[s] = (IF LogProbs THEN mask[s] ELSE <<>>)
      /\ Len(mask[s]) > 0
  BY <1>1 DEF AgentInv, AgentTypeOK, SampleInv, Buffered, Spoken, OnTheWay
<1>3. mask[s] # <<>>
  BY <1>2, EmptySeq
<1>4. out' = [out EXCEPT ![s] = o]
  BY <1>3 DEF Finish, Response
<1>5. /\ r \in Seq(Token) /\ Len(r) = Len(mask[s])
      /\ \A i \in 1 .. Len(mask[s]) : (mask[s][i] = 1 <=> r[i] = "llm") /\ r[i] # "prompt"
  BY <1>2, SuffixAligned
<1> HIDE DEF r
<1>6. /\ Truncate(r) \in Seq(Token) /\ Truncate(mask[s]) \in Seq(Bit) /\ Truncate(logprobs[s]) \in Seq(Bit)
      /\ Len(Truncate(r)) = Len(Truncate(mask[s])) /\ Len(Truncate(r)) <= ResponseLength
  <2>1. Len(mask[s]) \in Nat
    BY <1>2, LenProperties
  <2>2. Truncate(r) \in Seq(Token) /\ Len(Truncate(r)) = IF Len(r) <= ResponseLength THEN Len(r) ELSE ResponseLength
    BY <1>5, Truncated
  <2>3. /\ Truncate(mask[s]) \in Seq(Bit)
        /\ Len(Truncate(mask[s])) = IF Len(mask[s]) <= ResponseLength THEN Len(mask[s]) ELSE ResponseLength
    BY <1>2, Truncated
  <2>4. Truncate(logprobs[s]) \in Seq(Bit)
    BY <1>2, Truncated
  <2> QED
    BY <1>5, <2>1, <2>2, <2>3, <2>4, AgentLoopAssumption
<1>7. \A i \in 1 .. Len(Truncate(mask[s])) :
        (Truncate(mask[s])[i] = 1 <=> Truncate(r)[i] = "llm") /\ Truncate(r)[i] # "prompt"
  <2>1. \A i \in 1 .. Len(Truncate(mask[s])) : i \in 1 .. Len(mask[s]) /\ Truncate(mask[s])[i] = mask[s][i]
    BY <1>2, Truncated
  <2>2. \A i \in 1 .. Len(Truncate(r)) : Truncate(r)[i] = r[i]
    BY <1>5, Truncated
  <2> QED
    BY <1>5, <1>6, <2>1, <2>2
<1>8. o \in Output
  BY <1>6 DEF Output
<1> HIDE DEF o
<1>9. AgentTypeOK'
  <2>1. <<>> \in Seq(Token) /\ <<>> \in Seq(Bit) /\ "scoring" \in States
    BY EmptySeq DEF States, Away
  <2>2. /\ state' \in [Batch -> States] /\ at' \in [Batch -> Servers \cup {0}]
        /\ prompt' \in [Batch -> Seq(Token)] /\ mask' \in [Batch -> Seq(Bit)]
        /\ logprobs' \in [Batch -> Seq(Bit)]
    BY <1>1, <2>1 DEF AgentInv, AgentTypeOK
  <2>3. userTurns' \in [Batch -> Nat] /\ assistantTurns' \in [Batch -> Nat] /\ out' \in [Batch -> Output]
    BY <1>1, <1>4, <1>8 DEF AgentInv, AgentTypeOK
  <2> QED
    BY <1>1, <2>2, <2>3 DEF AgentInv, AgentTypeOK
<1>10. \A t \in Batch \ {s} : Untouched(t)
  BY <1>1, <1>4 DEF AgentInv, AgentTypeOK, Untouched
<1>11. /\ state'[s] = "scoring" /\ prompt'[s] = <<>> /\ mask'[s] = <<>> /\ logprobs'[s] = <<>>
       /\ userTurns'[s] = 0 /\ assistantTurns'[s] = 0 /\ out'[s] = o
  BY <1>1, <1>4 DEF AgentInv, AgentTypeOK
<1>12. Delivered(s)'
  <2>1. o.response = Truncate(r) /\ o.mask = Truncate(mask[s]) /\ o.logprobs = Truncate(logprobs[s])
    BY DEF o
  <2>2. LogProbs => o.logprobs = o.mask
    BY <1>2, <2>1
  <2> QED
    BY <1>6, <1>7, <1>11, <2>1, <2>2 DEF Delivered
<1>13. Blanked(s)' /\ Buffered(s)' /\ Spoken(s)' /\ Counted(s)' /\ Roomy(s)' /\ Served(s)'
  BY <1>11, AgentLoopAssumption
  DEF Blanked, Buffered, Spoken, Counted, Roomy, Served, OnTheWay, Working
<1> QED
  BY <1>1, <1>9, <1>10, <1>12, <1>13, OneSample DEF SampleInv

\* Every step of a sample keeps the invariant.
LEMMA SampleKeeps ==
  ASSUME AgentInv, NEW s \in Batch, Sample(s) \/ Fail(s)
  PROVE  AgentInv'
<1>1. CASE RunTools(s)
  <2>1. PICK n \in 1 .. MaxObservation :
          IF NoRoom(Len(mask[s]) + n)
          THEN Goto(s, "terminated") /\ UNCHANGED <<tokens, userTurns>>
          ELSE /\ Extend(s, "tool", Observed(n))
               /\ userTurns' = [userTurns EXCEPT ![s] = userTurns[s] + 1]
               /\ Goto(s, "generating")
    BY <1>1 DEF RunTools
  <2>2. state[s] = "processing_tools" /\ UNCHANGED <<at, assistantTurns, out, phase, awake>>
    BY <1>1 DEF RunTools, manager
  <2>3. state[s] \in Working
    BY <2>2 DEF Working
  <2>4. CASE NoRoom(Len(mask[s]) + n)
    <3>1. state' = [state EXCEPT ![s] = "terminated"] /\ UNCHANGED <<prompt, mask, logprobs, userTurns>>
      BY <2>1, <2>4 DEF Goto, tokens
    <3> QED
      BY <2>2, <2>3, <3>1, StateStep
  <2>5. CASE ~NoRoom(Len(mask[s]) + n)
    <3>1. /\ Extend(s, "tool", Observed(n)) /\ userTurns' = [userTurns EXCEPT ![s] = userTurns[s] + 1]
          /\ state' = [state EXCEPT ![s] = "generating"]
      BY <2>1, <2>5 DEF Goto
    <3> QED
      BY <2>2, <2>3, <2>5, <3>1, ObservationKeeps
  <2> QED
    BY <2>4, <2>5
<1>2. CASE Interact(s)
  <2>1. PICK n \in 1 .. MaxObservation : Extend(s, "user", Observed(n))
    BY <1>2 DEF Interact
  <2>2. PICK next \in {"terminated", "generating"} : state' = [state EXCEPT ![s] = next]
    BY <1>2 DEF Interact, Goto
  <2>3. /\ state[s] \in Working /\ UNCHANGED <<at, assistantTurns, out, phase, awake>>
        /\ userTurns' = [userTurns EXCEPT ![s] = userTurns[s] + 1]
    BY <1>2 DEF Interact, manager, Working
  <2> QED
    BY <2>1, <2>2, <2>3, ObservationKeeps
<1>3. CASE Reject(s)
  <2>1. /\ state[s] = "requested" /\ state' = [state EXCEPT ![s] = "failed"]
        /\ UNCHANGED <<at, prompt, mask, logprobs, userTurns, assistantTurns, out, phase, awake>>
    BY <1>3 DEF Reject, Goto, tokens, turns, manager
  <2> QED
    BY <2>1, StateStep
<1>4. CASE Fail(s)
  <2>1. /\ state[s] \notin {"none", "done"} /\ state' = [state EXCEPT ![s] = "failed"]
        /\ UNCHANGED <<at, prompt, mask, logprobs, userTurns, assistantTurns, out, phase, awake>>
    BY <1>4 DEF Fail, Goto, tokens, turns, manager
  <2> QED
    BY <2>1, StateStep
<1>5. CASE Score(s)
  <2>1. /\ state[s] = "scoring" /\ state' = [state EXCEPT ![s] = "done"]
        /\ UNCHANGED <<at, prompt, mask, logprobs, userTurns, assistantTurns, out, phase, awake>>
    BY <1>5 DEF Score, Goto, tokens, turns, manager
  <2> QED
    BY <2>1, StateStep
<1> QED
  BY <1>1, <1>2, <1>3, <1>4, <1>5, ApplyTemplateKeeps, SendRequestKeeps, AnswerKeeps, FinishKeeps DEF Sample

-----------------------------------------------------------------------------
\* What the invariant implies.

\* Every step of manager and samples keeps the invariant.
LEMMA AgentStep == AgentInv /\ [Next]_vars => AgentInv'
<1> SUFFICES ASSUME AgentInv, [Next]_vars PROVE AgentInv'
  OBVIOUS
<1>1. CASE UNCHANGED vars
  <2>1. AgentTypeOK' /\ PhaseInv'
    BY <1>1 DEF AgentInv, AgentTypeOK, PhaseInv, vars, manager, tokens, turns
  <2>2. ASSUME NEW t \in Batch PROVE SampleInv(t)'
    <3>1. Untouched(t)
      BY <1>1 DEF Untouched, vars, tokens, turns
    <3> QED
      BY <3>1, Elsewhere DEF AgentInv
  <2> QED
    BY <2>1, <2>2 DEF AgentInv
<1> QED
  BY <1>1, ManagerKeeps, SampleKeeps DEF Next

\* What the invariant says of the outputs, the limits and the servers.
LEMMA AgentProperties ==
  ASSUME AgentInv
  PROVE  OutputAligned /\ WithinLimits /\ QuietWhenAsleep
<1> USE DEF AgentInv
<1>1. OutputAligned
  <2> SUFFICES ASSUME NEW s \in Batch, state[s] \in {"scoring", "done"}
               PROVE  LET o == out[s] IN
                      /\ Len(o.mask) = Len(o.response)
                      /\ LogProbs => Len(o.logprobs) = Len(o.mask)
                      /\ \A i \in DOMAIN o.mask :
                           /\ o.mask[i] = 1 <=> o.response[i] = "llm"
                           /\ o.response[i] # "prompt"
                           /\ LogProbs => o.logprobs[i] = o.mask[i]
    BY DEF OutputAligned
  <2>1. Delivered(s)
    BY DEF SampleInv
  <2>2. out[s].mask \in Seq(Bit)
    BY DEF AgentTypeOK, Output
  <2>3. DOMAIN out[s].mask = 1 .. Len(out[s].mask)
    BY <2>2, LenProperties
  <2> QED
    BY <2>1, <2>3 DEF Delivered
<1>2. WithinLimits
  <2> SUFFICES ASSUME NEW s \in Batch
               PROVE  /\ MaxUserTurns # 0 => userTurns[s] <= MaxUserTurns
                      /\ MaxAssistantTurns # 0 => assistantTurns[s] <= MaxAssistantTurns
                      /\ Len(out[s].response) <= ResponseLength
                      /\ state[s] = "requested" /\ Len(prompt[s]) >= MaxModelLen
                           => prompt[s][Len(prompt[s])] = "user"
    BY DEF WithinLimits
  <2>1. Counted(s) /\ Delivered(s) /\ Roomy(s)
    BY DEF SampleInv
  <2>2. Len(prompt[s]) \in Nat /\ MaxModelLen \in Nat
    BY LenProperties, AgentLoopAssumption DEF AgentTypeOK, MaxModelLen
  <2>3. state[s] = "requested" /\ Len(prompt[s]) >= MaxModelLen => prompt[s][Len(prompt[s])] = "user"
    BY <2>1, <2>2 DEF Roomy
  <2> QED
    BY <2>1, <2>3 DEF Counted, Delivered
<1>3. QuietWhenAsleep
  <2> SUFFICES ASSUME NEW s \in Batch, state[s] = "requested" PROVE at[s] \in awake
    BY DEF QuietWhenAsleep
  <2>1. phase \in {"gather", "raised"}
    BY DEF PhaseInv
  <2> QED
    BY <2>1 DEF PhaseInv, SampleInv, Served
<1> QED
  BY <1>1, <1>2, <1>3

\* Outputs are aligned, trajectories stay within their limits, and no server sleeps under a
\* request, however the samples interleave and whatever raises.
THEOREM AgentLoopCorrect == Spec => [](OutputAligned /\ WithinLimits /\ QuietWhenAsleep)
<1>1. AgentInv /\ [Next]_vars => AgentInv'
  BY AgentStep
<1>2. AgentInv => OutputAligned /\ WithinLimits /\ QuietWhenAsleep
  BY AgentProperties
<1> QED
  BY AgentInitial, <1>1, <1>2, PTL DEF Spec

-----------------------------------------------------------------------------
\* Sessions.  The cache of a worker is in the order of the batches its entries are from, and holds
\* every trajectory of the batch that has made a request.

Entry == [request : Nat \X Batch, server : Servers]

\* Trajectories of a worker in a batch.
Share == BatchSize \div workers

InOrder(q) ==
  /\ q \in Seq(Entry) /\ Len(q) <= CacheSize
  /\ \A i, j \in 1 .. Len(q) :
       i < j => q[i].request # q[j].request /\ q[i].request[1] <= q[j].request[1]

OwnAndOlder(q, w) ==
  \A i \in 1 .. Len(q) :
    /\ WorkerOf(q[i].request[2]) = w
    /\ q[i].request[1] <= round
    /\ phase = "waking" => q[i].request[1] < round

Remembered(s) ==
  phase # "waking" /\ at[s] # 0 =>
    \E i \in 1 .. Len(sessions[WorkerOf(s)]) :
      sessions[WorkerOf(s)][i] = [request |-> Request(s), server |-> at[s]]

SessionInv ==
  /\ workers \in 1 .. MaxWorkers /\ BatchSize % workers = 0 /\ Share <= CacheSize
  /\ round \in Nat \ {0}
  /\ DOMAIN sessions = 1 .. MaxWorkers
  /\ \A w \in 1 .. MaxWorkers : InOrder(sessions[w]) /\ OwnAndOlder(sessions[w], w)
  /\ \A s \in Batch : Remembered(s)

\* A chunk has its own worker, and the samples of a worker are as many as its share.
LEMMA Chunks ==
  ASSUME workers \in 1 .. MaxWorkers, BatchSize % workers = 0
  PROVE  /\ Share \in Nat \ {0}
         /\ \A s \in Batch : WorkerOf(s) \in 1 .. MaxWorkers
         /\ \A w \in 1 .. MaxWorkers, s \in Batch :
              WorkerOf(s) = w => s - Share * (w - 1) \in 1 .. Share
<1>1. BatchSize \in Nat \ {0} /\ MaxWorkers \in Nat /\ workers \in Nat \ {0} /\ workers <= MaxWorkers
  BY AgentLoopAssumption
<1>2. Share \in Nat \ {0} /\ BatchSize = workers * Share
  BY <1>1 DEF Share
<1>3. ASSUME NEW s \in Batch
      PROVE  /\ WorkerOf(s) \in 1 .. workers
             /\ s - Share * (WorkerOf(s) - 1) \in 1 .. Share
  <2> DEFINE k == (s - 1) \div Share
  <2>1. s - 1 \in Nat /\ s - 1 < Share * workers
    BY <1>1, <1>2 DEF Batch
  <2>2. k \in Nat /\ Share * k <= s - 1 /\ s - 1 < Share * k + Share
    BY <1>2, <2>1
  <2>3. k + 1 \in 1 .. workers
    BY <1>1, <1>2, <2>1
  <2>4. WorkerOf(s) = k + 1
    BY DEF WorkerOf, Share
  <2>5. s \in Nat /\ WorkerOf(s) - 1 = k
    BY <2>2, <2>4, <1>1 DEF Batch
  <2>6. Share * k \in Nat
    BY <1>2, <2>2
  <2> HIDE DEF k
  <2>7. s - Share * k \in 1 .. Share
    BY <1>2, <2>2, <2>5, <2>6
  <2> QED
    BY <2>3, <2>4, <2>5, <2>7
<1> QED
  BY <1>1, <1>2, <1>3

\* An entry that is used again loses its place, and no entry is lost.
LEMMA Renewed ==
  ASSUME NEW q, InOrder(q), NEW k \in 1 .. Len(q),
         \A i \in 1 .. Len(q) : q[i].request[1] <= q[k].request[1]
  PROVE  LET p == ServerManager!Renew(q, k) IN
         /\ InOrder(p)
         /\ \A i \in 1 .. Len(p) : \E j \in 1 .. Len(q) : p[i] = q[j]
         /\ \A j \in 1 .. Len(q) : \E i \in 1 .. Len(p) : p[i] = q[j]
<1> DEFINE n == Len(q)
           p == ServerManager!Renew(q, k)
           from(i) == IF i < k THEN i ELSE IF i < n THEN i + 1 ELSE k
<1>1. q \in Seq(Entry) /\ n \in Nat /\ n <= CacheSize /\ DOMAIN q = 1 .. n
  BY LenProperties DEF InOrder
<1>2. \A i \in 1 .. n : q[i] \in Entry /\ q[i].request[1] \in Nat
  <2>1. \A i \in 1 .. n : q[i] \in Entry
    BY <1>1, ElementOfSeq
  <2> QED
    BY <2>1 DEF Entry
<1>3. \A i \in 1 .. n : from(i) \in 1 .. n
  BY <1>1
<1>4. p = [i \in 1 .. n |-> IF i < k THEN q[i] ELSE IF i < n THEN q[i + 1] ELSE q[k]]
  BY <1>1 DEF ServerManager!Renew
<1>5. \A i \in 1 .. n : p[i] = q[from(i)]
  BY <1>4
<1>6. p \in Seq(Entry) /\ Len(p) = n
  <2>1. p \in [1 .. n -> Entry]
    BY <1>2, <1>3, <1>4
  <2>2. p \in Seq(Entry)
    BY <1>1, <2>1, SeqDef
  <2>3. DOMAIN p = 1 .. n
    BY <1>4
  <2> QED
    BY <1>1, <2>2, <2>3, LenProperties
<1> HIDE DEF p
<1>7. ASSUME NEW i \in 1 .. n, NEW j \in 1 .. n, i < j
      PROVE  p[i].request # p[j].request /\ p[i].request[1] <= p[j].request[1]
  <2>1. CASE j < n \/ j < k
    <3>1. from(i) < from(j)
      BY <1>1, <1>7, <2>1
    <3> QED
      BY <1>3, <1>5, <3>1 DEF InOrder
  <2>2. CASE ~(j < n) /\ ~(j < k)
    <3>1. from(j) = k /\ from(i) # k
      BY <1>1, <1>7, <2>2
    <3>2. q[from(i)].request # q[k].request
      <4>1. from(i) < k \/ k < from(i)
        BY <1>1, <1>3, <3>1
      <4> QED
        BY <1>3, <4>1 DEF InOrder
    <3> QED
      BY <1>3, <1>5, <3>1, <3>2
  <2> QED
    BY <2>1, <2>2
<1>8. InOrder(p)
  BY <1>1, <1>6, <1>7 DEF InOrder
<1>9. \A i \in 1 .. Len(p) : \E j \in 1 .. Len(q) : p[i] = q[j]
  <2>1. ASSUME NEW i \in 1 .. n PROVE \E j \in 1 .. n : p[i] = q[j]
    <3> HIDE DEF from
    <3> QED
      BY <1>3, <1>5
  <2> QED
    BY <1>6, <2>1
<1>10. ASSUME NEW j \in 1 .. n PROVE \E i \in 1 .. n : p[i] = q[j]
  <2>1. CASE j < k
    BY <1>5, <2>1
  <2>2. CASE j = k
    <3>1. ~(n < k) /\ ~(n < n) /\ n \in 1 .. n
      BY <1>1
    <3>2. from(n) = k
      BY <3>1, Zenon
    <3> QED
      BY <1>5, <2>2, <3>1, <3>2
  <2>3. CASE k < j
    <3>1. j - 1 \in 1 .. n /\ from(j - 1) = j
      BY <1>1, <2>3
    <3> QED
      BY <1>5, <3>1
  <2> QED
    BY <1>1, <2>1, <2>2, <2>3
<1> QED
  BY <1>6, <1>8, <1>9, <1>10 DEF p

\* A new entry comes last; a full cache gives up its oldest one for it.
LEMMA Entered ==
  ASSUME NEW q, InOrder(q), NEW e \in Entry,
         \A i \in 1 .. Len(q) : q[i].request # e.request /\ q[i].request[1] <= e.request[1]
  PROVE  LET p == Append(ServerManager!Evict(q), e) IN
         /\ InOrder(p)
         /\ \A i \in 1 .. Len(p) : p[i] = e \/ \E j \in 1 .. Len(q) : p[i] = q[j]
         /\ \E i \in 1 .. Len(p) : p[i] = e
         /\ \A j \in 1 .. Len(q) :
              (j = 1 /\ Len(q) = CacheSize) \/ \E i \in 1 .. Len(p) : p[i] = q[j]
<1> DEFINE n == Len(q)
           r == ServerManager!Evict(q)
           p == Append(r, e)
<1>1. q \in Seq(Entry) /\ n \in Nat /\ n <= CacheSize /\ CacheSize \in Nat \ {0}
  BY LenProperties, AgentLoopAssumption DEF InOrder
<1>2. PICK d \in {0, 1} :
        /\ r \in Seq(Entry) /\ Len(r) = n - d /\ Len(r) < CacheSize
        /\ d = 1 => n = CacheSize
        /\ \A i \in 1 .. Len(r) : i + d \in 1 .. n /\ r[i] = q[i + d]
  <2>1. CASE n >= CacheSize
    <3>1. n = CacheSize /\ q # <<>> /\ r = Tail(q)
      BY <1>1, <2>1, EmptySeq DEF ServerManager!Evict
    <3>2. r \in Seq(Entry) /\ Len(r) = n - 1 /\ \A i \in 1 .. Len(r) : r[i] = q[i + 1]
      BY <1>1, <3>1, HeadTailProperties
    <3> HIDE DEF r
    <3>3. Len(r) < CacheSize /\ \A i \in 1 .. Len(r) : i + 1 \in 1 .. n
      BY <1>1, <3>1, <3>2
    <3> QED
      BY <3>1, <3>2, <3>3
  <2>2. CASE ~(n >= CacheSize)
    <3>1. r = q
      BY <2>2 DEF ServerManager!Evict
    <3> HIDE DEF r
    <3> QED
      BY <1>1, <2>2, <3>1
  <2> QED
    BY <2>1, <2>2
<1> HIDE DEF r
<1>3. /\ p \in Seq(Entry) /\ Len(p) = Len(r) + 1 /\ Len(r) \in Nat
      /\ \A i \in 1 .. Len(r) : p[i] = q[i + d]
      /\ p[Len(r) + 1] = e
  <2>1. p \in Seq(Entry) /\ Len(p) = Len(r) + 1 /\ p[Len(r) + 1] = e /\ \A i \in 1 .. Len(r) : p[i] = r[i]
    BY <1>2, AppendProperties
  <2>2. Len(r) \in Nat
    BY <1>2, LenProperties
  <2> QED
    BY <1>2, <2>1, <2>2
<1> HIDE DEF p
<1>4. ASSUME NEW i \in 1 .. Len(p), NEW j \in 1 .. Len(p), i < j
      PROVE  p[i].request # p[j].request /\ p[i].request[1] <= p[j].request[1]
  <2>1. i \in 1 .. Len(r) /\ p[i] = q[i + d] /\ i + d \in 1 .. n
    BY <1>2, <1>3, <1>4
  <2>2. CASE j = Len(r) + 1
    BY <1>3, <2>1, <2>2
  <2>3. CASE j # Len(r) + 1
    <3>1. j \in 1 .. Len(r)
      BY <1>3, <2>3
    <3>2. p[j] = q[j + d] /\ j + d \in 1 .. n /\ i + d < j + d
      BY <1>2, <1>3, <1>4, <3>1
    <3> QED
      BY <2>1, <3>2 DEF InOrder
  <2> QED
    BY <2>2, <2>3
<1>5. InOrder(p)
  BY <1>1, <1>2, <1>3, <1>4 DEF InOrder
<1>6. ASSUME NEW i \in 1 .. Len(p) PROVE p[i] = e \/ \E j \in 1 .. n : p[i] = q[j]
  BY <1>2, <1>3
<1>7. \E i \in 1 .. Len(p) : p[i] = e
  <2>1. Len(r) + 1 \in 1 .. Len(p)
    BY <1>3
  <2> QED
    BY <1>3, <2>1
<1>8. ASSUME NEW j \in 1 .. n, ~(j = 1 /\ n = CacheSize) PROVE \E i \in 1 .. Len(p) : p[i] = q[j]
  <2>1. j - d \in 1 .. Len(r) /\ (j - d) + d = j
    BY <1>1, <1>2, <1>8
  <2>2. j - d \in 1 .. Len(p) /\ p[j - d] = q[j]
    BY <1>3, <2>1
  <2> QED
    BY <2>2
<1> QED
  BY <1>5, <1>6, <1>7, <1>8 DEF p, r

\* The oldest entry of a full cache is from an earlier batch, as long as a trajectory of this batch
\* is missing: the others are too few to fill it.
LEMMA OldestIsOld ==
  ASSUME SessionInv, NEW s \in Batch, Len(sessions[WorkerOf(s)]) = CacheSize,
         \A i \in 1 .. CacheSize : sessions[WorkerOf(s)][i].request # <<round, s>>
  PROVE  sessions[WorkerOf(s)][1].request[1] # round
<1> SUFFICES ASSUME sessions[WorkerOf(s)][1].request[1] = round PROVE FALSE
  OBVIOUS
<1> DEFINE w == WorkerOf(s)
           q == sessions[w]
           base == Share * (w - 1)
           slots == (1 .. Share) \ {s - base}
           f == [i \in 1 .. CacheSize |-> q[i].request[2] - base]
<1>1. /\ Share \in Nat \ {0} /\ w \in 1 .. MaxWorkers
      /\ \A t \in Batch : WorkerOf(t) = w => t - base \in 1 .. Share
  BY Chunks DEF SessionInv
<1>2. /\ q \in Seq(Entry) /\ InOrder(q) /\ OwnAndOlder(q, w) /\ Len(q) = CacheSize
      /\ round \in Nat /\ CacheSize \in Nat \ {0} /\ Share <= CacheSize
  BY <1>1, AgentLoopAssumption DEF SessionInv, InOrder
<1> HIDE DEF q
<1>3. ASSUME NEW i \in 1 .. CacheSize
      PROVE  /\ q[i].request = <<round, q[i].request[2]>>
             /\ q[i].request[2] \in Batch /\ WorkerOf(q[i].request[2]) = w
  <2>1. q[i] \in Entry
    BY <1>2, ElementOfSeq
  <2>2. q[i].request \in Nat \X Batch
    BY <2>1 DEF Entry
  <2>3. q[i].request[1] <= round /\ WorkerOf(q[i].request[2]) = w
    BY <1>2 DEF OwnAndOlder
  <2>4. round <= q[i].request[1]
    <3>1. CASE i = 1
      BY <1>2, <3>1 DEF q
    <3>2. CASE 1 < i
      <4>1. 1 \in 1 .. Len(q) /\ i \in 1 .. Len(q)
        BY <1>2
      <4>2. q[1].request[1] <= q[i].request[1]
        BY <1>2, <3>2, <4>1 DEF InOrder
      <4> QED
        BY <4>2 DEF q
    <3> QED
      BY <1>2, <3>1, <3>2
  <2>5. q[i].request[1] = round
    BY <1>2, <2>2, <2>3, <2>4
  <2> QED
    BY <2>2, <2>3, <2>5
<1>4. Batch \subseteq Int /\ base \in Int /\ s - base \in 1 .. Share
  <2>1. Batch \subseteq Int
    BY DEF Batch
  <2>2. w - 1 \in Int
    BY <1>1, AgentLoopAssumption
  <2>3. base \in Int
    BY <1>1, <2>2
  <2> QED
    BY <1>1, <2>1, <2>3
<1> HIDE DEF base
<1>5. f \in [1 .. CacheSize -> slots]
  <2>1. ASSUME NEW i \in 1 .. CacheSize PROVE q[i].request[2] - base \in slots
    <3>1. q[i].request[2] - base \in 1 .. Share
      BY <1>1, <1>3
    <3>2. q[i].request[2] # s
      BY <1>3 DEF q
    <3> DEFINE x == q[i].request[2]
    <3>3. x \in Int /\ s \in Int /\ x # s
      BY <1>3, <1>4, <3>2
    <3> HIDE DEF x
    <3>4. x - base # s - base
      BY <1>4, <3>3
    <3> QED
      BY <3>1, <3>4 DEF x
  <2> QED
    BY <2>1
<1>6. IsFiniteSet(slots) /\ Cardinality(slots) = Share - 1
  <2>1. IsFiniteSet(1 .. Share) /\ Cardinality(1 .. Share) = Share
    BY <1>1, FS_Interval
  <2> QED
    BY <1>4, <2>1, FS_RemoveElement
<1>7. IsFiniteSet(1 .. CacheSize) /\ Cardinality(1 .. CacheSize) = CacheSize
  BY <1>2, FS_Interval
<1>8. Cardinality(slots) < Cardinality(1 .. CacheSize)
  BY <1>1, <1>2, <1>6, <1>7
<1>9. PICK i, j \in 1 .. CacheSize : i # j /\ f[i] = f[j]
  <2> HIDE DEF f, slots
  <2> QED
    BY <1>5, <1>6, <1>7, <1>8, FS_PigeonHole
<1>10. q[i].request[2] = q[j].request[2]
  <2> DEFINE x == q[i].request[2]
             y == q[j].request[2]
  <2>1. x - base = y - base
    BY <1>9
  <2>2. x \in Int /\ y \in Int
    BY <1>3, <1>4
  <2> HIDE DEF x, y
  <2>3. x = y
    BY <1>4, <2>1, <2>2
  <2> QED
    BY <2>3 DEF x, y
<1>11. q[i].request = q[j].request
  BY <1>3, <1>10
<1>12. i < j \/ j < i
  BY <1>2, <1>9
<1> QED
  BY <1>2, <1>11, <1>12 DEF InOrder

\* A request finds the server of its trajectory, or the trajectory had none yet.
LEMMA SendRequestSticks ==
  ASSUME AgentInv, SessionInv, NEW s \in Batch, SendRequest(s)
  PROVE  SessionInv' /\ (at[s] # 0 => at'[s] = at[s])
<1> DEFINE w == WorkerOf(s)
           q == sessions[w]
           p == sessions'[w]
<1>1. phase # "waking" /\ phase' = phase /\ round' = round /\ workers' = workers
  BY DEF AgentInv, PhaseInv, SendRequest, manager
<1>2. PICK v \in Servers : ServerManager!Choose(w, Request(s), v) /\ at' = [at EXCEPT ![s] = v]
  BY DEF SendRequest
<1> DEFINE e == [request |-> <<round, s>>, server |-> v]
<1>3. Request(s) = <<round, s>> /\ e \in Entry /\ e.request[1] = round /\ e.request[2] = s
  BY DEF Request, Entry, SessionInv
<1>4. /\ \A t \in Batch : WorkerOf(t) \in 1 .. MaxWorkers
      /\ \A t \in Batch : WorkerOf(t)' = WorkerOf(t)
      /\ Share' = Share
  BY <1>1, Chunks DEF SessionInv, WorkerOf, Share
<1>5. w \in 1 .. MaxWorkers /\ DOMAIN sessions = 1 .. MaxWorkers
  BY <1>4 DEF SessionInv
<1>6. InOrder(q) /\ OwnAndOlder(q, w) /\ DOMAIN q = 1 .. Len(q) /\ round \in Nat
  BY <1>5, LenProperties DEF SessionInv, InOrder
<1>7. at'[s] = v /\ \A t \in Batch \ {s} : at'[t] = at[t]
  BY <1>2 DEF AgentInv, AgentTypeOK
<1>8. ASSUME DOMAIN sessions' = 1 .. MaxWorkers, \A u \in 1 .. MaxWorkers \ {w} : sessions'[u] = sessions[u],
             InOrder(p),
             \A i \in 1 .. Len(p) : p[i] = e \/ \E j \in 1 .. Len(q) : p[i] = q[j],
             \E i \in 1 .. Len(p) : p[i] = e,
             \A j \in 1 .. Len(q) :
               q[j].request[1] # round \/ q[j].request[2] = s \/ \E i \in 1 .. Len(p) : p[i] = q[j]
      PROVE  SessionInv'
  <2>1. ASSUME NEW u \in 1 .. MaxWorkers PROVE InOrder(sessions[u])' /\ OwnAndOlder(sessions[u], u)'
    <3>1. CASE u # w
      <4>1. sessions'[u] = sessions[u] /\ InOrder(sessions[u]) /\ OwnAndOlder(sessions[u], u)
        BY <1>8, <3>1 DEF SessionInv
      <4> QED
        BY <1>1, <4>1 DEF InOrder, OwnAndOlder, WorkerOf
    <3>2. CASE u = w
      <4>1. InOrder(sessions'[u])
        BY <1>8, <3>2
      <4>2. ASSUME NEW i \in 1 .. Len(sessions'[u])
            PROVE  WorkerOf(sessions'[u][i].request[2]) = u /\ sessions'[u][i].request[1] <= round
        <5>1. CASE sessions'[u][i] = e
          BY <1>3, <1>6, <3>2, <5>1
        <5>2. CASE \E j \in 1 .. Len(q) : sessions'[u][i] = q[j]
          BY <1>6, <3>2, <5>2 DEF OwnAndOlder
        <5> QED
          BY <1>8, <3>2, <5>1, <5>2
      <4> QED
        BY <1>1, <4>1, <4>2 DEF InOrder, OwnAndOlder, WorkerOf
    <3> QED
      BY <3>1, <3>2
  <2>2. ASSUME NEW t \in Batch PROVE Remembered(t)'
    <3> SUFFICES ASSUME at'[t] # 0
                 PROVE  \E i \in 1 .. Len(sessions'[WorkerOf(t)]) :
                          sessions'[WorkerOf(t)][i] = [request |-> <<round, t>>, server |-> at'[t]]
      BY <1>1, <1>4 DEF Remembered, Request
    <3>1. CASE t = s
      BY <1>7, <1>8, <3>1
    <3>2. CASE t # s
      <4>1. at'[t] = at[t]
        BY <1>7, <3>2
      <4>2. PICK j \in 1 .. Len(sessions[WorkerOf(t)]) :
              sessions[WorkerOf(t)][j] = [request |-> <<round, t>>, server |-> at[t]]
        BY <1>1, <4>1 DEF SessionInv, Remembered, Request
      <4>3. CASE WorkerOf(t) = w
        <5>1. q[j].request[1] = round /\ q[j].request[2] = t
          BY <4>2, <4>3
        <5>2. \E i \in 1 .. Len(p) : p[i] = q[j]
          BY <1>8, <3>2, <4>2, <4>3, <5>1
        <5> QED
          BY <4>1, <4>2, <4>3, <5>2
      <4>4. CASE WorkerOf(t) # w
        BY <1>4, <1>8, <4>1, <4>2, <4>4
      <4> QED
        BY <4>3, <4>4
    <3> QED
      BY <3>1, <3>2
  <2> QED
    BY <1>1, <1>4, <1>8, <2>1, <2>2 DEF SessionInv
<1>9. CASE ServerManager!Known(w, <<round, s>>)
  <2> DEFINE k == ServerManager!Place(w, <<round, s>>)
  <2>1. k \in 1 .. Len(q) /\ q[k].request = <<round, s>>
    BY <1>6, <1>9 DEF ServerManager!Known, ServerManager!Place
  <2>2. v = q[k].server /\ sessions' = [sessions EXCEPT ![w] = ServerManager!Renew(q, k)]
    BY <1>2, <1>3, <1>9 DEF ServerManager!Choose
  <2> HIDE DEF k
  <2>3. p = ServerManager!Renew(q, k) /\ DOMAIN sessions' = 1 .. MaxWorkers
        /\ \A u \in 1 .. MaxWorkers \ {w} : sessions'[u] = sessions[u]
    BY <1>5, <2>2
  <2>4. q[k] = e
    <3>1. q[k] \in Entry
      BY <1>6, <2>1, ElementOfSeq DEF InOrder
    <3> QED
      BY <2>1, <2>2, <3>1 DEF Entry
  <2>5. \A i \in 1 .. Len(q) : q[i].request[1] <= q[k].request[1]
    BY <1>6, <2>1 DEF OwnAndOlder
  <2>6. /\ InOrder(p)
        /\ \A i \in 1 .. Len(p) : \E j \in 1 .. Len(q) : p[i] = q[j]
        /\ \A j \in 1 .. Len(q) : \E i \in 1 .. Len(p) : p[i] = q[j]
    <3> HIDE DEF p, q
    <3> QED
      BY <1>6, <2>1, <2>3, <2>5, Renewed
  <2>7. SessionInv'
    BY <1>8, <2>1, <2>3, <2>4, <2>6
  <2>8. ASSUME at[s] # 0 PROVE v = at[s]
    <3>1. PICK i \in 1 .. Len(q) : q[i] = [request |-> <<round, s>>, server |-> at[s]]
      BY <1>1, <2>8 DEF SessionInv, Remembered, Request
    <3>2. ~(i < k) /\ ~(k < i)
      <4>1. q[i].request = q[k].request
        BY <2>1, <3>1
      <4> HIDE DEF q
      <4> QED
        BY <1>6, <2>1, <4>1 DEF InOrder
    <3>3. i = k
      BY <2>1, <3>2, LenProperties, <1>6 DEF InOrder
    <3> QED
      BY <2>2, <3>1, <3>3
  <2> QED
    BY <1>7, <2>7, <2>8
<1>10. CASE ~ServerManager!Known(w, <<round, s>>)
  <2>1. \A i \in 1 .. Len(q) : q[i].request # <<round, s>>
    BY <1>6, <1>10 DEF ServerManager!Known
  <2>2. sessions' = [sessions EXCEPT ![w] = Append(ServerManager!Evict(q), e)]
    BY <1>2, <1>3, <1>10 DEF ServerManager!Choose
  <2>3. p = Append(ServerManager!Evict(q), e) /\ DOMAIN sessions' = 1 .. MaxWorkers
        /\ \A u \in 1 .. MaxWorkers \ {w} : sessions'[u] = sessions[u]
    BY <1>5, <2>2
  <2>4. \A i \in 1 .. Len(q) : q[i].request # e.request /\ q[i].request[1] <= e.request[1]
    BY <1>6, <2>1 DEF OwnAndOlder
  <2>5. /\ InOrder(p)
        /\ \A i \in 1 .. Len(p) : p[i] = e \/ \E j \in 1 .. Len(q) : p[i] = q[j]
        /\ \E i \in 1 .. Len(p) : p[i] = e
        /\ \A j \in 1 .. Len(q) :
             (j = 1 /\ Len(q) = CacheSize) \/ \E i \in 1 .. Len(p) : p[i] = q[j]
    <3> HIDE DEF p, q, e
    <3> QED
      BY <1>3, <1>6, <2>3, <2>4, Entered
  <2>6. Len(q) = CacheSize => q[1].request[1] # round
    BY <2>1, OldestIsOld
  <2>7. SessionInv'
    BY <1>8, <2>3, <2>5, <2>6
  <2>8. ASSUME at[s] # 0 PROVE FALSE
    <3>1. PICK i \in 1 .. Len(q) : q[i] = [request |-> <<round, s>>, server |-> at[s]]
      BY <1>1, <2>8 DEF SessionInv, Remembered, Request
    <3>2. q[i].request = <<round, s>>
      BY <3>1
    <3> QED
      BY <2>1, <3>2
  <2> QED
    BY <2>7, <2>8
<1> QED
  BY <1>9, <1>10

\* Steps other than a request leave the sessions and the servers of a batch in progress alone.
LEMMA SessionStep ==
  ASSUME AgentInv, SessionInv, [Next]_vars
  PROVE  /\ SessionInv'
         /\ \A s \in Batch : round' = round /\ at[s] # 0 /\ phase # "waking" => at'[s] = at[s]
<1>1. ASSUME UNCHANGED <<workers, sessions, at, phase, round>>
      PROVE  SessionInv'
  BY <1>1 DEF SessionInv, InOrder, OwnAndOlder, WorkerOf, Share, Remembered, Request
<1>2. CASE Dispatch
  <2>1. /\ phase = "waking" /\ phase' = "gather" /\ UNCHANGED <<workers, round, sessions>>
        /\ \A s \in Batch : at'[s] = 0
    BY <1>2 DEF Dispatch, servers
  <2>2. ASSUME NEW w \in 1 .. MaxWorkers PROVE InOrder(sessions[w])' /\ OwnAndOlder(sessions[w], w)'
    BY <2>1 DEF SessionInv, InOrder, OwnAndOlder, WorkerOf
  <2>3. SessionInv'
    BY <2>1, <2>2 DEF SessionInv, WorkerOf, Share, Remembered
  <2> QED
    BY <2>1, <2>3
<1>3. CASE NextBatch
  <2>1. /\ phase = "sleeping" /\ UNCHANGED <<workers, sessions, at>>
        /\ \/ phase' = "waking" /\ round' = round + 1
           \/ phase' = "finished" /\ round' = round
    BY <1>3 DEF NextBatch, servers
  <2>2. CASE phase' = "waking" /\ round' = round + 1
    <3>1. ASSUME NEW w \in 1 .. MaxWorkers PROVE InOrder(sessions[w])' /\ OwnAndOlder(sessions[w], w)'
      <4>1. InOrder(sessions[w]) /\ OwnAndOlder(sessions[w], w) /\ round \in Nat
        BY DEF SessionInv
      <4>2. ASSUME NEW i \in 1 .. Len(sessions[w]) PROVE sessions[w][i].request[1] \in Nat
        <5>1. sessions[w][i] \in Entry
          BY <4>1, ElementOfSeq DEF InOrder
        <5> QED
          BY <5>1 DEF Entry
      <4>3. InOrder(sessions[w])'
        BY <2>1, <4>1 DEF InOrder
      <4>4. ASSUME NEW i \in 1 .. Len(sessions[w])
            PROVE  sessions[w][i].request[1] <= round + 1 /\ sessions[w][i].request[1] < round + 1
        BY <4>1, <4>2 DEF OwnAndOlder
      <4> QED
        BY <2>1, <2>2, <4>1, <4>3, <4>4 DEF OwnAndOlder, WorkerOf
    <3>2. SessionInv'
      BY <2>1, <2>2, <3>1 DEF SessionInv, WorkerOf, Share, Remembered
    <3> QED
      BY <2>1, <3>2
  <2>3. CASE phase' = "finished" /\ round' = round
    <3>1. SessionInv'
      BY <2>1, <2>3 DEF SessionInv, InOrder, OwnAndOlder, WorkerOf, Share, Remembered, Request
    <3> QED
      BY <2>1, <3>1
  <2> QED
    BY <2>1, <2>2, <2>3
<1>4. CASE Gathered \/ Raised
  <2>1. /\ UNCHANGED <<workers, sessions, at, round>>
        /\ phase = "gather" /\ phase' # "waking"
    BY <1>4 DEF Gathered, Raised, servers
  <2>2. SessionInv'
    BY <2>1 DEF SessionInv, InOrder, OwnAndOlder, WorkerOf, Share, Remembered, Request
  <2> QED
    BY <2>1, <2>2
<1>5. ASSUME NEW v \in Servers, WakeUp(v) \/ Sleep(v) PROVE UNCHANGED <<workers, sessions, at, phase, round>>
  BY <1>5 DEF WakeUp, Sleep, servers
<1>6. ASSUME NEW s \in Batch, SendRequest(s)
      PROVE  SessionInv' /\ \A t \in Batch : at[t] # 0 => at'[t] = at[t]
  <2>1. SessionInv' /\ (at[s] # 0 => at'[s] = at[s])
    BY <1>6, SendRequestSticks
  <2>2. \A t \in Batch \ {s} : at'[t] = at[t]
    BY <1>6 DEF SendRequest, AgentInv, AgentTypeOK
  <2> QED
    BY <2>1, <2>2
<1>7. ASSUME NEW s \in Batch, Sample(s) \/ Fail(s), ~SendRequest(s)
      PROVE  UNCHANGED <<workers, sessions, at, phase, round>>
  BY <1>7 DEF Sample, ApplyTemplate, Answer, Reject, RunTools, Interact, Finish, Score, Fail, manager, servers
<1>8. CASE UNCHANGED vars
  BY <1>1, <1>8 DEF vars, manager, servers
<1>9. CASE Manager
  BY <1>1, <1>2, <1>3, <1>4, <1>5, <1>9 DEF Manager
<1>10. CASE \E s \in Batch : Sample(s) \/ Fail(s)
  BY <1>1, <1>6, <1>7, <1>10
<1> QED
  BY <1>8, <1>9, <1>10 DEF Next

\* Workers that start have no session.
LEMMA NoSessions == Init /\ Share <= CacheSize => SessionInv
<1> SUFFICES ASSUME Init, Share <= CacheSize PROVE SessionInv
  OBVIOUS
<1>1. <<>> \in Seq(Entry) /\ Len(<<>>) = 0 /\ CacheSize \in Nat
  BY EmptySeq, AgentLoopAssumption
<1>2. InOrder(<<>>)
  BY <1>1 DEF InOrder
<1>3. \A w \in 1 .. MaxWorkers : OwnAndOlder(<<>>, w)
  BY <1>1 DEF OwnAndOlder
<1> QED
  BY <1>2, <1>3 DEF Init, SessionInv, Remembered, ServerManager!Init

\* While a cache of sessions has room for the trajectories of its worker, all turns of a trajectory
\* go to one server: neither the other trajectories nor the entries of earlier batches, which may
\* have filled the cache, push it out (_choose_server).
THEOREM SessionsStick == Spec /\ Share <= CacheSize => OneServer
<1>1. AgentInv /\ SessionInv /\ [Next]_vars => (AgentInv /\ SessionInv)'
  BY AgentStep, SessionStep
<1>2. AgentInv /\ SessionInv /\ [Next]_vars
        => [\A s \in Batch : round' = round /\ at[s] # 0 /\ phase # "waking" => at'[s] = at[s]]_vars
  BY SessionStep
<1> QED
  BY AgentInitial, NoSessions, <1>1, <1>2, PTL DEF Spec, OneServer

-----------------------------------------------------------------------------
\* Requests.

\* What the model makes, what may stand behind a prompt, and all there is.
Made    == {"llm", "end"}
Speech  == Made \cup {"header", "tool", "user"}
Origins == Speech \cup {"prompt"}

\* Where a coroutine awaits its request's turns, and where they are over.
InTurns == {"create", "engine", "tools", "user"}
Closed  == {"logprobs", "done"}
Places  == InTurns \cup Closed \cup {"ready", "batch", "release", "failed", "refused", "padded"}

Finishes == {"none", "stop", "length", "tool_calls"}

Req ==
  [at : Places, prompt : 2 .. PromptLength + 1, tokens : Seq(Origins), loss : Seq(BOOLEAN),
   turns : Nat, userTurns : Nat, finish : Finishes, tools : {"none", "held", "released"}]

\* Which token may follow which.
Follows(first, second) ==
  /\ first = "header" => second = "llm"
  /\ second = "llm" => first \in {"header", "llm"}
  /\ second = "end" => first = "llm"

\* From the header that ends the prompt on, tokens follow one another, and the loss is on
\* what the model made.
Spoke(ids, loss, n) ==
  /\ Len(loss) = Len(ids)
  /\ n <= Len(ids) => ids[n] = "header"
  /\ \A i \in n + 1 .. Len(ids) : ids[i] \in Speech /\ loss[i] = (ids[i] \in Made)
  /\ \A i \in n .. Len(ids) - 1 : Follows(ids[i], ids[i + 1])

Talk(q) == Spoke(q.tokens, q.loss, q.prompt) /\ q.prompt <= Len(q.tokens)

Last(q) == q.tokens[Len(q.tokens)]

\* Requests that differ in their buffers only.
Same(p, q) ==
  /\ p.at = q.at /\ p.prompt = q.prompt /\ p.turns = q.turns /\ p.userTurns = q.userTurns
  /\ p.finish = q.finish /\ p.tools = q.tools

\* A conversation that is over ends with no header, unless the sequence is cut there.
Cleared(q) ==
  /\ Spoke(q.tokens, q.loss, q.prompt)
  /\ Len(q.tokens) <= Sglang!MaxSequence
  /\ q.prompt <= Len(q.tokens) /\ Last(q) = "header" => Len(q.tokens) = Sglang!MaxSequence

Within(q) == q.turns <= Sglang!TurnLimit /\ q.userTurns <= Sglang!UserLimit

\* What a coroutine relies on where it awaits.
Good(q) ==
  /\ q \in Req /\ Within(q)
  /\ q.at \in InTurns \cup {"release"} => Talk(q)
  /\ q.at = "create" => q.turns = 0
  /\ q.at = "engine" => Last(q) = "header" /\ q.turns < Sglang!TurnLimit /\ ~Sglang!Full(Len(q.tokens))
  /\ q.at \in {"tools", "user"} => Last(q) \in Made
  /\ q.at = "release" => q.finish \in {"stop", "length"}
  /\ q.at \in Closed => Cleared(q) /\ (options.tools => q.tools = "released")

\* Moves of a coroutine that goes on.
Active == InTurns \cup Closed \cup {"release"}

-----------------------------------------------------------------------------
\* Facts about the configuration.

\* There is room for a prompt and a turn.
LEMMA Lengths ==
  ASSUME options \in Options
  PROVE  /\ PromptLength \in Nat /\ ResponseLength \in Nat /\ ResponseLength > 0
         /\ Sglang!MaxSequence = PromptLength + ResponseLength
         /\ Sglang!ModelLen \in Nat /\ Sglang!ModelLen >= PromptLength + ResponseLength
         /\ Sglang!TurnLimit \in Nat /\ Sglang!TurnLimit > 0
         /\ Sglang!UserLimit \in Nat
         /\ \A f \in {"multiTurn", "tools", "interaction", "tokenIds", "logProbs", "validate"} :
              options[f] \in BOOLEAN
         /\ options.overSample \in 0 .. 100
<1>1. options.spare \in Nat
  BY RolloutAssumption
<1>2. Sglang!ModelLen = PromptLength + ResponseLength + options.spare
  BY DEF Sglang!ModelLen
<1>3. /\ PromptLength \in Nat /\ ResponseLength \in Nat /\ ResponseLength > 0
      /\ MaxUserTurns \in Nat /\ MaxAssistantTurns \in Nat /\ PromptLength >= 2
  BY AgentLoopAssumption, RolloutAssumption
<1>4. Sglang!ModelLen \in Nat /\ Sglang!ModelLen >= PromptLength + ResponseLength
  BY <1>1, <1>2, <1>3
<1>5. Sglang!ModelLen \div 3 \in Nat /\ Sglang!ModelLen \div 3 > 0
  BY <1>3, <1>4
<1>6. Sglang!MaxSequence = PromptLength + ResponseLength
  BY <1>3, <1>4 DEF Sglang!MaxSequence, Sglang!Cap
<1>7. Sglang!TurnLimit \in Nat /\ Sglang!TurnLimit > 0 /\ Sglang!UserLimit \in Nat
  BY <1>3, <1>5 DEF Sglang!TurnLimit, Sglang!UserLimit
<1>8. /\ \A f \in {"multiTurn", "tools", "interaction", "tokenIds", "logProbs", "validate"} :
           options[f] \in BOOLEAN
      /\ options.overSample \in 0 .. 100
  BY RolloutAssumption
<1> QED
  BY <1>3, <1>4, <1>6, <1>7, <1>8

-----------------------------------------------------------------------------
\* Facts about the buffers.

\* What Cut leaves is the front of a sequence.
LEMMA Front ==
  ASSUME NEW S, NEW q \in Seq(S), NEW n \in Nat
  PROVE  /\ Sglang!Cut(q, n) \in Seq(S)
         /\ Len(Sglang!Cut(q, n)) = IF Len(q) <= n THEN Len(q) ELSE n
         /\ \A i \in 1 .. Len(Sglang!Cut(q, n)) : i \in 1 .. Len(q) /\ Sglang!Cut(q, n)[i] = q[i]
<1> DEFINE k == IF Len(q) <= n THEN Len(q) ELSE n
<1>1. Len(q) \in Nat /\ k \in Nat /\ k <= Len(q)
  BY LenProperties
<1>2. \A i \in 1 .. k : q[i] \in S
  BY <1>1, ElementOfSeq
<1>3. /\ SubSeq(q, 1, k) \in Seq(S)
      /\ Len(SubSeq(q, 1, k)) = IF 1 <= k THEN k - 1 + 1 ELSE 0
      /\ \A i \in 1 .. k - 1 + 1 : SubSeq(q, 1, k)[i] = q[1 + i - 1]
  BY <1>1, <1>2, SubSeqProperties
<1>4. Sglang!Cut(q, n) = SubSeq(q, 1, k)
  BY DEF Sglang!Cut, Sglang!Cap
<1> QED
  BY <1>1, <1>3, <1>4

\* A joined sequence has the elements of both.
LEMMA Joined ==
  ASSUME NEW S, NEW q \in Seq(S), NEW new \in Seq(S)
  PROVE  /\ Len(q \o new) = Len(q) + Len(new)
         /\ \A i \in 1 .. Len(q) + Len(new) :
              (q \o new)[i] = IF i <= Len(q) THEN q[i] ELSE new[i - Len(q)]
<1>1. Len(q \o new) = Len(q) + Len(new)
  BY ConcatProperties
<1>2. \A i \in 1 .. Len(q) + Len(new) :
        (q \o new)[i] = IF i <= Len(q) THEN q[i] ELSE new[i - Len(q)]
  BY ConcatProperties, Zenon
<1> QED
  BY <1>1, <1>2, Zenon

\* A request with other buffers.
LEMMA Edited ==
  ASSUME NEW q \in Req, NEW ids \in Seq(Origins), NEW bits \in Seq(BOOLEAN)
  PROVE  LET p == [q EXCEPT !.tokens = ids, !.loss = bits] IN
         p \in Req /\ p.tokens = ids /\ p.loss = bits /\ Same(p, q)
<1> DEFINE told == [q EXCEPT !.tokens = ids]
<1>1. [q EXCEPT !.tokens = ids, !.loss = bits] = [told EXCEPT !.loss = bits]
  BY DEF Req
<1>2. told \in Req /\ told.tokens = ids /\ \A f \in DOMAIN q \ {"tokens"} : told[f] = q[f]
  BY DEF Req
<1> QED
  BY <1>1, <1>2 DEF Req, Same

\* _update_input_ids changes the buffers only.
LEMMA Added ==
  ASSUME NEW q \in Req, NEW new \in Seq(Speech), NEW trained \in BOOLEAN
  PROVE  LET p == Sglang!Add(q, new, trained) IN
         /\ p \in Req
         /\ p.tokens = q.tokens \o new /\ p.loss = q.loss \o Sglang!Repeat(trained, Len(new))
         /\ Same(p, q)
<1>1. q.tokens \in Seq(Origins) /\ q.loss \in Seq(BOOLEAN)
  BY DEF Req
<1>2. Len(new) \in Nat /\ Sglang!Repeat(trained, Len(new)) \in Seq(BOOLEAN)
  BY LenProperties, Repeated DEF Sglang!Repeat
<1>3. new \in Seq(Origins)
  <2>1. \A i \in 1 .. Len(new) : new[i] \in Origins
    BY ElementOfSeq DEF Origins
  <2> QED
    BY <1>2, <2>1, LenProperties, SeqDef
<1>4. q.tokens \o new \in Seq(Origins) /\ q.loss \o Sglang!Repeat(trained, Len(new)) \in Seq(BOOLEAN)
  BY <1>1, <1>2, <1>3, ConcatProperties
<1> DEFINE ids  == q.tokens \o new
           bits == q.loss \o Sglang!Repeat(trained, Len(new))
<1>5. Sglang!Add(q, new, trained) = [q EXCEPT !.tokens = ids, !.loss = bits]
  BY DEF Sglang!Add, Req
<1>6. ids \in Seq(Origins) /\ bits \in Seq(BOOLEAN)
  BY <1>4
<1> HIDE DEF ids, bits
<1>7. LET p == [q EXCEPT !.tokens = ids, !.loss = bits] IN
      p \in Req /\ p.tokens = ids /\ p.loss = bits /\ Same(p, q)
  BY <1>6, Edited
<1> QED
  BY <1>5, <1>7, Zenon DEF ids, bits

\* Tokens that follow on continue a conversation, if the loss is on them exactly where the model
\* made them.
LEMMA AddTalks ==
  ASSUME NEW q \in Req, Talk(q), NEW new \in Seq(Speech), NEW trained \in BOOLEAN, Len(new) > 0,
         \A i \in 1 .. Len(new) : trained = (new[i] \in Made),
         Follows(Last(q), new[1]),
         \A i \in 1 .. Len(new) - 1 : Follows(new[i], new[i + 1])
  PROVE  LET p == Sglang!Add(q, new, trained) IN
         /\ Talk(p)
         /\ Len(p.tokens) = Len(q.tokens) + Len(new) /\ Last(p) = new[Len(new)]
<1> DEFINE p     == Sglang!Add(q, new, trained)
           marks == Sglang!Repeat(trained, Len(new))
           l     == Len(q.tokens)
           k     == Len(new)
<1>1. q.tokens \in Seq(Origins) /\ q.loss \in Seq(BOOLEAN) /\ q.prompt \in Nat /\ q.prompt >= 2
  BY AgentLoopAssumption DEF Req
<1>2. l \in Nat /\ k \in Nat /\ Len(q.loss) = l /\ q.prompt <= l
  BY <1>1, LenProperties DEF Talk, Spoke
<1>3. marks \in Seq(BOOLEAN) /\ Len(marks) = k /\ \A i \in 1 .. k : marks[i] = trained
  BY <1>2, Repeated DEF Sglang!Repeat
<1> HIDE DEF marks, p
<1>4. new \in Seq(Origins)
  <2>1. \A i \in 1 .. Len(new) : new[i] \in Origins
    BY ElementOfSeq DEF Origins
  <2> QED
    BY <1>2, <2>1, LenProperties, SeqDef
<1>5. /\ Len(q.tokens \o new) = l + k
      /\ \A i \in 1 .. l + k : (q.tokens \o new)[i] = IF i <= l THEN q.tokens[i] ELSE new[i - l]
  BY <1>1, <1>4, ConcatProperties
<1>6. /\ Len(q.loss \o marks) = l + k
      /\ \A i \in 1 .. l + k : (q.loss \o marks)[i] = IF i <= l THEN q.loss[i] ELSE marks[i - l]
  <2>1. q.loss \in Seq(BOOLEAN) /\ marks \in Seq(BOOLEAN) /\ Len(q.loss) = l /\ Len(marks) = k
    BY <1>1, <1>2, <1>3
  <2> HIDE DEF l, k
  <2> QED
    BY <2>1, Joined, Zenon
<1>7. p.tokens = q.tokens \o new /\ p.loss = q.loss \o marks /\ p.prompt = q.prompt
  BY Added DEF Same, p, marks
<1>t. /\ Len(p.tokens) = l + k
      /\ \A i \in 1 .. l + k : p.tokens[i] = IF i <= l THEN q.tokens[i] ELSE new[i - l]
  BY <1>5, <1>7, Zenon
<1>m. /\ Len(p.loss) = l + k
      /\ \A i \in 1 .. l + k : p.loss[i] = IF i <= l THEN q.loss[i] ELSE marks[i - l]
  BY <1>6, <1>7, Zenon
<1> HIDE DEF l, k
<1>8. \A i \in p.prompt + 1 .. Len(p.tokens) :
        p.tokens[i] \in Speech /\ p.loss[i] = (p.tokens[i] \in Made)
  <2> TAKE i \in p.prompt + 1 .. Len(p.tokens)
  <2>1. i \in 1 .. l + k /\ i > q.prompt
    BY <1>1, <1>2, <1>t, <1>7
  <2>2. CASE i <= l
    <3>1. q.tokens[i] \in Speech /\ q.loss[i] = (q.tokens[i] \in Made)
      BY <1>1, <1>2, <2>1, <2>2 DEF Talk, Spoke, l
    <3> QED
      BY <1>t, <1>m, <1>7, <2>1, <2>2, <3>1
  <2>3. CASE ~(i <= l)
    <3>1. i - l \in 1 .. k
      BY <1>2, <2>1, <2>3
    <3>2. new[i - l] \in Speech /\ trained = (new[i - l] \in Made) /\ marks[i - l] = trained
      BY <1>3, <3>1, ElementOfSeq DEF k
    <3> QED
      BY <1>t, <1>m, <1>7, <2>1, <2>3, <3>2
  <2> QED
    BY <2>2, <2>3
<1>9. \A i \in p.prompt .. Len(p.tokens) - 1 : Follows(p.tokens[i], p.tokens[i + 1])
  <2> TAKE i \in p.prompt .. Len(p.tokens) - 1
  <2>1. i \in 1 .. l + k /\ i + 1 \in 1 .. l + k /\ i >= q.prompt
    BY <1>1, <1>2, <1>t, <1>7
  <2>2. CASE i < l
    <3>1. Follows(q.tokens[i], q.tokens[i + 1])
      BY <1>1, <1>2, <2>1, <2>2 DEF Talk, Spoke, l
    <3>2. p.tokens[i] = q.tokens[i]
      BY <1>2, <1>t, <2>1, <2>2
    <3>3. p.tokens[i + 1] = q.tokens[i + 1]
      BY <1>2, <1>t, <2>1, <2>2
    <3> QED
      BY <3>1, <3>2, <3>3
  <2>3. CASE i = l
    <3>1. p.tokens[i] = Last(q)
      BY <1>2, <1>t, <1>7, <2>1, <2>3 DEF Last, l
    <3>2. p.tokens[i + 1] = new[1]
      <4>1. ~(i + 1 <= l) /\ (i + 1) - l = 1
        BY <1>2, <2>3
      <4> QED
        BY <1>t, <1>7, <2>1, <4>1
    <3> QED
      BY <3>1, <3>2
  <2>4. CASE i > l
    <3>1. i - l \in 1 .. k - 1 /\ (i + 1) - l = (i - l) + 1 /\ ~(i <= l) /\ ~(i + 1 <= l)
      BY <1>2, <2>1, <2>4
    <3>2. Follows(new[i - l], new[(i - l) + 1])
      BY <3>1 DEF k
    <3>3. p.tokens[i] = new[i - l]
      BY <1>t, <2>1, <3>1
    <3>4. p.tokens[i + 1] = new[(i - l) + 1]
      BY <1>t, <2>1, <3>1
    <3> QED
      BY <3>2, <3>3, <3>4
  <2> QED
    BY <1>2, <2>1, <2>2, <2>3, <2>4
<1>10. p.tokens[p.prompt] = "header"
  BY <1>1, <1>2, <1>t, <1>7 DEF Talk, Spoke, l
<1>11. Len(p.tokens) = l + k /\ p.prompt <= Len(p.tokens) /\ Last(p) = new[k]
  <2>1. l + k \in 1 .. l + k /\ ~(l + k <= l) /\ (l + k) - l = k
    BY <1>2 DEF k
  <2>2. p.tokens[l + k] = new[k]
    BY <1>t, <2>1
  <2> QED
    BY <1>1, <1>2, <1>t, <1>7, <2>2 DEF Last
<1>12. Len(p.loss) = Len(p.tokens)
  BY <1>t, <1>m, <1>7
<1> QED
  BY <1>8, <1>9, <1>10, <1>11, <1>12 DEF Talk, Spoke, p, l, k

-----------------------------------------------------------------------------
\* Turns.

\* An answer's header is there, or is added.
LEMMA HeaderAdded ==
  ASSUME NEW q \in Req, Talk(q)
  PROVE  LET p == Sglang!WithHeader(q) IN
         p \in Req /\ Same(p, q) /\ Talk(p) /\ Last(p) = "header"
<1> DEFINE header == <<"header">>
<1>1. header \in Seq(Speech) /\ Len(header) = 1 /\ header[1] = "header"
  BY DEF Speech
<1>2. Len(q.tokens) \in Nat /\ q.prompt \in Nat /\ q.prompt >= 2 /\ q.prompt <= Len(q.tokens)
  BY LenProperties, AgentLoopAssumption DEF Req, Talk
<1>3. q.tokens # <<>>
  BY <1>2
<1> HIDE DEF header
<1>4. CASE Last(q) = "header"
  BY <1>3, <1>4 DEF Sglang!WithHeader, Sglang!EndsWithHeader, Last, Same
<1>5. CASE Last(q) # "header"
  <2> DEFINE no == FALSE
             p  == Sglang!Add(q, header, no)
  <2>1. Sglang!WithHeader(q) = p /\ no \in BOOLEAN /\ no = FALSE
    BY <1>5 DEF Sglang!WithHeader, Sglang!EndsWithHeader, Last, header
  <2> HIDE DEF no
  <2>2. p \in Req /\ Same(p, q)
    BY <1>1, <2>1, Added
  <2>3. Talk(p) /\ Last(p) = header[Len(header)]
    <3>1. \A i \in 1 .. Len(header) : no = (header[i] \in Made)
      BY <1>1, <2>1 DEF Made
    <3>2. Follows(Last(q), header[1])
      BY <1>1, <1>5 DEF Follows
    <3>3. \A i \in 1 .. Len(header) - 1 : Follows(header[i], header[i + 1])
      BY <1>1
    <3>4. no \in BOOLEAN /\ Len(header) > 0 /\ header \in Seq(Speech)
      BY <1>1, <2>1
    <3> QED
      BY <3>1, <3>2, <3>3, <3>4, AddTalks, Zenon
  <2> HIDE DEF p
  <2> QED
    BY <1>1, <2>1, <2>2, <2>3
<1> QED
  BY <1>4, <1>5

\* Tokens of one kind follow one another.
LEMMA RepeatTalks ==
  ASSUME NEW q \in Req, Talk(q), NEW n \in Nat, n > 0, NEW o \in Speech \ {"header", "end"},
         NEW trained \in BOOLEAN, trained = (o \in Made), Follows(Last(q), o)
  PROVE  LET p == Sglang!Add(q, Sglang!Repeat(o, n), trained) IN
         p \in Req /\ Same(p, q) /\ Talk(p) /\ Last(p) = o
<1> DEFINE new == Sglang!Repeat(o, n)
<1>1. new \in Seq(Speech) /\ Len(new) = n /\ \A i \in 1 .. n : new[i] = o
  BY Repeated DEF Sglang!Repeat
<1> HIDE DEF new
<1>2. \A i \in 1 .. Len(new) : trained = (new[i] \in Made)
  BY <1>1
<1>3. Follows(Last(q), new[1])
  BY <1>1
<1>4. \A i \in 1 .. Len(new) - 1 : Follows(new[i], new[i + 1])
  BY <1>1 DEF Follows, Speech
<1>5. Last(Sglang!Add(q, new, trained)) = new[Len(new)] /\ Talk(Sglang!Add(q, new, trained))
  BY <1>1, <1>2, <1>3, <1>4, AddTalks
<1>6. Sglang!Add(q, new, trained) \in Req /\ Same(Sglang!Add(q, new, trained), q)
  BY <1>1, Added
<1> QED
  BY <1>1, <1>5, <1>6 DEF new

\* An answer stands behind its header, as the ids of the engine or rendered with its end.
LEMMA AnswerTalks ==
  ASSUME NEW q \in Req, Talk(q), Last(q) = "header", NEW n \in Nat, n > 0, NEW rendered \in BOOLEAN
  PROVE  LET p == Sglang!AddAnswer(q, n, rendered) IN
         p \in Req /\ Same(p, q) /\ Talk(p) /\ Last(p) \in Made
<1> DEFINE yes == TRUE
<1>1. CASE ~rendered
  <2>1. Sglang!AddAnswer(q, n, rendered) = Sglang!Add(q, Sglang!Repeat("llm", n), yes)
    BY <1>1 DEF Sglang!AddAnswer
  <2>y. yes \in BOOLEAN /\ n > 0 /\ "llm" \in Made
    BY DEF Made
  <2> HIDE DEF yes
  <2>2. "llm" \in Speech \ {"header", "end"} /\ yes = ("llm" \in Made) /\ Follows(Last(q), "llm")
    BY DEF Speech, Made, Follows, yes
  <2>3. LET p == Sglang!Add(q, Sglang!Repeat("llm", n), yes) IN
        p \in Req /\ Same(p, q) /\ Talk(p) /\ Last(p) = "llm"
    BY <2>2, <2>y, RepeatTalks, Zenon
  <2> QED
    BY <2>1, <2>3, <2>y, Zenon
<1>2. CASE rendered
  <2> DEFINE said == Sglang!Repeat("llm", n)
             new  == Append(said, "end")
  <2>1. said \in Seq(Speech) /\ Len(said) = n /\ \A i \in 1 .. n : said[i] = "llm"
    BY Repeated DEF Sglang!Repeat, Speech, Made
  <2> HIDE DEF said
  <2>2. /\ new \in Seq(Speech) /\ Len(new) = n + 1 /\ new[n + 1] = "end"
        /\ \A i \in 1 .. n : new[i] = "llm"
    BY <2>1, AppendProperties DEF Speech, Made
  <2>3. Sglang!AddAnswer(q, n, rendered) = Sglang!Add(q, new, yes)
    BY <1>2 DEF Sglang!AddAnswer, said
  <2>y. yes \in BOOLEAN /\ Len(new) > 0
    BY <2>2
  <2>m. \A i \in 1 .. Len(new) : new[i] \in Made
    BY <2>2 DEF Made
  <2>4. \A i \in 1 .. Len(new) : yes = (new[i] \in Made)
    BY <2>m, Zenon
  <2> HIDE DEF new, yes
  <2>5. Follows(Last(q), new[1])
    BY <2>2 DEF Follows
  <2>6. \A i \in 1 .. Len(new) - 1 : Follows(new[i], new[i + 1])
    BY <2>2 DEF Follows
  <2>7. Last(Sglang!Add(q, new, yes)) = new[Len(new)] /\ Talk(Sglang!Add(q, new, yes))
    BY <2>2, <2>4, <2>5, <2>6, <2>y, AddTalks, Zenon
  <2>8. Sglang!Add(q, new, yes) \in Req /\ Same(Sglang!Add(q, new, yes), q)
    BY <2>2, <2>y, Added
  <2> QED
    BY <2>2, <2>3, <2>7, <2>8 DEF Made
<1> QED
  BY <1>1, <1>2

\* What a tool or a user says stands behind the model's turn; an empty answer is none.
LEMMA ObservationTalks ==
  ASSUME NEW q \in Req, Talk(q), Last(q) \in Made, NEW n \in Nat, n > 0, NEW o \in {"tool", "user"}
  PROVE  LET p == Sglang!Add(q, Sglang!Repeat(o, n), FALSE) IN p \in Req /\ Same(p, q) /\ Talk(p)
<1> DEFINE no == FALSE
<1>1. no \in BOOLEAN /\ no = FALSE
  OBVIOUS
<1> HIDE DEF no
<1>2. o \in Speech \ {"header", "end"} /\ no = (o \in Made) /\ Follows(Last(q), o)
  BY <1>1 DEF Speech, Made, Follows
<1>3. LET p == Sglang!Add(q, Sglang!Repeat(o, n), no) IN p \in Req /\ Same(p, q) /\ Talk(p)
  BY <1>1, <1>2, RepeatTalks
<1> QED
  BY <1>3 DEF no

\* A tool may answer nothing at all.
LEMMA ToolTalks ==
  ASSUME NEW q \in Req, Talk(q), Last(q) \in Made, NEW n \in Nat
  PROVE  LET p == Sglang!AddObservation(q, "tool", n) IN p \in Req /\ Same(p, q) /\ Talk(p)
<1>1. Sglang!WithoutHeader(q) = q
  BY DEF Sglang!WithoutHeader, Sglang!EndsWithHeader, Last, Made
<1>2. CASE n = 0
  BY <1>2 DEF Sglang!AddObservation, Same
<1>3. CASE n # 0
  <2>1. Sglang!AddObservation(q, "tool", n) = Sglang!Add(q, Sglang!Repeat("tool", n), FALSE)
    BY <1>1, <1>3, Zenon DEF Sglang!AddObservation
  <2>2. n > 0 /\ "tool" \in {"tool", "user"}
    BY <1>3
  <2>3. LET p == Sglang!Add(q, Sglang!Repeat("tool", n), FALSE) IN p \in Req /\ Same(p, q) /\ Talk(p)
    BY <2>2, ObservationTalks, Zenon
  <2> QED
    BY <2>1, <2>3, Zenon
<1> QED
  BY <1>2, <1>3

-----------------------------------------------------------------------------
\* The end of a conversation.

\* The front of a conversation is one.
LEMMA FrontSpoken ==
  ASSUME NEW ids \in Seq(Origins), NEW loss \in Seq(BOOLEAN), NEW n \in Nat, n > 0, NEW k \in Nat,
         Spoke(ids, loss, n)
  PROVE  LET i == Sglang!Cut(ids, k)  b == Sglang!Cut(loss, k) IN
         i \in Seq(Origins) /\ b \in Seq(BOOLEAN) /\ Spoke(i, b, n)
<1> DEFINE l     == Len(ids)
           front == Sglang!Cut(ids, k)
           marks == Sglang!Cut(loss, k)
           m     == Len(front)
<1>1. l \in Nat /\ Len(loss) = l
  BY LenProperties DEF Spoke
<1>2. front \in Seq(Origins) /\ m = (IF l <= k THEN l ELSE k)
  BY Front
<1>3. \A i \in 1 .. m : i \in 1 .. l /\ front[i] = ids[i]
  BY Front
<1>4. marks \in Seq(BOOLEAN) /\ Len(marks) = m
  BY <1>1, <1>2, Front
<1>5. ASSUME NEW i \in 1 .. m PROVE marks[i] = loss[i]
  <2>1. i \in 1 .. Len(marks)
    BY <1>4
  <2> HIDE DEF m
  <2> QED
    BY <2>1, Front
<1>6. m \in Nat /\ m <= l
  BY <1>1, <1>2
<1> HIDE DEF front, marks, l, m
<1>7. \A i \in n + 1 .. m : front[i] \in Speech /\ marks[i] = (front[i] \in Made)
  <2> TAKE i \in n + 1 .. m
  <2>1. i \in 1 .. m /\ i \in n + 1 .. l
    BY <1>1, <1>6
  <2>2. ids[i] \in Speech /\ loss[i] = (ids[i] \in Made)
    BY <2>1 DEF Spoke, l
  <2>3. front[i] = ids[i] /\ marks[i] = loss[i]
    BY <1>3, <1>5, <2>1
  <2> QED
    BY <2>2, <2>3, Zenon
<1>8. \A i \in n .. m - 1 : Follows(front[i], front[i + 1])
  <2> TAKE i \in n .. m - 1
  <2>1. i \in 1 .. m /\ i + 1 \in 1 .. m /\ i \in n .. l - 1
    BY <1>1, <1>6
  <2>2. Follows(ids[i], ids[i + 1])
    BY <2>1 DEF Spoke, l
  <2>3. front[i] = ids[i] /\ front[i + 1] = ids[i + 1]
    BY <1>3, <2>1
  <2> QED
    BY <2>2, <2>3
<1>9. n <= m => front[n] = "header"
  <2> SUFFICES ASSUME n <= m PROVE front[n] = "header"
    OBVIOUS
  <2>1. n \in 1 .. m /\ n <= l
    BY <1>1, <1>6
  <2>2. front[n] = ids[n]
    BY <1>3, <2>1
  <2> QED
    BY <2>1, <2>2 DEF Spoke, l
<1>10. Spoke(front, marks, n)
  BY <1>4, <1>7, <1>8, <1>9 DEF Spoke, m
<1> QED
  BY <1>2, <1>4, <1>10 DEF front, marks

\* A conversation without the header that nothing stands behind.
LEMMA HeaderGone ==
  ASSUME NEW q \in Req, Talk(q)
  PROVE  LET p == Sglang!WithoutHeader(q) IN
         /\ p \in Req /\ Same(p, q) /\ Spoke(p.tokens, p.loss, p.prompt)
         /\ p.prompt <= Len(p.tokens) => Last(p) # "header"
<1> DEFINE l == Len(q.tokens)
<1>1. /\ q.tokens \in Seq(Origins) /\ q.loss \in Seq(BOOLEAN) /\ q.prompt \in Nat /\ q.prompt >= 2
      /\ l \in Nat /\ Len(q.loss) = l /\ q.prompt <= l
  BY LenProperties, AgentLoopAssumption DEF Req, Talk, Spoke
<1>2. q.tokens # <<>>
  BY <1>1
<1>3. CASE Last(q) # "header"
  <2>1. Sglang!WithoutHeader(q) = q
    BY <1>3 DEF Sglang!WithoutHeader, Sglang!EndsWithHeader, Last
  <2> QED
    BY <1>3, <2>1 DEF Talk, Same
<1>4. CASE Last(q) = "header"
  <2> DEFINE ids  == Sglang!Cut(q.tokens, l - 1)
             bits == Sglang!Cut(q.loss, l - 1)
             p    == [q EXCEPT !.tokens = ids, !.loss = bits]
  <2>1. Sglang!WithoutHeader(q) = p
    BY <1>1, <1>2, <1>4 DEF Sglang!WithoutHeader, Sglang!EndsWithHeader, Last, Req
  <2>2. l - 1 \in Nat /\ ~(l <= l - 1)
    BY <1>1
  <2>3. Len(ids) = l - 1 /\ \A i \in 1 .. l - 1 : ids[i] = q.tokens[i]
    BY ONLY <1>1, <2>2, Front
  <2>4. ids \in Seq(Origins) /\ bits \in Seq(BOOLEAN) /\ Spoke(ids, bits, q.prompt)
    <3>1. Spoke(q.tokens, q.loss, q.prompt) /\ q.prompt > 0
      BY <1>1 DEF Talk
    <3> HIDE DEF l
    <3> QED
      BY <1>1, <2>2, <3>1, FrontSpoken
  <2> HIDE DEF ids, bits
  <2>5. p \in Req /\ p.tokens = ids /\ p.loss = bits /\ Same(p, q)
    BY <2>4, Edited
  <2> HIDE DEF p
  <2>6. p.prompt = q.prompt
    BY <2>5 DEF Same
  <2>7. q.prompt <= l - 1 => ids[l - 1] # "header"
    <3> SUFFICES ASSUME q.prompt <= l - 1 PROVE ids[l - 1] # "header"
      OBVIOUS
    <3>1. l - 1 \in 1 .. l - 1 /\ l - 1 \in q.prompt .. l - 1 /\ (l - 1) + 1 = l
      BY <1>1
    <3>2. Follows(q.tokens[l - 1], q.tokens[(l - 1) + 1])
      BY <3>1 DEF Talk, Spoke
    <3>3. q.tokens[l - 1] # "header"
      BY <1>4, <3>1, <3>2 DEF Follows, Last
    <3> QED
      BY <2>3, <3>1, <3>3
  <2> QED
    BY <2>1, <2>3, <2>4, <2>5, <2>6, <2>7 DEF Last
<1> QED
  BY <1>3, <1>4

\* finalize and truncate_output_ids leave a conversation that is over.
LEMMA FinalizedGood ==
  ASSUME options \in Options, NEW q \in Req, Talk(q), Within(q), q.finish \in {"stop", "length"},
         options.tools => q.tools = "released"
  PROVE  LET p == Sglang!Finalized(q) IN Good(p) /\ p.at \in Closed /\ p.prompt = q.prompt
<1> DEFINE w    == Sglang!WithoutHeader(q)
           m    == Sglang!MaxSequence
           ids  == Sglang!Cut(w.tokens, m)
           bits == Sglang!Cut(w.loss, m)
           told == [w EXCEPT !.tokens = ids, !.loss = bits]
           last == IF options.logProbs THEN "logprobs" ELSE "done"
           p    == Sglang!Finalized(q)
<1>1. /\ w \in Req /\ Same(w, q) /\ Spoke(w.tokens, w.loss, w.prompt)
      /\ w.prompt <= Len(w.tokens) => Last(w) # "header"
  BY HeaderGone
<1>2. p = [told EXCEPT !.at = last]
  BY DEF Sglang!Finalized, Req
<1> HIDE DEF w, p
<1>3. m \in Nat /\ w.prompt \in Nat /\ w.prompt > 0
  <2>1. m \in Nat
    BY Lengths
  <2>2. w.prompt \in 2 .. PromptLength + 1 /\ PromptLength \in Nat
    BY <1>1, AgentLoopAssumption DEF Req
  <2> QED
    BY <2>1, <2>2
<1>4. w.tokens \in Seq(Origins) /\ w.loss \in Seq(BOOLEAN)
  BY <1>1 DEF Req
<1> HIDE DEF m
<1>5. ids \in Seq(Origins) /\ bits \in Seq(BOOLEAN) /\ Spoke(ids, bits, w.prompt)
  BY <1>1, <1>3, <1>4, FrontSpoken
<1>6. /\ Len(ids) = (IF Len(w.tokens) <= m THEN Len(w.tokens) ELSE m)
      /\ \A i \in 1 .. Len(ids) : ids[i] = w.tokens[i]
  BY <1>3, <1>4, Front
<1>7. Len(w.tokens) \in Nat
  BY <1>4, LenProperties
<1> HIDE DEF ids, bits
<1>8. told \in Req /\ told.tokens = ids /\ told.loss = bits /\ Same(told, w)
  BY <1>1, <1>5, Edited
<1> HIDE DEF told
<1>9. last \in Closed /\ last \in Places
  BY DEF Closed, Places
<1> HIDE DEF last
<1>10. /\ p \in Req /\ p.at = last /\ p.tokens = ids /\ p.loss = bits /\ p.prompt = w.prompt
       /\ p.turns = q.turns /\ p.userTurns = q.userTurns /\ p.tools = q.tools /\ w.prompt = q.prompt
  BY <1>1, <1>2, <1>8, <1>9 DEF Req, Same
<1>11. Cleared(p)
  <2>1. p.prompt <= Len(p.tokens) /\ Last(p) = "header" => Len(p.tokens) = m
    <3> SUFFICES ASSUME p.prompt <= Len(p.tokens), Last(p) = "header", Len(p.tokens) # m PROVE FALSE
      OBVIOUS
    <3>1. Len(ids) = Len(w.tokens) /\ Len(ids) \in 1 .. Len(ids) /\ w.prompt <= Len(w.tokens)
      BY <1>3, <1>6, <1>7, <1>10
    <3>2. ids[Len(ids)] = w.tokens[Len(w.tokens)]
      BY <1>6, <3>1
    <3> QED
      BY <1>1, <1>10, <3>1, <3>2 DEF Last
  <2>2. Len(p.tokens) <= m
    BY <1>3, <1>6, <1>7, <1>10
  <2> QED
    BY <1>5, <1>10, <2>1, <2>2 DEF Cleared, m
<1>12. Good(p)
  BY <1>9, <1>10, <1>11 DEF Good, Within, Closed, InTurns
<1> QED
  BY <1>9, <1>10, <1>12 DEF p

-----------------------------------------------------------------------------
\* From one await to the next.

\* Out of the loop, a conversation has stopped or is as long as it may be.
LEMMA LeaveGood ==
  ASSUME options \in Options, NEW q \in Req, Talk(q), Within(q), NEW finish \in Finishes,
         Sglang!OutOfTurns(q) \/ finish \in {"stop", "length"}
  PROVE  LET p == Sglang!Leave(q, finish) IN Good(p) /\ p.at \in Active /\ p.prompt = q.prompt
<1> DEFINE f == Sglang!FinishOf(q, finish)
           w == [q EXCEPT !.finish = f]
<1>1. f \in {"stop", "length"} /\ f \in Finishes
  BY DEF Sglang!FinishOf, Finishes
<1> HIDE DEF f
<1>2. /\ w \in Req /\ w.finish = f /\ w.tokens = q.tokens /\ w.loss = q.loss /\ w.prompt = q.prompt
      /\ w.turns = q.turns /\ w.userTurns = q.userTurns
  BY <1>1 DEF Req
<1>3. Sglang!Leave(q, finish) = IF options.tools THEN [w EXCEPT !.at = "release"] ELSE Sglang!Finalized(w)
  BY DEF Sglang!Leave, f
<1> HIDE DEF w
<1>4. Talk(w) /\ Within(w)
  BY <1>2 DEF Talk, Within
<1>5. CASE options.tools
  <2> DEFINE p == [w EXCEPT !.at = "release"]
  <2>1. /\ p \in Req /\ p.at = "release" /\ p.finish = f /\ p.tokens = w.tokens /\ p.loss = w.loss
        /\ p.prompt = w.prompt /\ p.turns = w.turns /\ p.userTurns = w.userTurns
    BY <1>2 DEF Req, Places
  <2>2. Sglang!Leave(q, finish) = p
    BY <1>3, <1>5
  <2> HIDE DEF p
  <2>3. Talk(p) /\ Within(p)
    BY <1>4, <2>1 DEF Talk, Within
  <2>4. Good(p)
    BY <1>1, <2>1, <2>3 DEF Good, InTurns, Closed
  <2> QED
    BY <1>2, <2>1, <2>2, <2>4 DEF Active
<1>6. CASE ~options.tools
  <2>1. Sglang!Leave(q, finish) = Sglang!Finalized(w)
    BY <1>3, <1>6
  <2>2. LET p == Sglang!Finalized(w) IN Good(p) /\ p.at \in Closed /\ p.prompt = w.prompt
    BY <1>1, <1>2, <1>4, <1>6, FinalizedGood
  <2> QED
    BY <1>2, <2>1, <2>2 DEF Active
<1> QED
  BY <1>5, <1>6

\* A request for the engine has a header, turns left and room for an answer.
LEMMA AskGood ==
  ASSUME options \in Options, NEW q \in Req, Talk(q), Within(q), q.turns < Sglang!TurnLimit
  PROVE  LET p == Sglang!Ask(q) IN Good(p) /\ p.at \in Active /\ p.prompt = q.prompt
<1> DEFINE w == Sglang!WithHeader(q)
<1>1. w \in Req /\ Same(w, q) /\ Talk(w) /\ Last(w) = "header"
  BY HeaderAdded
<1>2. Sglang!Ask(q) = IF Sglang!Full(Len(w.tokens)) THEN Sglang!Leave(w, "length") ELSE [w EXCEPT !.at = "engine"]
  BY DEF Sglang!Ask
<1> HIDE DEF w
<1>3. Within(w) /\ w.turns < Sglang!TurnLimit /\ w.prompt = q.prompt
  BY <1>1 DEF Within, Same
<1>4. CASE Sglang!Full(Len(w.tokens))
  <2>1. "length" \in Finishes /\ "length" \in {"stop", "length"}
    BY DEF Finishes
  <2>2. LET p == Sglang!Leave(w, "length") IN Good(p) /\ p.at \in Active /\ p.prompt = w.prompt
    BY <1>1, <1>3, <2>1, LeaveGood
  <2>3. Sglang!Ask(q) = Sglang!Leave(w, "length")
    BY <1>2, <1>4
  <2> QED
    BY <1>3, <2>2, <2>3
<1>5. CASE ~Sglang!Full(Len(w.tokens))
  <2> DEFINE p == [w EXCEPT !.at = "engine"]
  <2>1. /\ p \in Req /\ p.at = "engine" /\ p.tokens = w.tokens /\ p.loss = w.loss
        /\ p.prompt = w.prompt /\ p.turns = w.turns /\ p.userTurns = w.userTurns
    BY <1>1 DEF Req, Places, InTurns
  <2>2. Sglang!Ask(q) = p
    BY <1>2, <1>5
  <2> HIDE DEF p
  <2>3. Talk(p) /\ Within(p) /\ Last(p) = "header"
    BY <1>1, <1>3, <2>1 DEF Talk, Within, Last
  <2>4. Good(p)
    BY <1>3, <1>5, <2>1, <2>3 DEF Good, Closed
  <2> QED
    BY <1>3, <2>1, <2>2, <2>4 DEF Active, InTurns
<1> QED
  BY <1>4, <1>5

\* After a tool's or a user's turn the limits are looked at again.
LEMMA ObservedGood ==
  ASSUME options \in Options, NEW q \in Req, Talk(q), Within(q)
  PROVE  LET p == Sglang!Observed(q) IN Good(p) /\ p.at \in Active /\ p.prompt = q.prompt
<1>1. "stop" \in Finishes /\ "stop" \in {"stop", "length"} /\ q.finish \in Finishes
  BY DEF Finishes, Req
<1>2. CASE Len(q.tokens) >= Sglang!ModelLen
  <2>1. Sglang!Observed(q) = Sglang!Leave(q, "stop")
    BY <1>2 DEF Sglang!Observed
  <2> QED
    BY <1>1, <2>1, LeaveGood
<1>3. CASE ~(Len(q.tokens) >= Sglang!ModelLen) /\ Sglang!OutOfTurns(q)
  <2>1. Sglang!Observed(q) = Sglang!Leave(q, q.finish)
    BY <1>3 DEF Sglang!Observed, Sglang!Resume
  <2> QED
    BY <1>1, <1>3, <2>1, LeaveGood
<1>4. CASE ~(Len(q.tokens) >= Sglang!ModelLen) /\ ~Sglang!OutOfTurns(q)
  <2>1. Sglang!Observed(q) = Sglang!Ask(q)
    BY <1>4 DEF Sglang!Observed, Sglang!Resume
  <2>2. q.turns < Sglang!TurnLimit
    <3>1. q.turns \in Nat /\ Sglang!TurnLimit \in Nat
      BY Lengths DEF Req
    <3> QED
      BY <1>4, <3>1 DEF Sglang!OutOfTurns
  <2> QED
    BY <2>1, <2>2, AskGood
<1> QED
  BY <1>2, <1>3, <1>4

\* What the model said is handed to its tools or to the user.
LEMMA HandedGood ==
  ASSUME NEW q \in Req, Talk(q), Within(q), Last(q) \in Made, NEW x \in {"tools", "user"}
  PROVE  LET p == [q EXCEPT !.at = x] IN Good(p) /\ p.at \in Active /\ p.prompt = q.prompt
<1> DEFINE p == [q EXCEPT !.at = x]
<1>1. /\ p \in Req /\ p.at = x /\ p.tokens = q.tokens /\ p.loss = q.loss
      /\ p.prompt = q.prompt /\ p.turns = q.turns /\ p.userTurns = q.userTurns
  BY DEF Req, Places, InTurns
<1> HIDE DEF p
<1>2. Talk(p) /\ Within(p) /\ Last(p) \in Made
  BY <1>1 DEF Talk, Within, Last
<1>3. Good(p)
  BY <1>1, <1>2 DEF Good, Closed
<1> QED
  BY <1>1, <1>3 DEF p, Active, InTurns

\* Whatever becomes of an answer, the limits and the mask hold.
LEMMA AnswersGood ==
  ASSUME options \in Options, NEW q, Good(q), q.at = "engine",
         NEW n \in 1 .. Sglang!Room(q), NEW p \in Sglang!Answers(q, n)
  PROVE  Good(p) /\ p.at \in Active /\ p.prompt = q.prompt
<1> DEFINE told  == [q EXCEPT !.turns = @ + 1]
           asked == [told EXCEPT !.finish = "tool_calls"]
           ids   == ~options.tokenIds
           plain == Sglang!AddAnswer(told, n, ids)
           calls == Sglang!AddAnswer(asked, n, TRUE)
<1>1. /\ q \in Req /\ Within(q) /\ Talk(q) /\ Last(q) = "header" /\ q.turns < Sglang!TurnLimit
      /\ q.turns \in Nat
  BY DEF Good, InTurns, Req
<1>2. /\ Sglang!TurnLimit \in Nat /\ Sglang!UserLimit \in Nat /\ Sglang!ModelLen \in Nat /\ ResponseLength \in Nat
      /\ ids \in BOOLEAN
  BY Lengths
<1>3. n \in Nat /\ n > 0
  <2>1. Len(q.tokens) \in Nat
    BY <1>1, LenProperties DEF Req
  <2>2. Sglang!Room(q) \in Int
    BY <1>2, <2>1 DEF Sglang!Room, Sglang!Cap
  <2> QED
    BY <2>2
<1>4. /\ told \in Req /\ told.turns = q.turns + 1 /\ told.userTurns = q.userTurns
      /\ told.tokens = q.tokens /\ told.loss = q.loss /\ told.prompt = q.prompt
  BY <1>1 DEF Req
<1> HIDE DEF told
<1>5. /\ asked \in Req /\ asked.turns = told.turns /\ asked.userTurns = told.userTurns
      /\ asked.tokens = told.tokens /\ asked.loss = told.loss /\ asked.prompt = told.prompt
      /\ asked.finish = "tool_calls"
  BY <1>4 DEF Req, Finishes
<1> HIDE DEF asked, ids
<1>6. Talk(told) /\ Last(told) = "header" /\ Within(told)
  BY <1>1, <1>2, <1>4 DEF Talk, Last, Within
<1>7. Talk(asked) /\ Last(asked) = "header" /\ Within(asked)
  BY <1>5, <1>6 DEF Talk, Last, Within
<1>8. plain \in Req /\ Same(plain, told) /\ Talk(plain) /\ Last(plain) \in Made
  BY <1>2, <1>3, <1>4, <1>6, AnswerTalks
<1>9. calls \in Req /\ Same(calls, asked) /\ Talk(calls) /\ Last(calls) \in Made
  <2> DEFINE yes == TRUE
  <2>1. yes \in BOOLEAN
    OBVIOUS
  <2> HIDE DEF yes
  <2>2. LET a == Sglang!AddAnswer(asked, n, yes) IN
        a \in Req /\ Same(a, asked) /\ Talk(a) /\ Last(a) \in Made
    BY <1>3, <1>5, <1>7, <2>1, AnswerTalks, Zenon
  <2> QED
    BY <2>2, Zenon DEF yes
<1>10. \/ p \in {Sglang!Leave(plain, "length"), Sglang!Leave(plain, "stop")}
       \/ Sglang!OutOfTurns(calls) /\ p = Sglang!Leave(calls, calls.finish)
       \/ p = [calls EXCEPT !.at = "tools"]
       \/ told.userTurns < Sglang!UserLimit /\ p = [plain EXCEPT !.at = "user", !.userTurns = @ + 1]
  BY DEF Sglang!Answers, told, asked, ids
<1> HIDE DEF plain, calls
<1>11. Within(plain) /\ Within(calls) /\ plain.prompt = q.prompt /\ calls.prompt = q.prompt
  BY <1>4, <1>5, <1>6, <1>7, <1>8, <1>9 DEF Within, Same
<1>12. CASE p \in {Sglang!Leave(plain, "length"), Sglang!Leave(plain, "stop")}
  <2>1. PICK f \in {"length", "stop"} : p = Sglang!Leave(plain, f)
    BY <1>12
  <2>2. f \in Finishes /\ f \in {"stop", "length"}
    BY DEF Finishes
  <2> QED
    BY <1>8, <1>11, <2>1, <2>2, LeaveGood
<1>13. CASE Sglang!OutOfTurns(calls) /\ p = Sglang!Leave(calls, calls.finish)
  <2>1. calls.finish \in Finishes
    BY <1>9 DEF Req
  <2> QED
    BY <1>9, <1>11, <1>13, <2>1, LeaveGood
<1>14. CASE p = [calls EXCEPT !.at = "tools"]
  BY <1>9, <1>11, <1>14, HandedGood
<1>15. CASE /\ told.userTurns < Sglang!UserLimit
            /\ p = [plain EXCEPT !.at = "user", !.userTurns = @ + 1]
  <2> DEFINE w == [plain EXCEPT !.userTurns = @ + 1]
  <2>1. /\ w \in Req /\ w.userTurns = plain.userTurns + 1 /\ w.turns = plain.turns
        /\ w.tokens = plain.tokens /\ w.loss = plain.loss /\ w.prompt = plain.prompt
    <3>1. plain \in Req /\ plain.userTurns \in Nat /\ plain.userTurns + 1 \in Nat
      BY <1>8 DEF Req
    <3>2. w \in Req
      BY <3>1 DEF Req
    <3> QED
      BY <3>1, <3>2, SMTT(30) DEF Req
  <2>2. p = [w EXCEPT !.at = "user"]
    BY <1>8, <1>15 DEF Req
  <2> HIDE DEF w
  <2>3. plain.userTurns = told.userTurns /\ told.userTurns \in Nat
    BY <1>4, <1>8 DEF Same, Req
  <2>4. Talk(w) /\ Within(w) /\ Last(w) \in Made
    BY <1>2, <1>8, <1>11, <1>15, <2>1, <2>3 DEF Talk, Within, Last
  <2> QED
    BY <1>11, <2>1, <2>2, <2>4, HandedGood
<1> QED
  BY <1>10, <1>12, <1>13, <1>14, <1>15

-----------------------------------------------------------------------------
\* The rows that come back.

\* PadTo fills a response up.
LEMMA PaddedTo ==
  ASSUME options \in Options, NEW S, NEW q \in Seq(S), NEW filler \in S, Len(q) <= ResponseLength
  PROVE  /\ Len(Sglang!PadTo(q, filler)) = ResponseLength
         /\ \A i \in 1 .. ResponseLength :
              Sglang!PadTo(q, filler)[i] = IF i <= Len(q) THEN q[i] ELSE filler
<1> DEFINE k    == ResponseLength - Len(q)
           fill == Sglang!Repeat(filler, k)
<1>1. Len(q) \in Nat /\ ResponseLength \in Nat /\ k \in Nat
  BY Lengths, LenProperties
<1> HIDE DEF k
<1>2. fill \in Seq(S) /\ Len(fill) = k /\ \A i \in 1 .. k : fill[i] = filler
  BY <1>1, Repeated DEF Sglang!Repeat
<1> HIDE DEF fill
<1>3. Sglang!PadTo(q, filler) = q \o fill
  BY DEF Sglang!PadTo, fill, k
<1>4. Len(q) + Len(fill) = ResponseLength
  BY <1>1, <1>2 DEF k
<1>5. /\ Len(q \o fill) = ResponseLength
      /\ \A i \in 1 .. ResponseLength : (q \o fill)[i] = IF i <= Len(q) THEN q[i] ELSE fill[i - Len(q)]
  BY <1>2, <1>4, Joined, Zenon
<1>6. ASSUME NEW i \in 1 .. ResponseLength, ~(i <= Len(q)) PROVE fill[i - Len(q)] = filler
  <2>1. i - Len(q) \in 1 .. k
    BY <1>1, <1>6 DEF k
  <2> QED
    BY <1>2, <2>1
<1>7. \A i \in 1 .. ResponseLength : (q \o fill)[i] = IF i <= Len(q) THEN q[i] ELSE filler
  BY <1>5, <1>6, Zenon
<1> QED
  BY <1>3, <1>5, <1>7, Zenon

\* What is behind the prompt, as far as the response goes.
LEMMA Behind ==
  ASSUME options \in Options, NEW S, NEW q \in Seq(S), NEW n \in Nat
  PROVE  LET b == Sglang!Cut(SubSeq(q, n + 1, Len(q)), ResponseLength)
             d == IF n <= Len(q) THEN Len(q) - n ELSE 0
         IN  /\ b \in Seq(S)
             /\ Len(b) = IF d <= ResponseLength THEN d ELSE ResponseLength
             /\ \A i \in 1 .. Len(b) : b[i] = q[n + i]
<1> DEFINE l == Len(q)
           d == IF n <= l THEN l - n ELSE 0
           c == SubSeq(q, n + 1, l)
           b == Sglang!Cut(c, ResponseLength)
<1>1. l \in Nat /\ d \in Nat /\ ResponseLength \in Nat
  BY Lengths, LenProperties
<1>2. n + 1 \in Int /\ \A i \in n + 1 .. l : q[i] \in S
  <2>1. \A i \in n + 1 .. l : i \in 1 .. Len(q)
    BY <1>1
  <2> QED
    BY <2>1, ElementOfSeq
<1>3. /\ c \in Seq(S)
      /\ Len(c) = IF n + 1 <= l THEN l - (n + 1) + 1 ELSE 0
      /\ \A i \in 1 .. l - (n + 1) + 1 : c[i] = q[(n + 1) + i - 1]
  BY <1>1, <1>2, SubSeqProperties
<1> HIDE DEF l, c
<1>4. Len(c) = d /\ \A i \in 1 .. d : c[i] = q[n + i]
  BY <1>1, <1>3
<1> HIDE DEF d
<1>5. /\ b \in Seq(S) /\ Len(b) = (IF d <= ResponseLength THEN d ELSE ResponseLength)
      /\ \A i \in 1 .. Len(b) : i \in 1 .. d /\ b[i] = c[i]
  BY <1>1, <1>3, <1>4, Front
<1> HIDE DEF b
<1>6. \A i \in 1 .. Len(b) : b[i] = q[n + i]
  BY <1>4, <1>5
<1> QED
  BY <1>5, <1>6 DEF b, c, d, l

\* An answered row is a conversation.
LEMMA AnsweredRow ==
  ASSUME options \in Options, NEW q \in Req, Cleared(q), q.at # "padded"
  PROVE  Conversation(Sglang!RowOf(q), Sglang!MaxSequence - q.prompt)
<1> DEFINE t == q.tokens
           n == q.prompt
           l == Len(t)
           R == ResponseLength
           M == Sglang!MaxSequence
           res == Sglang!Response(q)
           trn == Sglang!ResponseLoss(q)
           response == Sglang!PadTo(res, "pad")
           marks    == Sglang!PadTo(trn, FALSE)
           d == IF n <= l THEN l - n ELSE 0
           e == IF d <= R THEN d ELSE R
<1>1. /\ t \in Seq(Origins) /\ q.loss \in Seq(BOOLEAN) /\ n \in Nat /\ n >= 2
      /\ l \in Nat /\ Len(q.loss) = l
  BY LenProperties, AgentLoopAssumption DEF Req, Cleared, Spoke
<1>2. R \in Nat /\ R > 0 /\ M \in Nat /\ l <= M
  BY Lengths DEF Cleared
<1>3. d \in Nat /\ e \in Nat /\ e <= R /\ e <= d
  BY <1>1, <1>2
<1>fits. e > 0 => n <= l /\ n + e <= l
  BY <1>1, <1>2, <1>3
<1>4. res \in Seq(Origins) /\ Len(res) = e /\ \A i \in 1 .. e : res[i] = t[n + i]
  <2>1. options \in Options
    OBVIOUS
  <2> QED BY ONLY <1>1, <2>1, Behind DEF Sglang!Response
<1>5. trn \in Seq(BOOLEAN) /\ Len(trn) = e
  BY <1>1, Behind DEF Sglang!ResponseLoss
<1>6. \A i \in 1 .. Len(trn) : trn[i] = q.loss[n + i]
  BY <1>1, Behind DEF Sglang!ResponseLoss
<1> HIDE DEF res, trn
<1>7. Len(response) = R /\ \A i \in 1 .. R : response[i] = IF i <= e THEN t[n + i] ELSE "pad"
  <2>1. res \in Seq(Origins \cup {"pad"}) /\ "pad" \in Origins \cup {"pad"} /\ Len(res) <= R
    <3>1. \A i \in 1 .. e : res[i] \in Origins
      BY <1>4, ElementOfSeq
    <3> QED
      BY <1>2, <1>3, <1>4, <3>1, LenProperties, SeqDef
  <2>2. Len(response) = R /\ \A i \in 1 .. R : response[i] = IF i <= Len(res) THEN res[i] ELSE "pad"
    BY <2>1, PaddedTo
  <2> HIDE DEF response, t, n, d, e, R
  <2>3. \A i \in 1 .. R : i <= e => i \in 1 .. e
    BY <1>2, <1>3
  <2> QED
    BY <1>4, <2>2, <2>3
<1>8. Len(marks) = R /\ \A i \in 1 .. R : marks[i] = IF i <= e THEN q.loss[n + i] ELSE FALSE
  <2>1. trn \in Seq(BOOLEAN) /\ FALSE \in BOOLEAN /\ Len(trn) <= R
    BY <1>2, <1>3, <1>5
  <2>2. Len(marks) = R /\ \A i \in 1 .. R : marks[i] = IF i <= Len(trn) THEN trn[i] ELSE FALSE
    BY <2>1, PaddedTo, Zenon
  <2> HIDE DEF marks, t, n, d, e, R
  <2>3. \A i \in 1 .. R : i <= e => i \in 1 .. e
    BY <1>2, <1>3
  <2> QED
    BY <1>5, <1>6, <2>2, <2>3, Zenon
<1>9. Sglang!RowOf(q) = [response |-> response, mask |-> marks]
  BY DEF Sglang!RowOf, res, trn
<1> HIDE DEF response, marks
<1>10. \A i \in 1 .. e : t[n + i] \in Speech /\ q.loss[n + i] = (t[n + i] \in Made)
  <2> TAKE i \in 1 .. e
  <2>1. n + i \in n + 1 .. Len(q.tokens)
    <3> HIDE DEF n, d, e, R, M
    <3> QED
      BY <1>1, <1>3, <1>fits
  <2> QED
    BY <2>1 DEF Cleared, Spoke
<1>11. \A i \in 0 .. e - 1 : Follows(t[n + i], t[n + i + 1])
  <2> TAKE i \in 0 .. e - 1
  <2>1. n + i \in n .. Len(q.tokens) - 1
    <3> HIDE DEF n, d, e, R, M
    <3> QED
      BY <1>1, <1>3, <1>fits
  <2> QED
    BY <2>1 DEF Cleared, Spoke
<1>12. e > 0 => t[n] = "header"
  BY <1>1, <1>2, <1>3 DEF Cleared, Spoke
<1>13. e > 0 /\ e < R /\ t[n + e] = "header" => e = M - n
  <2> SUFFICES ASSUME e > 0, e < R, t[n + e] = "header" PROVE e = M - n
    OBVIOUS
  <2>1. n <= l /\ n + e = l
    BY <1>1, <1>2, <1>3
  <2> QED
    BY <1>1, <1>2, <2>1 DEF Cleared, Last
<1> HIDE DEF t, n, d, e, R, M, l
<1>14. \A i \in 1 .. R : response[i] # "prompt" /\ (marks[i] <=> response[i] \in {"llm", "end"})
  <2> TAKE i \in 1 .. R
  <2>1. CASE i <= e
    <3>1. i \in 1 .. e
      BY <1>2, <1>3, <2>1
    <3>2. response[i] = t[n + i] /\ marks[i] = q.loss[n + i]
      BY <1>7, <1>8, <2>1, Zenon
    <3>3. t[n + i] \in Speech /\ q.loss[n + i] = (t[n + i] \in Made)
      BY <1>10, <3>1
    <3>4. response[i] # "prompt"
      BY <3>2, <3>3 DEF Speech, Made
    <3>5. marks[i] = (response[i] \in Made)
      BY <3>2, <3>3, Zenon
    <3> QED
      BY <3>4, <3>5, Zenon DEF Made
  <2>2. CASE ~(i <= e)
    <3>1. response[i] = "pad"
      BY <1>7, <2>2
    <3>2. marks[i] = FALSE
      BY <1>8, <2>2, Zenon
    <3> QED
      BY <3>1, <3>2
  <2> QED
    BY <2>1, <2>2
<1>15. response[1] \in {"llm", "end", "pad"}
  <2>1. CASE e > 0
    <3>1. 0 \in 0 .. e - 1 /\ n + 0 = n /\ n + 0 + 1 = n + 1 /\ 1 \in 1 .. R /\ 1 <= e
      BY <1>1, <1>2, <1>3, <2>1
    <3>2. t[n + 1] = "llm"
      BY <1>11, <1>12, <2>1, <3>1 DEF Follows
    <3> QED
      BY <1>7, <3>1, <3>2
  <2>2. CASE ~(e > 0)
    <3>1. 1 \in 1 .. R /\ ~(1 <= e)
      BY <1>2, <1>3, <2>2
    <3> QED
      BY <1>7, <3>1
  <2> QED
    BY <2>1, <2>2
<1>16. ASSUME NEW i \in 1 .. R - 1
       PROVE  /\ response[i] = "header" => response[i + 1] = "llm" \/ i = M - n
              /\ response[i + 1] = "llm" => response[i] \in {"header", "llm"}
              /\ response[i + 1] = "end" => response[i] = "llm"
              /\ response[i] = "pad" => response[i + 1] = "pad"
  <2>1. i \in 1 .. R /\ i + 1 \in 1 .. R
    BY <1>2
  <2>2. CASE i < e
    <3>1. i <= e /\ i + 1 <= e /\ i \in 0 .. e - 1 /\ i \in 1 .. e /\ n + i + 1 = n + (i + 1)
      BY <1>1, <1>3, <2>1, <2>2
    <3>2. response[i] = t[n + i] /\ response[i + 1] = t[n + (i + 1)]
      BY <1>7, <2>1, <3>1
    <3>3. Follows(response[i], response[i + 1]) /\ response[i] \in Speech
      BY <1>10, <1>11, <3>1, <3>2
    <3> QED
      BY <3>3 DEF Follows, Speech, Made
  <2>3. CASE i = e
    <3>1. e > 0 /\ e < R /\ i <= e /\ ~(i + 1 <= e) /\ i \in 1 .. e
      BY <1>2, <1>3, <2>1, <2>3
    <3>2. response[i] = t[n + e] /\ response[i + 1] = "pad"
      BY <1>7, <2>1, <2>3, <3>1
    <3>3. t[n + e] = "header" => i = M - n
      BY <1>13, <2>3, <3>1
    <3> QED
      BY <3>2, <3>3
  <2>4. CASE i > e
    <3>1. ~(i <= e) /\ ~(i + 1 <= e)
      BY <1>3, <2>1, <2>4
    <3>2. response[i] = "pad" /\ response[i + 1] = "pad"
      BY <1>7, <2>1, <3>1
    <3> QED
      BY <3>2
  <2> QED
    BY <1>3, <2>1, <2>2, <2>3, <2>4
<1> DEFINE row == Sglang!RowOf(q)
<1>17. row.response = response /\ row.mask = marks
  BY <1>9
<1> HIDE DEF row
<1> QED
  BY <1>7, <1>8, <1>14, <1>15, <1>16, <1>17, Zenon DEF Conversation, row, M, n, R

\* A cancelled row is padding and trains nothing.
LEMMA PaddedRow ==
  ASSUME options \in Options, NEW q, q.at = "padded", NEW cut
  PROVE  Conversation(Sglang!RowOf(q), cut)
<1> DEFINE no == FALSE
           response == Sglang!Repeat("pad", ResponseLength)
           marks    == Sglang!Repeat(no, ResponseLength)
           row      == Sglang!RowOf(q)
<1>1. ResponseLength \in Nat /\ ResponseLength > 0 /\ no \in BOOLEAN
  BY Lengths
<1>2. row.response = response /\ row.mask = marks
  BY DEF Sglang!RowOf
<1> HIDE DEF no, row
<1>3. Len(response) = ResponseLength /\ \A i \in 1 .. ResponseLength : response[i] = "pad"
  BY <1>1, Repeated DEF Sglang!Repeat
<1>4. Len(marks) = ResponseLength /\ \A i \in 1 .. ResponseLength : marks[i] = no
  BY <1>1, Repeated DEF Sglang!Repeat
<1> HIDE DEF response, marks
<1>5. \A i \in 1 .. ResponseLength : response[i] # "prompt" /\ (marks[i] <=> response[i] \in {"llm", "end"})
  <2> TAKE i \in 1 .. ResponseLength
  <2>1. response[i] = "pad"
    BY <1>3
  <2>2. ~marks[i]
    BY <1>4, Zenon DEF no
  <2> QED
    BY <2>1, <2>2
<1>6. response[1] = "pad"
  BY <1>1, <1>3
<1>7. \A i \in 1 .. ResponseLength - 1 : response[i] = "pad" /\ response[i + 1] = "pad"
  BY <1>1, <1>3
<1>8. \A i \in 1 .. ResponseLength :
        (marks[i] <=> response[i] \in {"llm", "end"}) /\ response[i] # "prompt"
  BY <1>5, Zenon
<1>9. \A i \in 1 .. ResponseLength - 1 :
        LET first == response[i]  second == response[i + 1] IN
        /\ first = "header" => second = "llm" \/ i = cut
        /\ second = "llm" => first \in {"header", "llm"}
        /\ second = "end" => first = "llm"
        /\ first = "pad" => second = "pad"
  BY <1>7
<1>10. response[1] \in {"llm", "end", "pad"}
  BY <1>6
<1> QED
  BY <1>2, <1>3, <1>4, <1>8, <1>9, <1>10, Zenon DEF Conversation, row

\* An answer of the engine to a prompt alone is one turn of the model, up to its end.
LEMMA BatchRow ==
  ASSUME options \in Options, NEW k \in 1 .. ResponseLength, NEW ended \in BOOLEAN,
         ended \/ k = ResponseLength, NEW cut, NEW row,
         LET made     == Sglang!Repeat("llm", k - 1) \o <<IF ended THEN "end" ELSE "llm">>
             response == Sglang!PadTo(made, "pad")
         IN  row = [response |-> response, mask |-> Sglang!EosMask(response)]
  PROVE  Conversation(row, cut)
<1> DEFINE x        == IF ended THEN "end" ELSE "llm"
           told     == Sglang!Repeat("llm", k - 1)
           made     == told \o <<x>>
           response == Sglang!PadTo(made, "pad")
           marks    == Sglang!EosMask(response)
           S        == {"llm", "end", "pad"}
           R        == ResponseLength
<1>1. R \in Nat /\ R > 0 /\ k \in Nat /\ k > 0 /\ k - 1 \in Nat /\ k <= R
  BY Lengths
<1>2. told \in Seq(S) /\ Len(told) = k - 1 /\ \A i \in 1 .. k - 1 : told[i] = "llm"
  BY <1>1, Repeated DEF Sglang!Repeat
<1>3. <<x>> \in Seq(S) /\ Len(<<x>>) = 1 /\ <<x>>[1] = x
  OBVIOUS
<1>4. row.response = response /\ row.mask = marks
  OBVIOUS
<1> HIDE DEF told, x
<1>5. made \in Seq(S) /\ Len(made) = k /\ \A i \in 1 .. k : made[i] = IF i <= k - 1 THEN "llm" ELSE x
  <2> DEFINE one == <<x>>
  <2>1. one \in Seq(S) /\ Len(one) = 1 /\ one[1] = x
    BY <1>3
  <2> HIDE DEF one
  <2>2. (told \o one) \in Seq(S)
    BY <1>2, <2>1, ConcatProperties
  <2>3. /\ Len(told \o one) = Len(told) + Len(one)
        /\ \A i \in 1 .. Len(told) + Len(one) :
             (told \o one)[i] = IF i <= Len(told) THEN told[i] ELSE one[i - Len(told)]
    BY <1>2, <2>1, Joined, Zenon
  <2>4. Len(told) + Len(one) = k
    BY <1>1, <1>2, <2>1
  <2>5. ASSUME NEW i \in 1 .. k PROVE (told \o one)[i] = IF i <= k - 1 THEN "llm" ELSE x
    <3>1. CASE i <= k - 1
      <4>1. i \in 1 .. k - 1
        BY <1>1, <3>1
      <4> QED
        BY <1>2, <2>3, <2>4, <3>1, <4>1
    <3>2. CASE ~(i <= k - 1)
      <4>1. i - Len(told) = 1
        BY <1>1, <1>2, <3>2
      <4> QED
        BY <1>2, <2>1, <2>3, <2>4, <3>2, <4>1
    <3> QED
      BY <3>1, <3>2
  <2>6. made = told \o one
    BY DEF one
  <2> HIDE DEF made
  <2> QED
    BY <2>2, <2>3, <2>4, <2>5, <2>6
<1> HIDE DEF made
<1>6. /\ Len(response) = R
      /\ \A i \in 1 .. R : response[i] = IF i <= k THEN made[i] ELSE "pad"
  BY <1>1, <1>5, PaddedTo
<1>7. \A i \in 1 .. R : response[i] = IF i < k THEN "llm" ELSE IF i = k THEN x ELSE "pad"
  <2> TAKE i \in 1 .. R
  <2>1. CASE i <= k
    <3>1. i \in 1 .. k /\ (i <= k - 1 <=> i < k)
      BY <1>1, <2>1
    <3>2. response[i] = IF i <= k - 1 THEN "llm" ELSE x
      BY <1>5, <1>6, <2>1, <3>1
    <3> QED
      BY <1>1, <2>1, <3>1, <3>2
  <2>2. CASE ~(i <= k)
    BY <1>1, <1>6, <2>2
  <2> QED
    BY <2>1, <2>2
<1>8. x \in {"llm", "end"} /\ (k < R => x = "end")
  BY <1>1 DEF x
<1>9. marks = [i \in DOMAIN response |-> \A j \in 1 .. i - 1 : response[j] # "end"]
  BY DEF Sglang!EosMask
<1>10. DOMAIN response = 1 .. R
  <2>1. response \in Seq(S)
    <3>1. response = made \o Sglang!Repeat("pad", R - Len(made))
      BY DEF Sglang!PadTo
    <3>2. R - Len(made) \in Nat
      BY <1>1, <1>5
    <3>3. Sglang!Repeat("pad", R - Len(made)) \in Seq(S)
      BY <3>2, Repeated DEF Sglang!Repeat
    <3> QED
      BY <1>5, <3>1, <3>3, ConcatProperties
  <2> QED
    BY <1>6, <2>1, LenProperties
<1> HIDE DEF response, marks, R
<1>11. \A i \in 1 .. R : marks[i] = (\A j \in 1 .. i - 1 : response[j] # "end")
  BY <1>9, <1>10, Zenon
<1>12. Len(marks) = R
  <2>1. DOMAIN marks = 1 .. R
    BY <1>9, <1>10, Zenon
  <2>2. \A i \in 1 .. R : marks[i] \in BOOLEAN
    BY <1>11, Zenon
  <2>3. marks = [i \in 1 .. R |-> marks[i]]
    BY <1>9, <1>10
  <2>4. marks \in [1 .. R -> BOOLEAN]
    BY <2>2, <2>3, Zenon
  <2>5. marks \in Seq(BOOLEAN)
    BY <1>1, <2>4, SeqDef
  <2> QED
    BY <1>1, <2>1, <2>5, LenProperties
<1>13. ASSUME NEW i \in 1 .. R
       PROVE  (\A j \in 1 .. i - 1 : response[j] # "end") <=> response[i] \in {"llm", "end"}
  <2>1. CASE i <= k
    <3>1. \A j \in 1 .. i - 1 : j \in 1 .. R /\ j < k
      BY <1>1, <2>1
    <3>2. \A j \in 1 .. i - 1 : response[j] # "end"
      BY <1>7, <3>1
    <3>3. response[i] \in {"llm", "end"}
      BY <1>1, <1>7, <1>8, <2>1
    <3> QED
      BY <3>2, <3>3
  <2>2. CASE ~(i <= k)
    <3>1. k \in 1 .. i - 1 /\ k \in 1 .. R /\ k < R /\ ~(i < k) /\ i # k
      BY <1>1, <2>2
    <3>2. response[k] = "end" /\ response[i] = "pad"
      BY <1>1, <1>7, <1>8, <3>1
    <3> QED
      BY <3>1, <3>2
  <2> QED
    BY <2>1, <2>2
<1>14. \A i \in 1 .. R : (marks[i] <=> response[i] \in {"llm", "end"}) /\ response[i] # "prompt"
  <2> TAKE i \in 1 .. R
  <2>1. response[i] # "prompt"
    BY <1>1, <1>7, <1>8
  <2> QED
    BY <1>11, <1>13, <2>1, Zenon
<1>15. response[1] \in {"llm", "end", "pad"}
  BY <1>1, <1>7, <1>8
<1>16. ASSUME NEW i \in 1 .. R - 1
       PROVE  LET first == response[i]  second == response[i + 1] IN
              /\ first = "header" => second = "llm" \/ i = cut
              /\ second = "llm" => first \in {"header", "llm"}
              /\ second = "end" => first = "llm"
              /\ first = "pad" => second = "pad"
  <2>1. i \in 1 .. R /\ i + 1 \in 1 .. R
    BY <1>1
  <2>2. response[i] = IF i < k THEN "llm" ELSE IF i = k THEN x ELSE "pad"
    BY <1>7, <2>1
  <2>3. response[i + 1] = IF i + 1 < k THEN "llm" ELSE IF i + 1 = k THEN x ELSE "pad"
    BY <1>7, <2>1
  <2> QED
    BY <1>1, <1>8, <2>1, <2>2, <2>3
<1> QED
  BY <1>4, <1>6, <1>12, <1>14, <1>15, <1>16, Zenon DEF Conversation, R

-----------------------------------------------------------------------------
\* The inductive invariant of the synchronous rollout.

Stages == {"idle", "generating", "stopped", "returned", "raised"}

\* Without turns there are no coroutines: the requests are one call.
Held(q) ==
  IF options.multiTurn THEN Good(q)
  ELSE Within(q) /\ q.at \in {"ready", "batch", "failed", "padded", "done"}

\* Where the requests of a call are; a call that stops for another reason than a failure has
\* answers and padding only, and as many answers as were waited for.
Staged ==
  /\ stage = "idle" => \A r \in Batch : request[r].at = "ready"
  /\ stage = "generating" =>
       \A r \in Batch : request[r].at \in
         IF options.multiTurn THEN Active \cup {"failed"} ELSE {"batch", "failed"}
  /\ stage = "stopped" =>
       \/ Sglang!Broken # {}
       \/ /\ options.multiTurn /\ Cardinality(Sglang!Answered) >= Sglang!Needed
          /\ \A r \in Batch : request[r].at \in {"done", "padded"}
  /\ stage = "returned" =>
       \A r \in Batch :
         /\ request[r].at \in {"done", "padded"}
         /\ Conversation(rows[r], Sglang!MaxSequence - request[r].prompt)

SglangInv ==
  /\ options \in Options /\ stage \in Stages /\ request \in [Batch -> Req]
  /\ \A r \in Batch : Held(request[r]) /\ request[r].at # "refused"
  /\ Staged

\* What holds of a request goes on holding.
LEMMA HeldLater ==
  ASSUME NEW r \in Batch, NEW q, Held(q), options' = options, request'[r] = q
  PROVE  Held(request[r])'
BY DEF Held, Good, Within, Cleared, Sglang!MaxSequence, Sglang!ModelLen, Sglang!TurnLimit, Sglang!UserLimit,
       Sglang!Full

\* A new request is within the limits, and asks nobody.
LEMMA NewGood ==
  ASSUME options \in Options, NEW n \in 2 .. PromptLength + 1
  PROVE  LET q == Sglang!NewRequest(n) IN
         /\ q \in Req /\ Good(q) /\ Talk(q) /\ Within(q)
         /\ q.at = "ready" /\ q.turns = 0 /\ q.prompt = n
<1> DEFINE head == Sglang!Repeat("prompt", n - 1)
           ids  == Append(head, "header")
           no   == FALSE
           bits == Sglang!Repeat(no, n)
           q    == Sglang!NewRequest(n)
<1>1. n \in Nat /\ n - 1 \in Nat /\ no \in BOOLEAN
  BY AgentLoopAssumption
<1>2. head \in Seq(Origins) /\ Len(head) = n - 1
  BY <1>1, Repeated DEF Sglang!Repeat, Origins
<1> HIDE DEF head, no
<1>3. ids \in Seq(Origins) /\ Len(ids) = n /\ ids[n] = "header"
  BY <1>1, <1>2, AppendProperties DEF Origins, Speech
<1>4. bits \in Seq(BOOLEAN) /\ Len(bits) = n
  BY <1>1, Repeated DEF Sglang!Repeat
<1>5. q = [at |-> "ready", prompt |-> n, tokens |-> ids, loss |-> bits, turns |-> 0, userTurns |-> 0,
           finish |-> "none", tools |-> "none"]
  BY DEF Sglang!NewRequest, head, no
<1> HIDE DEF ids, bits, q
<1>6. /\ q \in Req /\ q.tokens = ids /\ q.loss = bits /\ q.prompt = n
      /\ q.at = "ready" /\ q.turns = 0 /\ q.userTurns = 0
  BY <1>3, <1>4, <1>5 DEF Req, Places, Finishes
<1>7. Talk(q)
  BY <1>1, <1>3, <1>4, <1>6 DEF Talk, Spoke
<1>8. Within(q)
  BY <1>6, Lengths DEF Within
<1>9. Good(q)
  BY <1>6, <1>8 DEF Good, InTurns, Closed
<1> QED
  BY <1>6, <1>7, <1>8, <1>9 DEF q

\* A worker that has not been called.
LEMMA SglangInitial == RolloutInit => SglangInv
<1> SUFFICES ASSUME RolloutInit PROVE SglangInv
  OBVIOUS
<1>1. options \in Options /\ stage = "idle" /\ request = [r \in Batch |-> Sglang!NewRequest(2)]
  BY DEF RolloutInit, Sglang!Init, Sglang!Requests, Batch
<1>2. 2 \in 2 .. PromptLength + 1
  BY AgentLoopAssumption
<1> DEFINE q == Sglang!NewRequest(2)
<1>3. q \in Req /\ Good(q) /\ Within(q) /\ q.at = "ready"
  BY <1>1, <1>2, NewGood
<1> HIDE DEF q
<1>4. Held(q)
  BY <1>3 DEF Held
<1>5. \A r \in Batch : request[r] = q
  BY <1>1 DEF q
<1>6. request \in [Batch -> Req]
  BY <1>1, <1>3 DEF q
<1>7. Staged
  BY <1>1, <1>3, <1>5 DEF Staged
<1> QED
  BY <1>1, <1>3, <1>4, <1>5, <1>6, <1>7 DEF SglangInv, Stages

\* A coroutine's move keeps the invariant if it does for its own request.
LEMMA MoveKeeps ==
  ASSUME SglangInv, Sglang!Running, NEW r \in Batch, NEW q \in Req, Sglang!Becomes(r, q), Held(q),
         q.at \in IF options.multiTurn THEN Active \cup {"failed"} ELSE {"batch", "failed"}
  PROVE  SglangInv'
<1>1. /\ options' = options /\ stage' = stage /\ stage = "generating"
      /\ request' = [request EXCEPT ![r] = q]
  BY DEF Sglang!Becomes, Sglang!Running
<1>2. request' \in [Batch -> Req]
  BY <1>1 DEF SglangInv
<1>3. \A t \in Batch : request'[t] = IF t = r THEN q ELSE request[t]
  BY <1>1 DEF SglangInv
<1>4. ASSUME NEW t \in Batch PROVE Held(request[t])'
  <2>1. Held(request'[t])
    BY <1>3 DEF SglangInv
  <2> QED
    BY <1>1, <2>1, HeldLater
<1>5. \A t \in Batch :
        request'[t].at \in IF options.multiTurn THEN Active \cup {"failed"} ELSE {"batch", "failed"}
  BY <1>1, <1>3 DEF SglangInv, Staged
<1>6. Staged'
  BY <1>1, <1>5 DEF Staged
<1>7. \A t \in Batch : request'[t].at # "refused"
  BY <1>5 DEF Active, InTurns, Closed
<1> QED
  BY <1>1, <1>2, <1>4, <1>6, <1>7 DEF SglangInv

\* A call starts its coroutines, or asks the engine for the whole batch.
LEMMA BeginKeeps ==
  ASSUME SglangInv, Sglang!Begin
  PROVE  SglangInv' /\ \A r \in Batch : request'[r].at # "failed"
<1> DEFINE start(n) == IF options.multiTurn THEN Sglang!Started(Sglang!NewRequest(n))
                                            ELSE [Sglang!NewRequest(n) EXCEPT !.at = "batch"]
<1>1. options \in Options /\ options' = options /\ stage' = "generating"
  BY DEF SglangInv, Sglang!Begin
<1>2. PICK lengths \in [Batch -> 2 .. PromptLength + 1] : request' = [r \in Batch |-> start(lengths[r])]
  <2>1. Sglang!PromptLengths \subseteq 2 .. PromptLength + 1
    BY AgentLoopAssumption DEF Sglang!PromptLengths
  <2>2. PICK lengths \in [Batch -> Sglang!PromptLengths] : request' = [r \in Batch |-> start(lengths[r])]
    BY DEF Sglang!Begin, Sglang!Requests, Batch
  <2>3. lengths \in [Batch -> 2 .. PromptLength + 1]
    BY <2>1, <2>2
  <2> QED
    BY <2>2, <2>3
<1>3. ASSUME NEW n \in 2 .. PromptLength + 1
      PROVE  /\ start(n) \in Req /\ Held(start(n))
             /\ start(n).at \in IF options.multiTurn THEN Active ELSE {"batch"}
  <2> DEFINE q == Sglang!NewRequest(n)
  <2>1. q \in Req /\ Talk(q) /\ Within(q) /\ q.turns = 0
    BY <1>1, NewGood
  <2> HIDE DEF q
  <2>2. q.turns < Sglang!TurnLimit
    BY <1>1, <2>1, Lengths
  <2>3. CASE options.multiTurn
    <3>1. start(n) = Sglang!Started(q)
      BY <2>3 DEF q
    <3>2. CASE options.tools \/ options.interaction
      <4> DEFINE p == [q EXCEPT !.at = "create"]
      <4>1. Sglang!Started(q) = p
        BY <3>2 DEF Sglang!Started
      <4>2. /\ p \in Req /\ p.at = "create" /\ p.tokens = q.tokens /\ p.loss = q.loss
            /\ p.prompt = q.prompt /\ p.turns = q.turns /\ p.userTurns = q.userTurns
        BY <2>1 DEF Req, Places, InTurns
      <4> HIDE DEF p
      <4>3. Talk(p) /\ Within(p)
        BY <2>1, <4>2 DEF Talk, Within
      <4>4. Good(p)
        BY <2>1, <4>2, <4>3 DEF Good, Closed
      <4> HIDE DEF start
      <4> QED
        BY <2>3, <3>1, <4>1, <4>2, <4>4 DEF Held, Active, InTurns
    <3>3. CASE ~(options.tools \/ options.interaction)
      <4>1. Sglang!Started(q) = Sglang!Ask(q)
        BY <3>3 DEF Sglang!Started
      <4>2. Good(Sglang!Ask(q)) /\ Sglang!Ask(q).at \in Active
        BY <1>1, <2>1, <2>2, AskGood
      <4>3. Sglang!Ask(q) \in Req
        BY <4>2 DEF Good
      <4> HIDE DEF start
      <4> QED
        BY <2>3, <3>1, <4>1, <4>2, <4>3 DEF Held
    <3> QED
      BY <3>2, <3>3
  <2>4. CASE ~options.multiTurn
    <3> DEFINE p == [q EXCEPT !.at = "batch"]
    <3>1. start(n) = p
      BY <2>4 DEF q
    <3>2. p \in Req /\ p.at = "batch" /\ p.turns = q.turns /\ p.userTurns = q.userTurns
      BY <2>1 DEF Req, Places
    <3> HIDE DEF p, start
    <3> QED
      BY <2>1, <2>4, <3>1, <3>2 DEF Held, Within
  <2> QED
    BY <2>3, <2>4
<1> HIDE DEF start
<1>4. request' \in [Batch -> Req]
  BY <1>2, <1>3
<1>5. ASSUME NEW r \in Batch
      PROVE  /\ Held(request[r])'
             /\ request'[r].at \in IF options.multiTurn THEN Active ELSE {"batch"}
  <2>1. request'[r] = start(lengths[r]) /\ lengths[r] \in 2 .. PromptLength + 1
    BY <1>2
  <2>2. Held(start(lengths[r]))
    BY <1>3, <2>1
  <2>3. Held(request[r])'
    BY <1>1, <2>1, <2>2, HeldLater
  <2> QED
    BY <1>3, <2>1, <2>3
<1>6. Staged'
  BY <1>1, <1>5 DEF Staged
<1>7. \A r \in Batch : request'[r].at \notin {"refused", "failed"}
  BY <1>5 DEF Active, InTurns, Closed
<1> QED
  BY <1>1, <1>4, <1>5, <1>6, <1>7 DEF SglangInv, Stages

\* Whatever a coroutine does between two awaits keeps the invariant.
LEMMA CoroutineKeeps ==
  ASSUME SglangInv, NEW r \in Batch, Sglang!Coroutine(r)
  PROVE  SglangInv'
<1> DEFINE q == request[r]
<1>1. options \in Options /\ q \in Req /\ Held(q)
  BY DEF SglangInv
<1>2. Sglang!Running /\ q.at \in InTurns \cup Closed \cup {"release"}
  BY DEF Sglang!Coroutine, Sglang!Created, Sglang!EngineAnswers, Sglang!ToolsAnswer, Sglang!UserAnswers,
         Sglang!Released, Sglang!LogProbsAnswer, InTurns, Closed
<1>3. options.multiTurn /\ Good(q)
  <2>1. q.at \in IF options.multiTurn THEN Active \cup {"failed"} ELSE {"batch", "failed"}
    BY <1>2 DEF SglangInv, Staged, Sglang!Running
  <2> QED
    BY <1>1, <1>2, <2>1 DEF Held, InTurns, Closed
<1>4. Within(q) /\ (q.at \in InTurns \cup {"release"} => Talk(q))
  BY <1>3 DEF Good
<1>5. ASSUME NEW p, Sglang!Moves(r, p), Good(p), p.at \in Active
      PROVE  SglangInv'
  <2>1. p \in Req
    BY <1>5 DEF Good
  <2> QED
    BY <1>2, <1>3, <1>5, <2>1, MoveKeeps DEF Held, Sglang!Moves
<1>6. CASE Sglang!Created(r)
  <2> DEFINE w == [q EXCEPT !.tools = IF options.tools THEN "held" ELSE @]
  <2>1. q.at = "create" /\ Sglang!Moves(r, Sglang!Ask(w))
    BY <1>6 DEF Sglang!Created
  <2>2. /\ w \in Req /\ w.tokens = q.tokens /\ w.loss = q.loss /\ w.prompt = q.prompt
        /\ w.turns = q.turns /\ w.userTurns = q.userTurns
    BY <1>1 DEF Req
  <2> HIDE DEF w
  <2>3. Talk(w) /\ Within(w)
    BY <1>4, <2>1, <2>2 DEF Talk, Within, InTurns
  <2>4. w.turns < Sglang!TurnLimit
    BY <1>1, <1>3, <2>1, <2>2, Lengths DEF Good
  <2> QED
    BY <1>1, <1>5, <2>1, <2>2, <2>3, <2>4, AskGood
<1>7. CASE Sglang!EngineAnswers(r)
  <2>1. q.at = "engine"
    BY <1>7 DEF Sglang!EngineAnswers
  <2>2. PICK n \in 1 .. Sglang!Room(q) : \E p \in Sglang!Answers(q, n) : Sglang!Moves(r, p)
    BY <1>7 DEF Sglang!EngineAnswers
  <2>3. PICK p \in Sglang!Answers(q, n) : Sglang!Moves(r, p)
    BY <2>2
  <2> QED
    BY <1>1, <1>3, <1>5, <2>1, <2>3, AnswersGood
<1>8. CASE Sglang!ToolsAnswer(r)
  <2>1. q.at = "tools"
    BY <1>8 DEF Sglang!ToolsAnswer
  <2>2. PICK n \in 0 .. MaxObservation : Sglang!Moves(r, Sglang!Observed(Sglang!AddObservation(q, "tool", n)))
    BY <1>8 DEF Sglang!ToolsAnswer
  <2> DEFINE w == Sglang!AddObservation(q, "tool", n)
  <2>3. Talk(q) /\ Last(q) \in Made /\ n \in Nat
    BY <1>3, <1>4, <2>1, AgentLoopAssumption DEF Good, InTurns
  <2>4. w \in Req /\ Same(w, q) /\ Talk(w)
    BY <1>1, <2>3, ToolTalks
  <2> HIDE DEF w
  <2>5. Within(w)
    BY <1>4, <2>4 DEF Within, Same
  <2>6. Sglang!Moves(r, Sglang!Observed(w))
    BY <2>2 DEF w
  <2> QED
    BY <1>1, <1>5, <2>4, <2>5, <2>6, ObservedGood
<1>9. CASE Sglang!UserAnswers(r)
  <2>1. q.at = "user"
    BY <1>9 DEF Sglang!UserAnswers
  <2>2. Talk(q) /\ Last(q) \in Made
    BY <1>3, <1>4, <2>1 DEF Good, InTurns
  <2>3. CASE Sglang!Moves(r, Sglang!Leave(q, "stop"))
    <3>1. "stop" \in Finishes /\ "stop" \in {"stop", "length"}
      BY DEF Finishes
    <3> QED
      BY <1>1, <1>4, <1>5, <2>2, <2>3, <3>1, LeaveGood
  <2>4. CASE \E n \in 1 .. MaxObservation :
               Sglang!Moves(r, Sglang!Observed(Sglang!Add(q, Sglang!Repeat("user", n), FALSE)))
    <3>1. PICK n \in 1 .. MaxObservation :
             Sglang!Moves(r, Sglang!Observed(Sglang!Add(q, Sglang!Repeat("user", n), FALSE)))
      BY <2>4
    <3> DEFINE w == Sglang!Add(q, Sglang!Repeat("user", n), FALSE)
    <3>2. n \in Nat /\ n > 0 /\ "user" \in {"tool", "user"}
      BY AgentLoopAssumption
    <3>3. w \in Req /\ Same(w, q) /\ Talk(w)
      BY <1>1, <2>2, <3>2, ObservationTalks, Zenon
    <3>4. Sglang!Moves(r, Sglang!Observed(w))
      BY <3>1
    <3> HIDE DEF w
    <3>5. Within(w)
      BY <1>4, <3>3 DEF Within, Same
    <3> QED
      BY <1>1, <1>5, <3>3, <3>4, <3>5, ObservedGood
  <2> QED
    BY <1>9, <2>3, <2>4, Zenon DEF Sglang!UserAnswers
<1>10. CASE Sglang!Released(r)
  <2> DEFINE w == [q EXCEPT !.tools = "released"]
  <2>1. q.at = "release" /\ Sglang!Moves(r, Sglang!Finalized(w))
    BY <1>10 DEF Sglang!Released
  <2>2. /\ w \in Req /\ w.tokens = q.tokens /\ w.loss = q.loss /\ w.prompt = q.prompt
        /\ w.turns = q.turns /\ w.userTurns = q.userTurns /\ w.finish = q.finish /\ w.tools = "released"
    BY <1>1 DEF Req
  <2> HIDE DEF w
  <2>3. Talk(w) /\ Within(w)
    BY <1>4, <2>1, <2>2 DEF Talk, Within
  <2>4. w.finish \in {"stop", "length"}
    BY <1>3, <2>1, <2>2 DEF Good
  <2>5. Good(Sglang!Finalized(w)) /\ Sglang!Finalized(w).at \in Closed
    BY <1>1, <2>2, <2>3, <2>4, FinalizedGood
  <2> QED
    BY <1>5, <2>1, <2>5 DEF Active
<1>11. CASE Sglang!LogProbsAnswer(r)
  <2> DEFINE p == [q EXCEPT !.at = "done"]
  <2>1. q.at = "logprobs" /\ Sglang!Moves(r, p)
    BY <1>11 DEF Sglang!LogProbsAnswer
  <2>2. /\ p \in Req /\ p.at = "done" /\ p.tokens = q.tokens /\ p.loss = q.loss /\ p.prompt = q.prompt
        /\ p.turns = q.turns /\ p.userTurns = q.userTurns /\ p.tools = q.tools
    BY <1>1 DEF Req, Places, Closed
  <2>3. Cleared(q) /\ (options.tools => q.tools = "released")
    BY <1>3, <2>1 DEF Good, Closed
  <2> HIDE DEF p
  <2>4. Cleared(p) /\ Within(p)
    BY <1>4, <2>2, <2>3 DEF Cleared, Within, Last
  <2>5. Good(p)
    BY <2>2, <2>3, <2>4 DEF Good, InTurns
  <2> QED
    BY <1>5, <2>1, <2>2, <2>5 DEF Active, Closed
<1> QED
  BY <1>6, <1>7, <1>8, <1>9, <1>10, <1>11 DEF Sglang!Coroutine

\* An exception ends its own coroutine.
LEMMA FailKeeps ==
  ASSUME SglangInv, NEW r \in Batch, Sglang!Fail(r)
  PROVE  SglangInv'
<1> DEFINE q == request[r]
           p == [q EXCEPT !.at = "failed"]
<1>1. q \in Req /\ Held(q) /\ Sglang!Running /\ Sglang!Becomes(r, p)
  BY DEF SglangInv, Sglang!Fail
<1>2. p \in Req /\ p.at = "failed" /\ p.turns = q.turns /\ p.userTurns = q.userTurns
  BY <1>1 DEF Req, Places
<1>3. Within(q)
  BY <1>1 DEF Held, Good
<1> HIDE DEF p
<1>4. Held(p)
  BY <1>2, <1>3 DEF Held, Good, Within, InTurns, Closed
<1> QED
  BY <1>1, <1>2, <1>4, MoveKeeps

\* At least one row is waited for, and no more than there are.
LEMMA NeededRange ==
  ASSUME options \in Options
  PROVE  /\ Sglang!Needed \in 1 .. BatchSize
         /\ ~options.multiTurn \/ options.validate => Sglang!Needed = BatchSize
<1>1. BatchSize \in Nat /\ BatchSize > 0 /\ options.overSample \in 0 .. 100
  BY AgentLoopAssumption, Lengths
<1> DEFINE o == options.overSample
           x == BatchSize * (100 - o)
<1>2. x \in Int /\ x <= BatchSize * 100
  <2>1. BatchSize * o \in Int /\ BatchSize * o >= 0
    BY <1>1
  <2>2. x = BatchSize * 100 - BatchSize * o
    BY <1>1
  <2> QED
    BY <1>1, <2>1, <2>2
<1>3. Sglang!Target = x \div 100
  BY DEF Sglang!Target
<1> HIDE DEF x
<1>4. Sglang!Target \in Int /\ Sglang!Target <= BatchSize
  BY <1>1, <1>2, <1>3
<1> QED
  BY <1>1, <1>4 DEF Sglang!Needed

\* A set of requests as large as the batch is the batch.
LEMMA WholeBatch ==
  ASSUME NEW T, T \subseteq Batch, Cardinality(T) >= BatchSize
  PROVE  T = Batch
<1>1. BatchSize \in Nat /\ BatchSize > 0
  BY AgentLoopAssumption
<1>2. IsFiniteSet(Batch) /\ Cardinality(Batch) = BatchSize
  BY <1>1, FS_Interval DEF Batch
<1>3. Cardinality(T) \in Nat /\ Cardinality(T) <= Cardinality(Batch)
  BY <1>2, FS_Subset, FS_CardinalityType
<1> QED
  BY <1>1, <1>2, <1>3, FS_Subset

\* SglangRollout counts as its users do.
LEMMA SameCount == \A S : Sglang!Cardinality(S) = Cardinality(S)
BY DEF Sglang!Cardinality, Cardinality

\* A call that stops pads what is unanswered, unless it waits for all.
LEMMA StopKeeps ==
  ASSUME SglangInv, Sglang!Stop
  PROVE  SglangInv'
<1>1. /\ options \in Options /\ options' = options /\ stage = "generating" /\ stage' = "stopped"
      /\ request \in [Batch -> Req]
  BY DEF SglangInv, Sglang!Stop, Sglang!Running
<1>2. request' = [r \in Batch |->
        IF ~options.validate /\ Sglang!Unanswered(r) THEN Sglang!Padding(request[r]) ELSE request[r]]
  BY DEF Sglang!Stop, Sglang!Requests, Batch
<1>3. ASSUME NEW q \in Req
      PROVE  LET p == Sglang!Padding(q) IN p \in Req /\ Held(p) /\ p.at = "padded"
  <2> DEFINE w    == Sglang!NewRequest(q.prompt)
             told == [w EXCEPT !.at = "padded"]
             p    == [told EXCEPT !.tools = q.tools]
  <2>1. q.prompt \in 2 .. PromptLength + 1 /\ q.tools \in {"none", "held", "released"}
    BY DEF Req
  <2>2. w \in Req /\ Within(w)
    BY <1>1, <2>1, NewGood
  <2>3. Sglang!Padding(q) = p
    BY <2>2 DEF Sglang!Padding, Req
  <2> HIDE DEF w
  <2>4. told \in Req /\ told.at = "padded" /\ told.turns = w.turns /\ told.userTurns = w.userTurns
    BY <2>2 DEF Req, Places
  <2> HIDE DEF told
  <2>5. p \in Req /\ p.at = "padded" /\ p.turns = w.turns /\ p.userTurns = w.userTurns
    BY <2>1, <2>4 DEF Req
  <2> HIDE DEF p
  <2>6. Held(p)
    BY <2>2, <2>5 DEF Held, Good, Within, InTurns, Closed
  <2> QED
    BY <2>3, <2>5, <2>6
<1>4. ASSUME NEW r \in Batch
      PROVE  /\ request'[r] \in Req /\ Held(request'[r])
             /\ \/ request'[r] = request[r]
                \/ request'[r].at = "padded" /\ Sglang!Unanswered(r) /\ ~options.validate
             /\ ~options.validate /\ Sglang!Unanswered(r) => request'[r].at = "padded"
  <2>1. request[r] \in Req /\ Held(request[r])
    BY DEF SglangInv
  <2>2. request'[r] =
          IF ~options.validate /\ Sglang!Unanswered(r) THEN Sglang!Padding(request[r]) ELSE request[r]
    BY <1>2
  <2> QED
    BY <1>3, <2>1, <2>2
<1>5. request' \in [Batch -> Req]
  BY <1>2, <1>4
<1>6. ASSUME NEW r \in Batch PROVE Held(request[r])' /\ request'[r].at # "refused"
  <2>1. Held(request'[r])
    BY <1>4
  <2>2. Held(request[r])'
    BY <1>1, <2>1, HeldLater
  <2>3. request'[r].at # "refused"
    BY <1>4 DEF SglangInv
  <2> QED
    BY <2>2, <2>3
<1>7. Sglang!Broken' = Sglang!Broken
  BY <1>4 DEF Sglang!Broken, Sglang!Unanswered, Sglang!Requests, Batch
<1>8. Sglang!Answered' = Sglang!Answered
  BY <1>4 DEF Sglang!Answered, Sglang!Unanswered, Sglang!Requests, Batch
<1>9. Sglang!Needed' = Sglang!Needed
  BY <1>1 DEF Sglang!Needed, Sglang!Target
<1>10. ASSUME Sglang!Broken = {}
       PROVE  /\ options.multiTurn /\ Cardinality(Sglang!Answered) >= Sglang!Needed
              /\ \A r \in Batch : request'[r].at \in {"done", "padded"}
  <2>1. Cardinality(Sglang!Answered) >= Sglang!Needed
    BY <1>10, SameCount DEF Sglang!Stop
  <2>2. Sglang!Answered \subseteq Batch
    BY DEF Sglang!Answered, Sglang!Requests, Batch
  <2>3. options.multiTurn
    <3> SUFFICES ASSUME ~options.multiTurn PROVE FALSE
      OBVIOUS
    <3>1. \A r \in Batch : request[r].at \in {"batch", "failed"}
      BY <1>1 DEF SglangInv, Staged
    <3>2. Sglang!Answered = Batch
      BY <1>1, <2>1, <2>2, NeededRange, WholeBatch
    <3>3. 1 \in Batch
      BY AgentLoopAssumption DEF Batch
    <3> QED
      BY <3>1, <3>2, <3>3 DEF Sglang!Answered
  <2>4. ASSUME NEW r \in Batch PROVE request'[r].at \in {"done", "padded"}
    <3>1. request[r].at \notin {"failed", "refused"}
      BY <1>10 DEF Sglang!Broken, Sglang!Requests, Batch
    <3>2. CASE options.validate
      <4>1. Sglang!Answered = Batch
        BY <1>1, <2>1, <2>2, <3>2, NeededRange, WholeBatch
      <4>2. request[r].at = "done"
        BY <4>1 DEF Sglang!Answered
      <4> QED
        BY <1>4, <4>2
    <3>3. CASE ~options.validate
      <4>1. request[r].at = "done" \/ Sglang!Unanswered(r)
        BY <3>1 DEF Sglang!Unanswered
      <4> QED
        BY <1>4, <3>3, <4>1
    <3> QED
      BY <3>2, <3>3
  <2> QED
    BY <2>1, <2>3, <2>4
<1>11. Staged'
  BY <1>1, <1>7, <1>8, <1>9, <1>10 DEF Staged
<1> QED
  BY <1>1, <1>5, <1>6, <1>11 DEF SglangInv, Stages

\* The rows of a call that stopped without an exception are conversations.
LEMMA CollectKeeps ==
  ASSUME SglangInv, Sglang!Collect
  PROVE  SglangInv'
<1>1. /\ options \in Options /\ options' = options /\ request' = request /\ stage = "stopped"
      /\ request \in [Batch -> Req]
  BY DEF SglangInv, Sglang!Collect
<1>2. ASSUME NEW r \in Batch PROVE Held(request[r])' /\ request'[r].at # "refused"
  BY <1>1, HeldLater DEF SglangInv
<1>3. CASE stage' = "raised"
  <2>1. Staged'
    BY <1>3 DEF Staged
  <2> QED
    BY <1>1, <1>2, <1>3, <2>1 DEF SglangInv, Stages
<1>4. CASE stage' # "raised"
  <2>1. stage' = "returned" /\ Sglang!Broken = {} /\ rows' = [r \in Batch |-> Sglang!RowOf(request[r])]
    BY <1>4 DEF Sglang!Collect, Sglang!Requests, Batch
  <2>2. options.multiTurn /\ \A r \in Batch : request[r].at \in {"done", "padded"}
    BY <1>1, <2>1 DEF SglangInv, Staged
  <2>3. ASSUME NEW r \in Batch PROVE Conversation(rows[r], Sglang!MaxSequence - request[r].prompt)'
    <3> DEFINE q == request[r]
    <3>1. q \in Req /\ Good(q) /\ q.at \in {"done", "padded"}
      BY <1>1, <2>2 DEF SglangInv, Held
    <3>2. Conversation(Sglang!RowOf(q), Sglang!MaxSequence - q.prompt)
      <4>1. CASE q.at = "done"
        <5>1. Cleared(q)
          BY <3>1, <4>1 DEF Good, Closed
        <5> QED
          BY <1>1, <3>1, <4>1, <5>1, AnsweredRow
      <4>2. CASE q.at = "padded"
        BY <1>1, <4>2, PaddedRow
      <4> QED
        BY <3>1, <4>1, <4>2
    <3>3. rows'[r] = Sglang!RowOf(q)
      BY <2>1
    <3>4. Sglang!MaxSequence' = Sglang!MaxSequence
      BY <1>1 DEF Sglang!MaxSequence, Sglang!ModelLen
    <3> QED
      BY <1>1, <3>2, <3>3, <3>4 DEF Conversation
  <2>4. Staged'
    BY <1>1, <2>1, <2>2, <2>3 DEF Staged
  <2> QED
    BY <1>1, <1>2, <2>1, <2>4 DEF SglangInv, Stages
<1> QED
  BY <1>3, <1>4

\* One call of the engine answers the whole batch.
LEMMA BatchKeeps ==
  ASSUME SglangInv, Sglang!EngineAnswersBatch
  PROVE  SglangInv' /\ ~options.multiTurn
<1>1. /\ options \in Options /\ options' = options /\ stage = "generating" /\ stage' = "returned"
      /\ request \in [Batch -> Req] /\ request' = [r \in Batch |-> [request[r] EXCEPT !.at = "done"]]
      /\ \A r \in Batch : request[r].at = "batch"
  BY DEF SglangInv, Sglang!EngineAnswersBatch, Sglang!Running, Sglang!Requests, Batch
<1>2. ~options.multiTurn
  <2>1. 1 \in Batch
    BY AgentLoopAssumption DEF Batch
  <2>2. request[1].at \in IF options.multiTurn THEN Active \cup {"failed"} ELSE {"batch", "failed"}
    BY <1>1, <2>1 DEF SglangInv, Staged
  <2> QED
    BY <1>1, <2>1, <2>2 DEF Active, InTurns, Closed
<1>3. ASSUME NEW r \in Batch
      PROVE  /\ request'[r] \in Req /\ request'[r].at = "done" /\ request'[r].prompt = request[r].prompt
             /\ Held(request'[r])
  <2>1. request[r] \in Req /\ Within(request[r])
    BY <1>2 DEF SglangInv, Held
  <2>2. request'[r] = [request[r] EXCEPT !.at = "done"]
    BY <1>1
  <2>3. /\ request'[r] \in Req /\ request'[r].at = "done" /\ request'[r].prompt = request[r].prompt
        /\ request'[r].turns = request[r].turns /\ request'[r].userTurns = request[r].userTurns
    BY <2>1, <2>2 DEF Req, Places, Closed
  <2> QED
    BY <1>2, <2>1, <2>3 DEF Held, Within
<1>4. request' \in [Batch -> Req]
  BY <1>1, <1>3
<1>5. ASSUME NEW r \in Batch PROVE Held(request[r])' /\ request'[r].at # "refused"
  BY <1>1, <1>3, HeldLater
<1>6. ASSUME NEW r \in Batch PROVE Conversation(rows[r], Sglang!MaxSequence - request[r].prompt)'
  <2>1. PICK length \in [Batch -> 1 .. ResponseLength], ended \in [Batch -> BOOLEAN] :
          /\ \A t \in Batch : ended[t] \/ length[t] = ResponseLength
          /\ rows' = [t \in Batch |->
               LET made     == Sglang!Repeat("llm", length[t] - 1) \o <<IF ended[t] THEN "end" ELSE "llm">>
                   response == Sglang!PadTo(made, "pad")
               IN  [response |-> response, mask |-> Sglang!EosMask(response)]]
    BY DEF Sglang!EngineAnswersBatch, Sglang!Requests, Batch
  <2> DEFINE k == length[r]
             e == ended[r]
  <2>2. k \in 1 .. ResponseLength /\ e \in BOOLEAN /\ (e \/ k = ResponseLength)
    BY <2>1
  <2>3. LET made     == Sglang!Repeat("llm", k - 1) \o <<IF e THEN "end" ELSE "llm">>
            response == Sglang!PadTo(made, "pad")
        IN  rows'[r] = [response |-> response, mask |-> Sglang!EosMask(response)]
    BY <2>1
  <2> HIDE DEF k, e
  <2>4. ASSUME NEW cut PROVE Conversation(rows'[r], cut)
    BY <1>1, <2>2, <2>3, BatchRow
  <2> QED
    BY <2>4 DEF Conversation
<1>7. Staged'
  BY <1>1, <1>3, <1>6 DEF Staged
<1> QED
  BY <1>1, <1>2, <1>4, <1>5, <1>7 DEF SglangInv, Stages

\* Every step of worker, coroutines and calls keeps the invariant.
LEMMA SglangStep == SglangInv /\ [Sglang!Next]_sglangVars => SglangInv'
<1> SUFFICES ASSUME SglangInv, [Sglang!Next]_sglangVars PROVE SglangInv'
  OBVIOUS
<1>1. CASE UNCHANGED sglangVars
  <2>1. options' = options /\ stage' = stage /\ request' = request /\ rows' = rows
    BY <1>1 DEF sglangVars
  <2>2. ASSUME NEW r \in Batch PROVE Held(request[r])' /\ request'[r].at # "refused"
    BY <2>1, HeldLater DEF SglangInv
  <2>3. Staged'
    BY <2>1 DEF SglangInv, Staged, Sglang!Broken, Sglang!Answered, Sglang!Needed, Sglang!Target,
                Sglang!MaxSequence, Sglang!ModelLen, Conversation
  <2> QED
    BY <2>1, <2>2, <2>3 DEF SglangInv
<1>2. CASE Sglang!Worker
  BY <1>2, BeginKeeps, StopKeeps, CollectKeeps, BatchKeeps DEF Sglang!Worker
<1>3. CASE \E r \in Sglang!Requests : Sglang!Coroutine(r) \/ Sglang!Fail(r)
  BY <1>3, CoroutineKeeps, FailKeeps DEF Sglang!Requests, Batch
<1> QED
  BY <1>1, <1>2, <1>3 DEF Sglang!Next

-----------------------------------------------------------------------------
\* What the engine works on.

\* It works on the rows that ask it, and on those that asked it when they failed or, in a
\* training batch, were cancelled; and on none where it has to be quiet.
BusyInv ==
  /\ busy \subseteq Batch
  /\ \A r \in busy :
       \/ Sglang!InEngine(request[r])
       \/ request[r].at = "failed"
       \/ request[r].at = "padded" /\ ~options.validate
  /\ stage = "returned" \/ (stage = "raised" /\ options.multiTurn /\ ~options.validate) => busy = {}

\* An engine that has not been asked.
LEMMA BusyInitial == RolloutInit => BusyInv
BY DEF RolloutInit, Sglang!Init, BusyInv

\* A step of one request.
LEMMA BusyOne ==
  ASSUME SglangInv, BusyInv, NEW r \in Batch, NEW q, Sglang!Running, Sglang!Becomes(r, q),
         busy' \subseteq busy \cup {r}, r \in busy' => Sglang!InEngine(q) \/ q.at = "failed"
  PROVE  BusyInv'
<1>1. /\ options' = options /\ stage' = "generating" /\ request' = [request EXCEPT ![r] = q]
      /\ request \in [Batch -> Req]
  BY DEF Sglang!Becomes, Sglang!Running, SglangInv
<1>2. \A t \in Batch : request'[t] = IF t = r THEN q ELSE request[t]
  BY <1>1
<1>3. busy' \subseteq Batch
  BY DEF BusyInv
<1>4. ASSUME NEW t \in busy'
      PROVE  \/ Sglang!InEngine(request'[t])
             \/ request'[t].at = "failed"
             \/ request'[t].at = "padded" /\ ~options.validate
  BY <1>2, <1>3, <1>4 DEF BusyInv
<1> QED
  BY <1>1, <1>3, <1>4 DEF BusyInv, Sglang!InEngine

\* Calls that stop cancel what is unanswered, and a training batch aborts it in the engine.
LEMMA BusyStep == SglangInv /\ BusyInv /\ [Sglang!Next]_sglangVars => BusyInv'
<1> SUFFICES ASSUME SglangInv, BusyInv, [Sglang!Next]_sglangVars PROVE BusyInv'
  OBVIOUS
<1>1. CASE UNCHANGED sglangVars
  BY <1>1 DEF sglangVars, BusyInv, Sglang!InEngine
<1>2. CASE Sglang!Begin
  BY <1>2 DEF Sglang!Begin, BusyInv, Sglang!Requests, Batch, Sglang!InEngine
<1>3. CASE Sglang!Stop
  <2>1. /\ stage' = "stopped" /\ options' = options /\ busy' = busy
        /\ request' = [r \in Batch |->
             IF ~options.validate /\ Sglang!Unanswered(r) THEN Sglang!Padding(request[r]) ELSE request[r]]
    BY <1>3 DEF Sglang!Stop, Sglang!Requests, Batch
  <2>2. ASSUME NEW r \in Batch
        PROVE  \/ request'[r] = request[r]
               \/ request'[r].at = "padded" /\ ~options.validate
    <3>1. request'[r] =
            IF ~options.validate /\ Sglang!Unanswered(r) THEN Sglang!Padding(request[r]) ELSE request[r]
      BY <2>1
    <3>2. Sglang!Padding(request[r]).at = "padded"
      BY DEF Sglang!Padding, Sglang!NewRequest
    <3> QED
      BY <3>1, <3>2
  <2> QED
    BY <2>1, <2>2 DEF BusyInv, Sglang!InEngine
<1>4. CASE Sglang!Collect
  <2>1. /\ stage = "stopped" /\ options' = options /\ request' = request
        /\ busy' = IF options.multiTurn /\ ~options.validate THEN {} ELSE busy
        /\ stage' = "raised" \/ (stage' = "returned" /\ Sglang!Broken = {})
    BY <1>4 DEF Sglang!Collect, Sglang!AfterAbort, Sglang!Aborts
  <2>2. ASSUME stage' = "returned" PROVE busy' = {}
    <3>1. options.multiTurn /\ \A r \in Batch : request[r].at \in {"done", "padded"}
      BY <2>1, <2>2 DEF SglangInv, Staged
    <3>2. options.validate => busy = {}
      BY <3>1 DEF BusyInv, Sglang!InEngine
    <3> QED
      BY <2>1, <3>1, <3>2
  <2> QED
    BY <2>1, <2>2 DEF BusyInv, Sglang!InEngine
<1>5. CASE Sglang!EngineAnswersBatch
  BY <1>5 DEF Sglang!EngineAnswersBatch, BusyInv
<1>6. ASSUME NEW r \in Batch, Sglang!Coroutine(r) PROVE BusyInv'
  <2>1. Sglang!Running /\ \E q : Sglang!Moves(r, q)
    BY <1>6 DEF Sglang!Coroutine, Sglang!Created, Sglang!EngineAnswers, Sglang!ToolsAnswer,
                Sglang!UserAnswers, Sglang!Released, Sglang!LogProbsAnswer
  <2>2. PICK q : Sglang!Moves(r, q)
    BY <2>1
  <2>3. /\ Sglang!Becomes(r, q) /\ busy' \subseteq busy \cup {r}
        /\ r \in busy' => Sglang!InEngine(q)
    BY <2>2 DEF Sglang!Moves
  <2> QED
    BY <2>1, <2>3, BusyOne
<1>7. ASSUME NEW r \in Batch, Sglang!Fail(r) PROVE BusyInv'
  <2> DEFINE q == [request[r] EXCEPT !.at = "failed"]
  <2>1. Sglang!Running /\ Sglang!Becomes(r, q) /\ busy' \subseteq busy \cup {r}
    BY <1>7 DEF Sglang!Fail
  <2>2. q.at = "failed"
    BY DEF SglangInv, Req
  <2> HIDE DEF q
  <2> QED
    BY <2>1, <2>2, BusyOne
<1> QED
  BY <1>1, <1>2, <1>3, <1>4, <1>5, <1>6, <1>7 DEF Sglang!Next, Sglang!Worker, Sglang!Requests, Batch

-----------------------------------------------------------------------------
\* The rollout in either mode.

RolloutInv == AgentInv /\ SglangInv /\ BusyInv /\ mode \in {"async", "sync"}

\* Each way keeps its own invariant and leaves the other way alone.
LEMMA RolloutStep == RolloutInv /\ [RolloutNext]_RolloutVars => RolloutInv'
<1> SUFFICES ASSUME RolloutInv, [RolloutNext]_RolloutVars PROVE RolloutInv'
  OBVIOUS
<1>1. [Next]_vars /\ [Sglang!Next]_sglangVars /\ mode' = mode
  BY DEF RolloutNext, RolloutVars, agentVars, Sglang!sglangVars
<1> QED
  BY <1>1, AgentStep, SglangStep, BusyStep DEF RolloutInv

\* RolloutInv holds in every state of both ways.
LEMMA RolloutInductive == RolloutSpec => []RolloutInv
<1>1. RolloutInit => RolloutInv
  BY AgentInitial, SglangInitial, BusyInitial DEF RolloutInit, RolloutInv
<1> QED
  BY <1>1, RolloutStep, PTL DEF RolloutSpec

\* Every row that comes back is aligned: an agent loop's output with its mask and its
\* log-probabilities, a row of SGLang as a conversation whose mask is on the model's turns.
THEOREM AllRowsAligned == RolloutSpec => []RowsAligned
<1>1. RolloutInv => RowsAligned
  BY AgentProperties DEF RolloutInv, RowsAligned, SglangInv, Staged
<1> QED
  BY <1>1, RolloutInductive, PTL

\* No trajectory takes more turns than it may, and no request leaves the engine without room for
\* an answer.
THEOREM AllLimitsHold == RolloutSpec => []LimitsHold
<1>1. ASSUME RolloutInv PROVE LimitsHold
  <2>1. CASE mode = "async"
    BY <1>1, <2>1, AgentProperties DEF RolloutInv, LimitsHold
  <2>2. CASE mode # "async"
    <3> SUFFICES ASSUME NEW r \in Batch
                 PROVE  LET q == request[r] IN
                        /\ q.turns <= Sglang!TurnLimit /\ q.userTurns <= Sglang!UserLimit
                        /\ q.at = "engine" =>
                             Sglang!Room(q) > 0 /\ Len(q.tokens) + Sglang!Room(q) < Sglang!ModelLen
      BY <2>2 DEF LimitsHold
    <3> DEFINE q == request[r]
    <3>1. options \in Options /\ q \in Req /\ Held(q)
      BY <1>1 DEF RolloutInv, SglangInv
    <3>2. Within(q)
      BY <3>1 DEF Held, Good
    <3>3. q.at = "engine" => ~Sglang!Full(Len(q.tokens))
      BY <3>1 DEF Held, Good
    <3>4. Len(q.tokens) \in Nat /\ Sglang!ModelLen \in Nat /\ ResponseLength \in Nat /\ ResponseLength > 0
      BY <3>1, Lengths, LenProperties DEF Req
    <3> HIDE DEF q
    <3> DEFINE k == Len(q.tokens)
    <3>5. q.at = "engine" => Sglang!Room(q) > 0 /\ k + Sglang!Room(q) < Sglang!ModelLen
      <4>1. q.at = "engine" => ~(k + 1 >= Sglang!ModelLen)
        BY <3>3 DEF Sglang!Full
      <4>2. Sglang!Room(q) = IF ResponseLength <= Sglang!ModelLen - k - 1
                             THEN ResponseLength ELSE Sglang!ModelLen - k - 1
        BY DEF Sglang!Room, Sglang!Cap
      <4> HIDE DEF k
      <4>3. k \in Nat
        BY <3>4 DEF k
      <4> QED
        BY <3>4, <4>1, <4>2, <4>3
    <3> QED
      BY <3>2, <3>5 DEF Within, q
  <2> QED
    BY <2>1, <2>2
<1> QED
  BY <1>1, RolloutInductive, PTL

\* No server sleeps under a request, and SGLang's engine works on nothing once a batch has come
\* back or a training batch has raised; the answered rows of a batch that comes back have
\* released their tools.
THEOREM AllEnginesQuiet == RolloutSpec => []EnginesQuiet
<1>1. ASSUME RolloutInv PROVE EnginesQuiet
  <2>1. CASE mode = "async"
    BY <1>1, <2>1, AgentProperties DEF RolloutInv, EnginesQuiet
  <2>2. CASE mode # "async"
    <3>1. stage = "returned" \/ (stage = "raised" /\ options.multiTurn /\ ~options.validate) => busy = {}
      BY <1>1 DEF RolloutInv, BusyInv
    <3>2. (stage = "returned" /\ options.multiTurn /\ options.tools) =>
            \A r \in Batch : request[r].at = "padded"
                             \/ (request[r].at = "done" /\ request[r].tools = "released")
      BY <1>1 DEF RolloutInv, SglangInv, Staged, Held, Good, Closed
    <3> QED
      BY <2>2, <3>1, <3>2 DEF EnginesQuiet
  <2> QED
    BY <2>1, <2>2
<1> QED
  BY <1>1, RolloutInductive, PTL

\* Whichever way is taken, all turns of a trajectory of the agent loops go to one server while a
\* worker's cache has room for its share of the batch.
THEOREM AllSessionsStick == RolloutSpec /\ Share <= CacheSize => OneServer
<1>1. RolloutInit => Init
  BY DEF RolloutInit
<1>2. [RolloutNext]_RolloutVars => [Next]_vars
  BY DEF RolloutNext, RolloutVars, agentVars
<1>3. RolloutSpec => Spec
  BY <1>1, <1>2, PTL DEF RolloutSpec, Spec
<1> QED
  BY <1>3, SessionsStick, PTL

-----------------------------------------------------------------------------
\* Both ways are the rollout that the trainer asks for.

\* What the contract needs besides: batches are counted from one, and only an exception is raised.
ServiceInv ==
  /\ RolloutInv
  /\ round \in Nat \ {0}
  /\ phase = "raised" => SomeFailed

\* RolloutService counts as its users do.
LEMMA CountedAlike == \A S : Contract!Cardinality(S) = Cardinality(S)
BY DEF Contract!Cardinality, Cardinality

\* A step of a sample leaves the call as it is, or breaks it.
LEMMA SampleMoves ==
  ASSUME NEW s \in Batch, Sample(s) \/ Fail(s)
  PROVE  /\ UNCHANGED manager
         /\ state[s] \notin {"none", "done", "failed"}
         /\ \E next : state' = [state EXCEPT ![s] = next]
<1>1. CASE ApplyTemplate(s) \/ SendRequest(s) \/ Reject(s) \/ RunTools(s) \/ Interact(s)
  BY <1>1, Zenon DEF ApplyTemplate, SendRequest, Reject, RunTools, Interact, Goto
<1>2. CASE Answer(s) \/ Finish(s) \/ Score(s) \/ Fail(s)
  BY <1>2 DEF Answer, Finish, Score, Fail, Goto
<1> QED
  BY <1>1, <1>2 DEF Sample

\* ServiceInv is inductive.
LEMMA ServiceStep == ServiceInv /\ [RolloutNext]_RolloutVars => ServiceInv'
<1> SUFFICES ASSUME ServiceInv, [RolloutNext]_RolloutVars PROVE ServiceInv'
  OBVIOUS
<1>1. RolloutInv'
  BY RolloutStep DEF ServiceInv
<1>2. CASE UNCHANGED vars
  BY <1>1, <1>2 DEF ServiceInv, SomeFailed, vars, manager
<1>3. CASE Manager
  BY <1>1, <1>3 DEF ServiceInv, SomeFailed, Manager, Dispatch, Gathered, Raised, NextBatch, WakeUp, Sleep
<1>4. ASSUME NEW s \in Batch, Sample(s) \/ Fail(s) PROVE ServiceInv'
  <2>1. PICK next : state' = [state EXCEPT ![s] = next]
    BY <1>4, SampleMoves
  <2>2. round' = round /\ phase' = phase /\ state[s] # "failed"
    BY <1>4, SampleMoves DEF manager
  <2>3. state \in [Batch -> States]
    BY DEF ServiceInv, RolloutInv, AgentInv, AgentTypeOK
  <2>4. SomeFailed => SomeFailed'
    BY <2>1, <2>2, <2>3 DEF SomeFailed
  <2> QED
    BY <1>1, <2>2, <2>4 DEF ServiceInv
<1> QED
  BY <1>2, <1>3, <1>4 DEF RolloutNext, RolloutVars, agentVars, Next

\* An asynchronous rollout is one.
LEMMA AsyncRefines ==
  ASSUME ServiceInv, mode = "async", mode' = mode, Next
  PROVE  [Contract!Next]_Contract!serviceVars
<1> USE DEF Status, AnsweredRows, HasBroken
<1>1. /\ state \in [Batch -> States] /\ phase \in Phases /\ BatchSize \in Nat /\ BatchSize > 0
      /\ phase \notin {"gather", "raised"} => \A s \in Batch : state[s] \in {"none", "done"}
  BY AgentLoopAssumption DEF ServiceInv, RolloutInv, AgentInv, AgentTypeOK, PhaseInv
<1>2. ASSUME NEW s \in Batch, Sample(s) \/ Fail(s) PROVE [Contract!Next]_Contract!serviceVars
  <2>1. PICK next : state' = [state EXCEPT ![s] = next]
    BY <1>2, SampleMoves
  <2>2. round' = round /\ phase' = phase /\ state[s] \notin {"none", "done", "failed"}
    BY <1>2, SampleMoves DEF manager
  <2>3. SomeFailed => SomeFailed'
    BY <1>1, <2>1, <2>2 DEF SomeFailed
  <2>4. phase \in {"gather", "raised"}
    BY <1>1, <2>2
  <2>5. CASE SomeFailed' <=> SomeFailed
    <3>1. UNCHANGED Contract!serviceVars
      BY <2>2, <2>4, <2>5 DEF Contract!serviceVars
    <3> QED
      BY <3>1
  <2>6. CASE ~SomeFailed /\ SomeFailed'
    <3>1. phase = "gather"
      BY <2>4, <2>6 DEF ServiceInv
    <3>2. Contract!Break
      BY <2>2, <2>6, <3>1 DEF Contract!Break
    <3> QED
      BY <3>2 DEF Contract!Next
  <2> QED
    BY <2>3, <2>5, <2>6
<1>3. CASE \E v \in Servers : WakeUp(v) \/ Sleep(v)
  <2>1. state' = state /\ phase' = phase /\ round' = round
    BY <1>3 DEF WakeUp, Sleep
  <2>2. UNCHANGED Contract!serviceVars
    BY <2>1 DEF Contract!serviceVars, SomeFailed
  <2> QED
    BY <2>2
<1>4. CASE Dispatch
  <2>1. phase = "waking" /\ phase' = "gather" /\ \A s \in Batch : state'[s] = "pending"
    BY <1>4 DEF Dispatch
  <2>2. ~SomeFailed /\ ~SomeFailed'
    BY <1>1, <2>1 DEF SomeFailed
  <2>3. Status \in {"idle", "returned"} /\ Status' = "generating" /\ AnsweredRows' = {}
    BY <2>1
  <2>4. HasBroken = FALSE /\ HasBroken' = FALSE
    <3>1. ~HasBroken
      BY <2>2, Zenon
    <3>2. ~HasBroken'
      BY <2>2, Zenon
    <3>3. HasBroken \in BOOLEAN /\ HasBroken' \in BOOLEAN
      BY Zenon DEF SomeFailed
    <3> HIDE DEF HasBroken
    <3> QED
      BY <3>1, <3>2, <3>3
  <2> HIDE DEF Status, AnsweredRows, HasBroken
  <2>5. Contract!Ask
    BY <2>3, <2>4 DEF Contract!Ask
  <2> QED
    BY <2>5 DEF Contract!Next
<1>5. CASE Gathered
  <2>1. phase = "gather" /\ phase' = "sleeping" /\ state' = state /\ \A s \in Batch : state[s] = "done"
    BY <1>5 DEF Gathered, AllDone
  <2>2. AnsweredRows' = Batch
    BY <2>1
  <2>3. Cardinality(Batch) = BatchSize
    BY <1>1, FS_Interval DEF Batch
  <2>4. Contract!Cardinality(Batch) >= BatchSize
    BY <1>1, <2>3, CountedAlike
  <2>5. Contract!Answer
    BY <2>1, <2>2, <2>4 DEF Contract!Answer, SomeFailed
  <2> QED
    BY <2>5 DEF Contract!Next
<1>6. CASE Raised
  <2>1. phase = "gather" /\ phase' = "raised" /\ state' = state /\ SomeFailed
    BY <1>6 DEF Raised
  <2>2. Contract!Raise
    BY <2>1 DEF Contract!Raise, SomeFailed
  <2> QED
    BY <2>2 DEF Contract!Next
<1>7. CASE NextBatch
  <2>1. /\ phase = "sleeping" /\ phase' \in {"waking", "finished"} /\ state' = state
        /\ phase' = "waking" => round' = round + 1 /\ round + 1 # 1
    BY <1>7 DEF NextBatch, ServiceInv
  <2>2. UNCHANGED Contract!serviceVars
    BY <2>1 DEF Contract!serviceVars, SomeFailed
  <2> QED
    BY <2>2
<1> QED
  BY <1>2, <1>3, <1>4, <1>5, <1>6, <1>7 DEF Next, Manager

\* HasBroken is a truth value, also as a term.
LEMMA Broke == HasBroken \in BOOLEAN /\ HasBroken' \in BOOLEAN
<1>1. HasBroken \in BOOLEAN
  BY Zenon DEF HasBroken, SomeFailed, Sglang!Uncollectable
<1>2. HasBroken' \in BOOLEAN
  BY Zenon DEF HasBroken, SomeFailed, Sglang!Uncollectable
<1> QED
  BY <1>1, <1>2

\* While a call goes on, exceptions do not go away.
LEMMA GoesOn ==
  ASSUME mode = "sync", mode' = mode, options' = options, stage = "generating",
         stage' \in {"generating", "stopped"}, HasBroken => HasBroken'
  PROVE  [Contract!Next]_Contract!serviceVars
<1>1. Status = "generating" /\ Status' = "generating" /\ AnsweredRows = {} /\ AnsweredRows' = {}
  BY DEF Status, AnsweredRows
<1>2. /\ (IF mode = "async" THEN BatchSize ELSE Sglang!Needed) = Sglang!Needed
      /\ (IF mode = "async" THEN BatchSize ELSE Sglang!Needed)' = Sglang!Needed
  BY DEF Sglang!Needed, Sglang!Target
<1> HIDE DEF Status, AnsweredRows, HasBroken
<1>3. CASE HasBroken' = HasBroken
  BY <1>1, <1>2, <1>3 DEF Contract!serviceVars
<1>4. CASE HasBroken' # HasBroken
  <2>1. HasBroken = FALSE /\ HasBroken' = TRUE
    BY <1>4, Broke
  <2>2. Contract!Break
    BY <1>1, <1>2, <2>1 DEF Contract!Break
  <2> QED
    BY <2>2 DEF Contract!Next
<1> QED
  BY <1>3, <1>4

\* A synchronous rollout is one.
LEMMA SyncRefines ==
  ASSUME ServiceInv, mode = "sync", mode' = mode, Sglang!Next
  PROVE  [Contract!Next]_Contract!serviceVars
<1> DEFINE needed == IF mode = "async" THEN BatchSize ELSE Sglang!Needed
<1>1. /\ SglangInv /\ options \in Options /\ request \in [Batch -> Req]
      /\ Sglang!Requests = Batch /\ BatchSize \in Nat /\ BatchSize > 0
  BY AgentLoopAssumption DEF ServiceInv, RolloutInv, SglangInv, Sglang!Requests, Batch
<1>2. /\ HasBroken <=> Sglang!Failures # {} \/ Sglang!Uncollectable
      /\ HasBroken' <=> Sglang!Failures' # {} \/ Sglang!Uncollectable'
  BY Zenon DEF HasBroken
<1>3. options' = options => needed = Sglang!Needed /\ needed' = Sglang!Needed
  BY DEF Sglang!Needed, Sglang!Target
<1>4. stage = "generating" => ~Sglang!Uncollectable
  BY <1>1 DEF SglangInv, Staged, Sglang!Uncollectable, Active, InTurns, Closed
<1>5. CASE Sglang!Begin
  <2>1. stage = "idle" /\ stage' = "generating" /\ options' = options
    BY <1>5 DEF Sglang!Begin
  <2>2. SglangInv' /\ \A r \in Batch : request'[r].at # "failed"
    BY <1>1, <1>5, BeginKeeps
  <2>3. \A r \in Batch : request[r].at = "ready" /\ request'[r].at \notin {"failed", "padded"}
    BY <1>1, <2>1, <2>2 DEF SglangInv, Staged, Active, InTurns, Closed
  <2>4. ~HasBroken /\ ~HasBroken'
    BY <1>1, <1>2, <2>3 DEF Sglang!Failures, Sglang!Uncollectable, Sglang!Requests, Batch
  <2>5. HasBroken = FALSE /\ HasBroken' = FALSE
    BY <2>4, Broke
  <2>6. Status = "idle" /\ Status' = "generating" /\ AnsweredRows' = {}
    BY <2>1 DEF Status, AnsweredRows
  <2>7. Contract!Ask
    BY <1>3, <2>1, <2>5, <2>6 DEF Contract!Ask
  <2> QED
    BY <2>7 DEF Contract!Next
<1>6. ASSUME NEW r \in Batch, Sglang!Coroutine(r) \/ Sglang!Fail(r)
      PROVE  [Contract!Next]_Contract!serviceVars
  <2>1. stage = "generating" /\ request[r].at # "failed" /\ \E q : Sglang!Becomes(r, q)
    <3>1. CASE Sglang!Coroutine(r)
      BY <3>1 DEF Sglang!Coroutine, Sglang!Running, Sglang!Created, Sglang!EngineAnswers, Sglang!ToolsAnswer,
                  Sglang!UserAnswers, Sglang!Released, Sglang!LogProbsAnswer, Sglang!Moves
    <3>2. CASE Sglang!Fail(r)
      BY <3>2 DEF Sglang!Fail, Sglang!Running
    <3> QED
      BY <1>6, <3>1, <3>2
  <2>2. PICK q : Sglang!Becomes(r, q)
    BY <2>1
  <2>3. options' = options /\ stage' = stage /\ request' = [request EXCEPT ![r] = q]
    BY <2>2 DEF Sglang!Becomes
  <2>4. Sglang!Failures # {} => Sglang!Failures' # {}
    BY <1>1, <2>1, <2>3 DEF Sglang!Failures
  <2>5. HasBroken => HasBroken'
    BY <1>2, <1>4, <2>1, <2>4
  <2> QED
    BY <2>1, <2>3, <2>5, GoesOn
<1>7. CASE Sglang!Stop
  <2>1. stage = "generating" /\ stage' = "stopped" /\ options' = options
    BY <1>7 DEF Sglang!Stop, Sglang!Running
  <2>2. \A r \in Batch : request[r].at = "failed" => request'[r] = request[r]
    BY <1>1, <1>7 DEF Sglang!Stop, Sglang!Unanswered
  <2>3. Sglang!Failures # {} => Sglang!Failures' # {}
    BY <1>1, <2>2 DEF Sglang!Failures, Sglang!Requests, Batch
  <2>4. HasBroken => HasBroken'
    BY <1>2, <1>4, <2>1, <2>3
  <2> QED
    BY <2>1, <2>4, GoesOn
<1>8. CASE Sglang!Collect
  <2>1. stage = "stopped" /\ options' = options /\ request' = request
    BY <1>8 DEF Sglang!Collect
  <2>2. Sglang!Broken = Sglang!Failures
    BY <1>1 DEF SglangInv, Sglang!Broken, Sglang!Failures
  <2>3. HasBroken' = HasBroken
    BY <2>1 DEF HasBroken, Sglang!Failures, Sglang!Uncollectable
  <2>4. Status = "generating"
    BY <2>1 DEF Status
  <2>5. CASE stage' = "raised"
    <3>1. HasBroken
      BY <1>2, <1>8, <2>2, <2>5 DEF Sglang!Collect
    <3>2. HasBroken = TRUE
      BY <3>1, Broke
    <3>3. Status' = "raised" /\ AnsweredRows' = {}
      BY <2>5 DEF Status, AnsweredRows
    <3>4. Contract!Raise
      BY <1>3, <2>1, <2>3, <2>4, <3>2, <3>3 DEF Contract!Raise
    <3> QED
      BY <3>4 DEF Contract!Next
  <2>6. CASE stage' # "raised"
    <3>1. stage' = "returned" /\ Sglang!Broken = {}
      BY <1>8, <2>6 DEF Sglang!Collect
    <3>2. Status' = "returned" /\ AnsweredRows' = Sglang!Answered
      BY <2>1, <3>1 DEF Status, AnsweredRows, Sglang!Answered
    <3>3. Sglang!Answered \subseteq Batch /\ Cardinality(Sglang!Answered) >= Sglang!Needed
      BY <1>1, <2>1, <3>1 DEF SglangInv, Staged, Sglang!Answered
    <3>4. AnsweredRows' \subseteq Batch /\ Contract!Cardinality(AnsweredRows') >= Sglang!Needed
      BY <3>2, <3>3, CountedAlike
    <3>5. Contract!Answer
      BY <1>3, <2>1, <2>3, <2>4, <3>2, <3>4 DEF Contract!Answer
    <3> QED
      BY <3>5 DEF Contract!Next
  <2> QED
    BY <2>5, <2>6
<1>9. CASE Sglang!EngineAnswersBatch
  <2>1. /\ stage = "generating" /\ stage' = "returned" /\ options' = options
        /\ \A r \in Batch : request[r].at = "batch"
        /\ request' = [r \in Batch |-> [request[r] EXCEPT !.at = "done"]]
    BY <1>1, <1>9 DEF Sglang!EngineAnswersBatch, Sglang!Running
  <2>2. ASSUME NEW r \in Batch PROVE request'[r].at = "done"
    <3>1. request[r] \in Req
      BY <1>1
    <3> QED
      BY <2>1, <3>1 DEF Req
  <2>3. ~options.multiTurn /\ Sglang!Needed = BatchSize
    BY <1>1, <1>9, BatchKeeps, NeededRange
  <2>4. ~HasBroken /\ ~HasBroken'
    BY <1>1, <1>2, <2>1, <2>2 DEF Sglang!Failures, Sglang!Uncollectable, Sglang!Requests, Batch
  <2>5. HasBroken = FALSE /\ HasBroken' = FALSE
    BY <2>4, Broke
  <2>6. Status = "generating" /\ Status' = "returned" /\ AnsweredRows' = Batch
    BY <1>1, <2>1, <2>2 DEF Status, AnsweredRows, Sglang!Answered, Sglang!Requests, Batch
  <2>7. Contract!Cardinality(AnsweredRows') >= Sglang!Needed
    BY <1>1, <2>3, <2>6, CountedAlike, FS_Interval DEF Batch
  <2>8. Contract!Answer
    BY <1>3, <2>1, <2>5, <2>6, <2>7 DEF Contract!Answer
  <2> QED
    BY <2>8 DEF Contract!Next
<1> QED
  BY <1>1, <1>5, <1>6, <1>7, <1>8, <1>9 DEF Sglang!Next, Sglang!Worker

\* In either mode the rollout comes back with as many answered rows as were waited for, or
\* raises because a call that it depends on did: it implements RolloutService.
THEOREM RolloutImplementsService == RolloutSpec => Contract!Spec
<1>1. RolloutInit => Contract!Init
  <2> SUFFICES ASSUME RolloutInit PROVE Contract!Init
    OBVIOUS
  <2>1. /\ phase = "waking" /\ round = 1 /\ stage = "idle" /\ options \in Options
        /\ mode \in {"async", "sync"} /\ (\A s \in Batch : state[s] = "none")
        /\ BatchSize \in Nat /\ BatchSize > 0
    BY AgentLoopAssumption DEF RolloutInit, Init, Sglang!Init
  <2>2. Status = "idle" /\ AnsweredRows = {}
    BY <2>1 DEF Status, AnsweredRows
  <2>3. \A r \in Batch : request[r].at = "ready"
    BY <2>1, SglangInitial DEF SglangInv, Staged
  <2>4. ~HasBroken
    BY <2>1, <2>3 DEF HasBroken, SomeFailed, Sglang!Failures, Sglang!Uncollectable, Sglang!Requests, Batch
  <2>5. HasBroken = FALSE
    BY <2>4, Broke
  <2>6. Contract!Cardinality(Batch) = BatchSize
    BY <2>1, CountedAlike, FS_Interval DEF Batch
  <2>7. (IF mode = "async" THEN BatchSize ELSE Sglang!Needed) \in 1 .. BatchSize
    BY <2>1, NeededRange
  <2> QED
    BY <2>2, <2>5, <2>6, <2>7 DEF Contract!Init
<1>2. RolloutInit => ServiceInv
  BY AgentInitial, SglangInitial, BusyInitial DEF ServiceInv, RolloutInv, RolloutInit, Init
<1>3. ServiceInv /\ [RolloutNext]_RolloutVars => [Contract!Next]_Contract!serviceVars
  <2> SUFFICES ASSUME ServiceInv, [RolloutNext]_RolloutVars PROVE [Contract!Next]_Contract!serviceVars
    OBVIOUS
  <2>1. CASE UNCHANGED RolloutVars
    <3>1. UNCHANGED <<state, phase, round, options, stage, request, mode>>
      BY <2>1 DEF RolloutVars, agentVars, vars, manager, sglangVars
    <3>2. UNCHANGED Contract!serviceVars
      BY <3>1 DEF Contract!serviceVars, Status, AnsweredRows, HasBroken, SomeFailed, Sglang!Failures,
                  Sglang!Uncollectable, Sglang!Answered, Sglang!Needed, Sglang!Target
    <3> QED
      BY <3>2
  <2>2. CASE RolloutNext
    <3>1. mode' = mode /\ mode \in {"async", "sync"}
      BY <2>2 DEF RolloutNext, ServiceInv, RolloutInv
    <3> QED
      BY <2>2, <3>1, AsyncRefines, SyncRefines DEF RolloutNext
  <2> QED
    BY <2>1, <2>2
<1> QED
  BY <1>1, <1>2, <1>3, ServiceStep, PTL DEF RolloutSpec, Contract!Spec
=============================================================================
