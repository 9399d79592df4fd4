------------------------- MODULE InferenceIpcProofs -------------------------
(***************************************************************************)
(* Inference in a child process, for any number of children, any voices,   *)
(* any number of late answers and any children that hang: what infer()     *)
(* returns belongs to its own audio, an answered swap is in force, and a   *)
(* stop that has joined the engine thread leaves nothing behind.           *)
(*                                                                         *)
(* What is said on the pipes comes first, then one lemma per part of the   *)
(* invariant, with one step per action.                                    *)
(***************************************************************************)
EXTENDS InferenceIpc, TLAPS

-----------------------------------------------------------------------------
(* Sequences of commands and of answers.                                   *)

\* Nothing is in an empty sequence.
LEMMA NothingSaid ==
  ASSUME NEW some PROVE ~Has(<<>>, some) /\ AtMostOne(<<>>, some)
  BY DEF Has, AtMostOne

\* What is in a sequence after something was appended.
LEMMA SaidLast ==
  ASSUME NEW S, NEW seq \in Seq(S), NEW last \in S, NEW some
  PROVE  /\ Append(seq, last) \in Seq(S)
         /\ Has(Append(seq, last), some) <=> Has(seq, some) \/ last \in some
         /\ AtMostOne(seq, some) /\ (last \notin some \/ ~Has(seq, some)) =>
              AtMostOne(Append(seq, last), some)
  <1> DEFINE n == Len(seq)
             q == Append(seq, last)
  <1>1. /\ n \in Nat /\ q \in Seq(S) /\ Len(q) = n + 1 /\ q[n + 1] = last
        /\ \A i \in 1 .. n : q[i] = seq[i]
    OBVIOUS
  <1> HIDE DEF q
  <1>2. Has(q, some) <=> Has(seq, some) \/ last \in some
    BY <1>1 DEF Has
  <1>3. ASSUME AtMostOne(seq, some), last \notin some \/ ~Has(seq, some)
        PROVE  AtMostOne(q, some)
    BY <1>1, <1>3 DEF Has, AtMostOne
  <1> QED
    BY <1>1, <1>2, <1>3 DEF q

\* What is in it after the first was taken.
LEMMA TakenFirst ==
  ASSUME NEW S, NEW seq \in Seq(S), seq # <<>>, NEW some
  PROVE  /\ Head(seq) \in S /\ Tail(seq) \in Seq(S)
         /\ Head(seq) \in some => Has(seq, some)
         /\ Has(seq, some) <=> Has(Tail(seq), some) \/ Head(seq) \in some
         /\ AtMostOne(seq, some) =>
              /\ AtMostOne(Tail(seq), some)
              /\ Head(seq) \in some => ~Has(Tail(seq), some)
  <1> DEFINE n == Len(seq)
             q == Tail(seq)
             first == Head(seq)
  <1>1. /\ n \in Nat \ {0} /\ q \in Seq(S) /\ Len(q) = n - 1
        /\ first = seq[1] /\ first \in S
        /\ \A i \in 1 .. n - 1 : q[i] = seq[i + 1]
    OBVIOUS
  <1> HIDE DEF q, first
  <1>2. \A i \in 1 .. n : i # 1 => i - 1 \in 1 .. n - 1 /\ q[i - 1] = seq[i]
    BY <1>1
  <1>3. first \in some => Has(seq, some)
    BY <1>1 DEF Has
  <1>4. Has(q, some) => Has(seq, some)
    BY <1>1 DEF Has
  <1>5. Has(seq, some) => Has(q, some) \/ first \in some
    <2> SUFFICES ASSUME NEW i \in 1 .. n, seq[i] \in some
                 PROVE  Has(q, some) \/ first \in some
      BY DEF Has
    <2>1. CASE i = 1
      BY <1>1, <2>1
    <2>2. CASE i # 1
      BY <1>1, <1>2, <2>2 DEF Has
    <2> QED
      BY <2>1, <2>2
  <1>6. ASSUME AtMostOne(seq, some)
        PROVE  AtMostOne(q, some) /\ (first \in some => ~Has(q, some))
    <2>1. \A i \in 1 .. n - 1 : i + 1 \in 1 .. n /\ q[i] = seq[i + 1]
      BY <1>1
    <2>2. AtMostOne(q, some)
      BY <1>1, <1>6, <2>1 DEF AtMostOne
    <2>3. first \in some => ~Has(q, some)
      BY <1>1, <1>6, <2>1 DEF AtMostOne, Has
    <2> QED
      BY <2>2, <2>3
  <1> QED
    BY <1>1, <1>3, <1>4, <1>5, <1>6 DEF q, first

\* The commands and what becomes of them are told apart.
LEMMA Kinds ==
  /\ Infer \in Commands /\ Stop \in Commands /\ Infer # Stop /\ Infer.cmd = "infer"
  /\ \A v \in Voices : Swap(v) \in Commands \ {Infer, Stop} /\ Swap(v) \in Jobs
  /\ \A c \in Commands \ {Infer, Stop} :
       c.cmd = "swap_model" /\ c.path \in Voices /\ c = Swap(c.path) /\ c \in Jobs
  /\ \A v, w \in Voices : Swap(v) = Swap(w) => v = w
  /\ Idle \in Jobs /\ Idle.cmd = "none"
  /\ \A a \in Audio : [cmd |-> "infer", audio |-> a] \in Jobs
  /\ \A j \in Jobs : /\ j.cmd = "infer" => j.audio \in Audio
                     /\ j.cmd = "swap_model" => j.path \in Voices /\ j = Swap(j.path)
                     /\ j.cmd \in {"none", "infer", "swap_model"}
                     /\ j.cmd = "none" => j = Idle
  <1> USE DEF Infer, Stop, Swap, Idle
  <1>1. Infer \in Commands /\ Stop \in Commands /\ Infer # Stop /\ Infer.cmd = "infer"
    BY DEF Commands
  <1>2. /\ \A v \in Voices : Swap(v) \in Commands \ {Infer, Stop} /\ Swap(v) \in Jobs
        /\ \A v, w \in Voices : Swap(v) = Swap(w) => v = w
    <2>1. ASSUME NEW v \in Voices
          PROVE  /\ Swap(v).cmd = "swap_model" /\ Infer.cmd = "infer" /\ Stop.cmd = "stop"
                 /\ Swap(v).path = v
      OBVIOUS
    <2> QED
      BY <2>1 DEF Commands, Jobs
  <1>3. ASSUME NEW c \in Commands \ {Infer, Stop}
        PROVE  c.cmd = "swap_model" /\ c.path \in Voices /\ c = Swap(c.path) /\ c \in Jobs
    <2>1. PICK v \in Voices : c = Swap(v)
      BY DEF Commands
    <2>2. c.path = v /\ c.cmd = "swap_model"
      BY <2>1
    <2> QED
      BY <2>1, <2>2 DEF Jobs
  <1>4. /\ Idle \in Jobs /\ Idle.cmd = "none"
        /\ \A a \in Audio : [cmd |-> "infer", audio |-> a] \in Jobs
    BY DEF Jobs
  <1>5. ASSUME NEW j \in Jobs
        PROVE  /\ j.cmd = "infer" => j.audio \in Audio
               /\ j.cmd = "swap_model" => j.path \in Voices /\ j = Swap(j.path)
               /\ j.cmd \in {"none", "infer", "swap_model"}
               /\ j.cmd = "none" => j = Idle
    <2>1. CASE j = Idle
      BY <2>1
    <2>2. CASE \E a \in Audio : j = [cmd |-> "infer", audio |-> a]
      BY <2>2
    <2>3. CASE \E v \in Voices : j = Swap(v)
      BY <2>3
    <2> QED
      BY <2>1, <2>2, <2>3 DEF Jobs
  <1> QED
    BY <1>1, <1>2, <1>3, <1>4, <1>5, Zenon

-----------------------------------------------------------------------------
(* What a step of either side does to what is said on the pipes.           *)

\* What is said: what is asked for and not taken, what is answered and not
\* received, and what the child works on.
Said(asked, answers, work) ==
  asked \in Seq(Commands) /\ answers \in Seq(Responses) /\ work \in Jobs

\* The engine asks for an inference of a child that has none.
LEMMA InferIsAsked ==
  ASSUME NEW asked, NEW answers, NEW work, Said(asked, answers, work),
         NEW chunk, NEW out
  PROVE  LET q == Append(asked, Infer)
         IN  /\ q \in Seq(Commands)
             /\ NoInference(asked, answers, work) =>
                  OneInference(q, answers, work, chunk, out, chunk)
             /\ ~Has(asked, Commands \ {Stop}) /\ work = Idle /\ answers = <<>> =>
                  OnlyInference(q, answers, work)
             /\ NoSwap(asked, answers, work) => NoSwap(q, answers, work)
  <1> DEFINE q == Append(asked, Infer)
  <1>1. /\ q \in Seq(Commands) /\ \A some : Has(q, some) <=> Has(asked, some) \/ Infer \in some
        /\ \A some : AtMostOne(asked, some) /\ (Infer \notin some \/ ~Has(asked, some)) =>
             AtMostOne(q, some)
    BY SaidLast, Kinds DEF Said
  <1> HIDE DEF q
  <1>2. NoInference(asked, answers, work) =>
          OneInference(q, answers, work, chunk, out, chunk)
    <2>1. ~Has(asked, {Infer}) => AtMostOne(asked, {Infer})
      BY DEF Has, AtMostOne
    <2>2. ~Has(answers, {"done"}) => AtMostOne(answers, {"done"})
      BY DEF Has, AtMostOne
    <2> QED
      BY <1>1, <2>1, <2>2 DEF NoInference, OneInference
  <1>3. ASSUME ~Has(asked, Commands \ {Stop}), work = Idle, answers = <<>>
        PROVE  OnlyInference(q, answers, work)
    <2>1. \A some : ~Has(answers, some)
      BY <1>3, NothingSaid
    <2>2. ~Has(asked, Commands \ {Infer, Stop})
      BY <1>3 DEF Has
    <2>3. Infer \notin Commands \ {Infer, Stop} /\ work.cmd # "swap_model"
      BY <1>3, Kinds
    <2> QED
      BY <1>1, <2>1, <2>2, <2>3 DEF OnlyInference
  <1>4. NoSwap(asked, answers, work) => NoSwap(q, answers, work)
    BY <1>1 DEF NoSwap
  <1> QED
    BY <1>1, <1>2, <1>3, <1>4 DEF q

\* The engine asks for a swap of a child that has none.
LEMMA SwapIsAsked ==
  ASSUME NEW asked, NEW answers, NEW work, Said(asked, answers, work),
         NEW v \in Voices, NEW process, NEW voice
  PROVE  LET q == Append(asked, Swap(v))
         IN  /\ q \in Seq(Commands)
             /\ NoInference(asked, answers, work) => NoInference(q, answers, work)
             /\ NoSwap(asked, answers, work) =>
                  OneSwap(q, answers, work, process, voice, v)
  <1> DEFINE q == Append(asked, Swap(v))
  <1>1. /\ q \in Seq(Commands) /\ \A some : Has(q, some) <=> Has(asked, some) \/ Swap(v) \in some
        /\ \A some : AtMostOne(asked, some) /\ (Swap(v) \notin some \/ ~Has(asked, some)) =>
             AtMostOne(q, some)
    BY SaidLast, Kinds DEF Said
  <1>2. Swap(v) \in Commands \ {Infer, Stop}
    BY Kinds
  <1> HIDE DEF q
  <1>3. NoInference(asked, answers, work) => NoInference(q, answers, work)
    BY <1>1, <1>2 DEF NoInference
  <1>4. ASSUME NoSwap(asked, answers, work)
        PROVE  OneSwap(q, answers, work, process, voice, v)
    <2>1. ~Has(asked, {Swap(v)}) /\ AtMostOne(asked, {Swap(v)})
      BY <1>2, <1>4 DEF NoSwap, Has, AtMostOne
    <2>2. ~Has(answers, {"swap_done"}) /\ AtMostOne(answers, {"swap_done"})
      BY <1>4 DEF NoSwap, Has, AtMostOne
    <2>3. ~Has(asked, Commands \ {Infer, Stop, Swap(v)})
      BY <1>4 DEF NoSwap, Has
    <2> QED
      BY <1>1, <1>4, <2>1, <2>2, <2>3 DEF NoSwap, OneSwap
  <1> QED
    BY <1>1, <1>3, <1>4 DEF q

\* The teardown asks the child to stop.
LEMMA StopIsAsked ==
  ASSUME NEW asked, NEW answers, NEW work, Said(asked, answers, work),
         NEW in, NEW out, NEW chunk, NEW process, NEW voice, NEW v \in Voices
  PROVE  LET q == Append(asked, Stop)
         IN  /\ q \in Seq(Commands)
             /\ NoInference(asked, answers, work) => NoInference(q, answers, work)
             /\ OneInference(asked, answers, work, in, out, chunk) =>
                  OneInference(q, answers, work, in, out, chunk)
             /\ OnlyInference(asked, answers, work) => OnlyInference(q, answers, work)
             /\ ~Has(asked, Commands \ {Stop}) => ~Has(q, Commands \ {Stop})
             /\ NoSwap(asked, answers, work) => NoSwap(q, answers, work)
             /\ OneSwap(asked, answers, work, process, voice, v) =>
                  OneSwap(q, answers, work, process, voice, v)
  <1> DEFINE q == Append(asked, Stop)
  <1>1. /\ q \in Seq(Commands) /\ \A some : Has(q, some) <=> Has(asked, some) \/ Stop \in some
        /\ \A some : AtMostOne(asked, some) /\ (Stop \notin some \/ ~Has(asked, some)) =>
             AtMostOne(q, some)
    BY SaidLast, Kinds DEF Said
  <1>2. Stop # Infer /\ Stop # Swap(v)
    BY Kinds
  <1> HIDE DEF q
  <1>3. NoInference(asked, answers, work) => NoInference(q, answers, work)
    BY <1>1, <1>2 DEF NoInference
  <1>4. OneInference(asked, answers, work, in, out, chunk) =>
          OneInference(q, answers, work, in, out, chunk)
    BY <1>1, <1>2 DEF OneInference
  <1>5. OnlyInference(asked, answers, work) => OnlyInference(q, answers, work)
    BY <1>1, <1>3 DEF OnlyInference
  <1>6. NoSwap(asked, answers, work) => NoSwap(q, answers, work)
    BY <1>1 DEF NoSwap
  <1>7. OneSwap(asked, answers, work, process, voice, v) =>
          OneSwap(q, answers, work, process, voice, v)
    BY <1>1, <1>2 DEF OneSwap
  <1>8. ~Has(asked, Commands \ {Stop}) => ~Has(q, Commands \ {Stop})
    BY <1>1
  <1> QED
    BY <1>1, <1>3, <1>4, <1>5, <1>6, <1>7, <1>8 DEF q

\* The engine receives an answer.
LEMMA AnswerIsReceived ==
  ASSUME NEW asked, NEW answers, NEW work, Said(asked, answers, work), answers # <<>>,
         NEW in, NEW out, NEW chunk, NEW process, NEW voice, NEW v \in Voices
  PROVE  LET r == Tail(answers)
         IN  /\ r \in Seq(Responses) /\ Head(answers) \in Responses
             /\ NoInference(asked, answers, work) => NoInference(asked, r, work)
             /\ OneInference(asked, answers, work, in, out, chunk) /\ Head(answers) = "done" =>
                  NoInference(asked, r, work) /\ out.audio = chunk
             /\ OnlyInference(asked, answers, work) =>
                  /\ Head(answers) \in {"done", "error"}
                  /\ Head(answers) = "error" => NoInference(asked, r, work)
             /\ NoSwap(asked, answers, work) => NoSwap(asked, r, work)
             /\ OneSwap(asked, answers, work, process, voice, v) =>
                  /\ OneSwap(asked, r, work, process, voice, v)
                  /\ Head(answers) = "swap_done" =>
                       NoSwap(asked, r, work) /\ (process # "dead" => voice = v)
  <1> DEFINE r == Tail(answers)
             first == Head(answers)
  <1>1. /\ r \in Seq(Responses) /\ first \in Responses
        /\ \A some : first \in some => Has(answers, some)
        /\ \A some : Has(answers, some) <=> Has(r, some) \/ first \in some
        /\ \A some : AtMostOne(answers, some) =>
             AtMostOne(r, some) /\ (first \in some => ~Has(r, some))
    BY TakenFirst DEF Said
  <1> HIDE DEF r, first
  <1>2. NoInference(asked, answers, work) => NoInference(asked, r, work)
    BY <1>1 DEF NoInference
  <1>3. ASSUME OneInference(asked, answers, work, in, out, chunk), first = "done"
        PROVE  NoInference(asked, r, work) /\ out.audio = chunk
    <2>1. Has(answers, {"done"}) /\ ~Has(r, {"done"})
      BY <1>1, <1>3 DEF OneInference
    <2> QED
      BY <1>3, <2>1 DEF OneInference, NoInference
  <1>4. ASSUME OnlyInference(asked, answers, work)
        PROVE  /\ first \in {"done", "error"}
               /\ first = "error" => NoInference(asked, r, work)
    <2>1. first \notin Responses \ {"done", "error"}
      BY <1>1, <1>4 DEF OnlyInference
    <2>2. first = "error" => NoInference(asked, answers, work)
      BY <1>1, <1>4 DEF OnlyInference
    <2> QED
      BY <1>1, <1>2, <2>1, <2>2
  <1>5. NoSwap(asked, answers, work) => NoSwap(asked, r, work)
    BY <1>1 DEF NoSwap
  <1>6. ASSUME OneSwap(asked, answers, work, process, voice, v)
        PROVE  /\ OneSwap(asked, r, work, process, voice, v)
               /\ first = "swap_done" => NoSwap(asked, r, work) /\ (process # "dead" => voice = v)
    <2>1. OneSwap(asked, r, work, process, voice, v)
      BY <1>1, <1>6 DEF OneSwap
    <2>2. ASSUME first = "swap_done"
          PROVE  NoSwap(asked, r, work) /\ (process # "dead" => voice = v)
      <3>1. Has(answers, {"swap_done"}) /\ ~Has(r, {"swap_done"})
        BY <1>1, <1>6, <2>2 DEF OneSwap
      <3>2. ~Has(asked, Commands \ {Infer, Stop})
        BY <1>6, <3>1 DEF OneSwap, Has
      <3> QED
        BY <1>6, <3>1, <3>2 DEF OneSwap, NoSwap
    <2> QED
      BY <2>1, <2>2
  <1> QED
    BY <1>1, <1>2, <1>3, <1>4, <1>5, <1>6 DEF r, first

\* The child takes a command.
LEMMA CommandIsTaken ==
  ASSUME NEW asked, NEW answers, Said(asked, answers, Idle), asked # <<>>,
         Head(asked) # Stop,
         NEW in, Has(asked, {Infer}) => in \in Audio,
         NEW out, NEW chunk, NEW process, NEW voice, NEW v \in Voices, NEW work,
         work = IF Head(asked) = Infer THEN [cmd |-> "infer", audio |-> in]
                                                 ELSE Head(asked)
  PROVE  LET q == Tail(asked)
         IN  /\ q \in Seq(Commands) /\ work \in Jobs
             /\ NoInference(asked, answers, Idle) => NoInference(q, answers, work)
             /\ Has(q, {Infer}) => Has(asked, {Infer})
             /\ OneInference(asked, answers, Idle, in, out, chunk) =>
                  OneInference(q, answers, work, in, out, chunk)
             /\ OnlyInference(asked, answers, Idle) => OnlyInference(q, answers, work)
             /\ NoSwap(asked, answers, Idle) => NoSwap(q, answers, work)
             /\ OneSwap(asked, answers, Idle, process, voice, v) =>
                  OneSwap(q, answers, work, process, voice, v)
             /\ Has(asked, Commands \ {Stop})
  <1> DEFINE q == Tail(asked)
             first == Head(asked)
  <1>1. /\ q \in Seq(Commands) /\ first \in Commands /\ first # Stop
        /\ \A some : first \in some => Has(asked, some)
        /\ \A some : Has(asked, some) <=> Has(q, some) \/ first \in some
        /\ \A some : AtMostOne(asked, some) =>
             AtMostOne(q, some) /\ (first \in some => ~Has(q, some))
    BY TakenFirst DEF Said
  <1>2. work = IF first = Infer THEN [cmd |-> "infer", audio |-> in] ELSE first
    OBVIOUS
  <1> HIDE DEF q, first
  <1>3. /\ work \in Jobs
        /\ work.cmd = "infer" => first = Infer /\ work.audio = in
        /\ work.cmd = "swap_model" =>
             first \in Commands \ {Infer, Stop} /\ first = Swap(work.path) /\ work.path \in Voices
        /\ first = Infer => work.cmd = "infer"
        /\ first # Infer => work.cmd = "swap_model"
    <2>1. CASE first = Infer
      <3>1. in \in Audio
        BY <1>1, <2>1
      <3> QED
        BY <1>2, <2>1, <3>1, Kinds
    <2>2. CASE first # Infer
      BY <1>1, <1>2, <2>2, Kinds
    <2> QED
      BY <2>1, <2>2
  <1>4. NoInference(asked, answers, Idle) => NoInference(q, answers, work)
    BY <1>1, <1>3 DEF NoInference
  <1>5. ASSUME OneInference(asked, answers, Idle, in, out, chunk)
        PROVE  OneInference(q, answers, work, in, out, chunk)
    BY <1>1, <1>3, <1>5 DEF OneInference
  <1>6. ASSUME OnlyInference(asked, answers, Idle)
        PROVE  OnlyInference(q, answers, work)
    <2>1. first = Infer
      BY <1>1, <1>6 DEF OnlyInference
    <2>2. ~Has(answers, {"error"})
      BY <1>1, <1>6, <2>1 DEF OnlyInference, NoInference
    <2> QED
      BY <1>1, <1>3, <1>6, <2>1, <2>2 DEF OnlyInference
  <1>7. ASSUME NoSwap(asked, answers, Idle) PROVE NoSwap(q, answers, work)
    BY <1>1, <1>3, <1>7 DEF NoSwap
  <1>8. ASSUME OneSwap(asked, answers, Idle, process, voice, v)
        PROVE  OneSwap(q, answers, work, process, voice, v)
    <2>1. CASE first = Infer
      BY <1>1, <1>3, <1>8, <2>1 DEF OneSwap
    <2>2. CASE first # Infer
      <3>1. first = Swap(v)
        <4>1. first \notin Commands \ {Infer, Stop, Swap(v)}
          BY <1>1, <1>8 DEF OneSwap
        <4> QED
          BY <1>1, <2>2, <4>1
      <3>2. work.path = v
        BY <1>3, <2>2, <3>1, Kinds
      <3>3. Has(asked, {Swap(v)}) /\ ~Has(q, {Swap(v)})
        BY <1>1, <1>8, <3>1 DEF OneSwap
      <3> QED
        BY <1>1, <1>3, <1>8, <3>2, <3>3 DEF OneSwap
    <2> QED
      BY <2>1, <2>2
  <1>9. Has(asked, Commands \ {Stop})
    BY <1>1
  <1> QED
    BY <1>1, <1>3, <1>4, <1>5, <1>6, <1>7, <1>8, <1>9 DEF q

\* The child answers an inference: with its audio, or with an error.
LEMMA InferenceIsAnswered ==
  ASSUME NEW asked, NEW answers, NEW work, Said(asked, answers, work),
         work.cmd = "infer", NEW resp \in {"done", "error"},
         NEW in, NEW out, NEW new, resp = "done" => new.audio = work.audio,
         resp = "error" => new = out,
         NEW chunk, NEW process, NEW voice, NEW v \in Voices
  PROVE  LET r == Append(answers, resp)
         IN  /\ r \in Seq(Responses)
             /\ ~NoInference(asked, answers, work)
             /\ OneInference(asked, answers, work, in, out, chunk) =>
                  /\ OneInference(asked, r, Idle, in, new, chunk)
                  /\ OnlyInference(asked, answers, work) => OnlyInference(asked, r, Idle)
             /\ NoSwap(asked, answers, work) => NoSwap(asked, r, Idle)
             /\ OneSwap(asked, answers, work, process, voice, v) =>
                  OneSwap(asked, r, Idle, process, voice, v)
  <1> DEFINE r == Append(answers, resp)
  <1>1. /\ r \in Seq(Responses) /\ \A some : Has(r, some) <=> Has(answers, some) \/ resp \in some
        /\ \A some : AtMostOne(answers, some) /\ (resp \notin some \/ ~Has(answers, some)) =>
             AtMostOne(r, some)
    BY SaidLast DEF Said, Responses
  <1> HIDE DEF r
  <1>2. ~NoInference(asked, answers, work)
    BY DEF NoInference
  <1>3. Idle.cmd = "none"
    BY Kinds
  <1>4. ASSUME OneInference(asked, answers, work, in, out, chunk)
        PROVE  /\ OneInference(asked, r, Idle, in, new, chunk)
               /\ OnlyInference(asked, answers, work) => OnlyInference(asked, r, Idle)
    <2>1. ~Has(asked, {Infer}) /\ ~Has(answers, {"done"}) /\ work.audio = chunk
      BY <1>4 DEF OneInference
    <2>2. OneInference(asked, r, Idle, in, new, chunk)
      BY <1>1, <1>3, <1>4, <2>1 DEF OneInference
    <2>3. ASSUME OnlyInference(asked, answers, work) PROVE OnlyInference(asked, r, Idle)
      <3>1. ~Has(answers, {"error"})
        BY <1>2, <2>3 DEF OnlyInference
      <3>2. resp = "error" => NoInference(asked, r, Idle)
        BY <1>1, <1>3, <2>1 DEF NoInference
      <3>3. ~Has(r, Responses \ {"done", "error"})
        BY <1>1, <2>3 DEF OnlyInference
      <3> QED
        BY <1>1, <1>3, <2>3, <3>1, <3>2, <3>3 DEF OnlyInference
    <2> QED
      BY <2>2, <2>3
  <1>5. NoSwap(asked, answers, work) => NoSwap(asked, r, Idle)
    BY <1>1, <1>3 DEF NoSwap
  <1>6. OneSwap(asked, answers, work, process, voice, v) =>
          OneSwap(asked, r, Idle, process, voice, v)
    BY <1>1, <1>3 DEF OneSwap
  <1> QED
    BY <1>1, <1>2, <1>4, <1>5, <1>6 DEF r

\* The child answers a swap: as done if the voice is in use, or with an error.
LEMMA SwapIsAnswered ==
  ASSUME NEW asked, NEW answers, NEW work, Said(asked, answers, work),
         work.cmd = "swap_model", NEW resp \in {"swap_done", "error"},
         NEW new, resp = "swap_done" => new = work.path,
         NEW in, NEW out, NEW chunk, NEW process, NEW voice, NEW v \in Voices
  PROVE  LET r == Append(answers, resp)
         IN  /\ r \in Seq(Responses)
             /\ ~NoSwap(asked, answers, work) /\ ~OnlyInference(asked, answers, work)
             /\ NoInference(asked, answers, work) => NoInference(asked, r, Idle)
             /\ OneInference(asked, answers, work, in, out, chunk) =>
                  OneInference(asked, r, Idle, in, out, chunk)
             /\ OneSwap(asked, answers, work, process, voice, v) =>
                  OneSwap(asked, r, Idle, process, new, v)
  <1> DEFINE r == Append(answers, resp)
  <1>1. /\ r \in Seq(Responses) /\ \A some : Has(r, some) <=> Has(answers, some) \/ resp \in some
        /\ \A some : AtMostOne(answers, some) /\ (resp \notin some \/ ~Has(answers, some)) =>
             AtMostOne(r, some)
    BY SaidLast DEF Said, Responses
  <1> HIDE DEF r
  <1>2. ~NoSwap(asked, answers, work) /\ ~OnlyInference(asked, answers, work)
    BY DEF NoSwap, OnlyInference
  <1>3. Idle.cmd = "none"
    BY Kinds
  <1>4. NoInference(asked, answers, work) => NoInference(asked, r, Idle)
    BY <1>1, <1>3 DEF NoInference
  <1>5. OneInference(asked, answers, work, in, out, chunk) =>
          OneInference(asked, r, Idle, in, out, chunk)
    BY <1>1, <1>3 DEF OneInference
  <1>6. ASSUME OneSwap(asked, answers, work, process, voice, v)
        PROVE  OneSwap(asked, r, Idle, process, new, v)
    <2>1. work.path = v /\ ~Has(answers, {"swap_done"}) /\ ~Has(asked, {Swap(v)})
      BY <1>6 DEF OneSwap
    <2> QED
      BY <1>1, <1>3, <1>6, <2>1 DEF OneSwap
  <1> QED
    BY <1>1, <1>2, <1>4, <1>5, <1>6 DEF r

\* The child ends.
LEMMA NothingAskedOfTheDead ==
  ASSUME NEW asked, NEW answers, NEW work, Said(asked, answers, work),
         NEW in, NEW out, NEW chunk, NEW process, NEW voice, NEW new, NEW v \in Voices
  PROVE  /\ NoInference(asked, answers, work) => NoInference(<<>>, answers, Idle)
         /\ OneInference(asked, answers, work, in, out, chunk) =>
              OneInference(<<>>, answers, Idle, in, out, chunk)
         /\ OnlyInference(asked, answers, work) => OnlyInference(<<>>, answers, Idle)
         /\ NoSwap(asked, answers, work) => NoSwap(<<>>, answers, Idle)
         /\ OneSwap(asked, answers, work, process, voice, v) =>
              OneSwap(<<>>, answers, Idle, "dead", new, v)
  <1>1. \A some : ~Has(<<>>, some) /\ AtMostOne(<<>>, some)
    BY NothingSaid
  <1>2. Idle.cmd = "none"
    BY Kinds
  <1> QED
    BY <1>1, <1>2 DEF NoInference, OneInference, OnlyInference, NoSwap, OneSwap

\* Nothing was said.
LEMMA Silence ==
  ASSUME NEW in, NEW out, NEW chunk, NEW process, NEW voice, NEW v
  PROVE  /\ Said(<<>>, <<>>, Idle)
         /\ NoInference(<<>>, <<>>, Idle) /\ OneInference(<<>>, <<>>, Idle, in, out, chunk)
         /\ OnlyInference(<<>>, <<>>, Idle) /\ NoSwap(<<>>, <<>>, Idle)
         /\ OneSwap(<<>>, <<>>, Idle, process, voice, v)
  <1>1. \A some : ~Has(<<>>, some) /\ AtMostOne(<<>>, some)
    BY NothingSaid
  <1>2. Idle.cmd = "none" /\ Idle \in Jobs
    BY Kinds
  <1> QED
    BY <1>1, <1>2 DEF Said, NoInference, OneInference, OnlyInference, NoSwap, OneSwap

-----------------------------------------------------------------------------
(* The parts of the type invariant.                                        *)

ChildTypes ==
  /\ proc \in [Children -> {"unborn", "loading", "serving", "dead", "crashed"}]
  /\ cmds \in [Children -> Seq(Commands)] /\ resps \in [Children -> Seq(Responses)]
  /\ inBuf \in [Children -> Audio \cup {None}]
  /\ outBuf \in [Children -> [audio : Audio \cup {None}, voice : Voices]]
  /\ voiceOf \in [Children -> Voices] /\ job \in [Children -> Jobs]

ClientTypes ==
  /\ handles \in Children \cup {None} /\ h \in Children \cup {None}
  /\ th \in Children \cup {None}
  /\ closed \subseteq Children /\ linked \subseteq Children

ThreadTypes ==
  /\ e \in {"loop", "swaps", "swapWait", "infer", "inferWait", "restart",
            "spawn", "ready", "ended"}
  /\ attempt \in {"start", "first", "second"}
  /\ audio \in Audio /\ target \in Voices /\ cfgVoice \in Voices
  /\ aborted \in BOOLEAN /\ joined \in BOOLEAN /\ dropped \in BOOLEAN
  /\ result \in [audio : Audio \cup {None}, voice : Voices]
  /\ t \in {"idle", "join", "client", "ask", "wait", "clean", "forget", "drop", "done"}

LEMMA TypeParts == IpcTypeOK <=> ChildTypes /\ ClientTypes /\ ThreadTypes
  BY DEF IpcTypeOK, ChildTypes, ClientTypes, ThreadTypes

LEMMA TypePartsNext == IpcTypeOK' <=> ChildTypes' /\ ClientTypes' /\ ThreadTypes'
  BY DEF IpcTypeOK, ChildTypes, ClientTypes, ThreadTypes

LEMMA NoneIsNoChild == None \notin Children /\ 1 \in Children /\ FirstVoice \in Voices
  BY ChildrenAssumption, VoiceAssumption DEF None, Children

\* What is said between the client and each child has its type.
LEMMA AllSaid ==
  ASSUME ChildTypes, NEW c \in Children PROVE Said(cmds[c], resps[c], job[c])
  BY DEF ChildTypes, Said

-----------------------------------------------------------------------------
(* Steps of a child.                                                       *)

\* Only a child moves, and what is kept of what is said is kept.
Moves(c) ==
  /\ ChildTypes' /\ UNCHANGED <<clientVars, engineVars, stopVars, inBuf>>
  /\ \A d \in Children \ {c} :
       /\ proc'[d] = proc[d] /\ cmds'[d] = cmds[d] /\ resps'[d] = resps[d]
       /\ outBuf'[d] = outBuf[d] /\ voiceOf'[d] = voiceOf[d] /\ job'[d] = job[d]
  /\ Alive(c) /\ proc'[c] \in {"serving", "dead", "crashed"}
  /\ proc[c] # "loading" => proc'[c] # "crashed"
  /\ proc'[c] # "serving" => cmds'[c] = <<>> /\ job'[c] = Idle /\ voiceOf'[c] = FirstVoice
  /\ Has(cmds'[c], {Infer}) => Has(cmds[c], {Infer})
  /\ proc[c] = "loading" =>
       (cmds[c] = <<>> /\ job[c] = Idle /\ resps[c] = <<>> /\ voiceOf[c] = FirstVoice =>
        cmds'[c] = <<>> /\ job'[c] = Idle /\ voiceOf'[c] = FirstVoice
        /\ resps'[c] \in {<<>>, <<"ready">>, <<"error">>}
        /\ (proc'[c] # "crashed" => resps'[c] # <<>>))
  /\ proc[c] # "loading" =>
       /\ cmds[c] = <<>> /\ job[c] = Idle =>
            /\ cmds'[c] = <<>> /\ job'[c] = Idle /\ resps'[c] = resps[c]
            /\ voiceOf'[c] \in {voiceOf[c], FirstVoice}
       /\ NoInference(cmds[c], resps[c], job[c]) =>
            NoInference(cmds'[c], resps'[c], job'[c])
       /\ OneInference(cmds[c], resps[c], job[c], inBuf[c], outBuf[c], audio) =>
            /\ OneInference(cmds'[c], resps'[c], job'[c], inBuf[c], outBuf'[c], audio)
            /\ OnlyInference(cmds[c], resps[c], job[c]) =>
                 OnlyInference(cmds'[c], resps'[c], job'[c])
       /\ ~Has(cmds[c], Commands \ {Stop}) /\ job[c] = Idle =>
            /\ ~Has(cmds'[c], Commands \ {Stop}) /\ job'[c] = Idle
            /\ resps'[c] = resps[c]
       /\ NoSwap(cmds[c], resps[c], job[c]) =>
            /\ NoSwap(cmds'[c], resps'[c], job'[c])
            /\ proc'[c] = "dead" \/ voiceOf'[c] = voiceOf[c]
       /\ OneSwap(cmds[c], resps[c], job[c], proc[c], voiceOf[c], target) =>
            OneSwap(cmds'[c], resps'[c], job'[c], proc'[c], voiceOf'[c], target)

LEMMA MovesKeep ==
  ASSUME IpcInv, NEW c \in Children, Moves(c)
  PROVE  IpcInv'
  <1> USE NoneIsNoChild
  <1>1. /\ ChildTypes /\ ClientTypes /\ ThreadTypes /\ OwnResult /\ LinkedWhileAlive
        /\ ChildrenKept /\ CallsRefer /\ OwnAnswers /\ OwnSwaps /\ StopOwns
    BY TypeParts DEF IpcInv
  <1>2. /\ ChildTypes' /\ ClientTypes' /\ ThreadTypes'
        /\ UNCHANGED <<clientVars, engineVars, stopVars, inBuf>>
    BY <1>1 DEF Moves, ClientTypes, ThreadTypes, clientVars, engineVars, stopVars
  <1> USE DEF clientVars, engineVars, stopVars
  <1>3. OwnResult'
    BY <1>1, <1>2 DEF OwnResult, NoAnswer, Answer
  <1>4. LinkedWhileAlive'
    BY <1>1, <1>2 DEF LinkedWhileAlive, Alive, Moves
  <1>5. ChildrenKept'
    <2>1. ASSUME NEW d \in Children, d # c
          PROVE  /\ proc'[d] = proc[d] /\ cmds'[d] = cmds[d] /\ resps'[d] = resps[d]
                 /\ job'[d] = job[d] /\ voiceOf'[d] = voiceOf[d]
      BY <2>1 DEF Moves
    <2>2. /\ proc'[c] \in {"serving", "dead", "crashed"}
          /\ proc'[c] # "serving" =>
               cmds'[c] = <<>> /\ job'[c] = Idle /\ voiceOf'[c] = FirstVoice
          /\ Has(cmds'[c], {Infer}) => inBuf[c] # None
      BY <1>1 DEF Moves, ChildrenKept
    <2> SUFFICES ASSUME NEW d \in Children
                 PROVE  /\ ~Alive(d)' => cmds'[d] = <<>> /\ job'[d] = Idle
                                          /\ voiceOf'[d] = FirstVoice
                        /\ proc'[d] = "unborn" => d \notin {handles, h, th} /\ resps'[d] = <<>>
                        /\ proc'[d] = "loading" => e = "ready" /\ h = d
                        /\ Has(cmds'[d], {Infer}) => inBuf[d] # None
      BY <1>2 DEF ChildrenKept
    <2>3. CASE d = c
      BY <2>2, <2>3 DEF Alive
    <2>4. CASE d # c
      BY <1>1, <2>1, <2>4 DEF ChildrenKept, Alive
    <2> QED
      BY <2>3, <2>4
  <1>6. proc[c] = "loading" => e = "ready" /\ h = c /\ handles = None
    BY <1>1 DEF ChildrenKept, CallsRefer
  <1>7. CallsRefer'
    <2>1. ASSUME e = "ready"
          PROVE  /\ th # h /\ cmds'[h] = <<>> /\ job'[h] = Idle /\ voiceOf'[h] = FirstVoice
                 /\ resps'[h] \in {<<>>, <<"ready">>, <<"error">>}
                 /\ proc'[h] = "loading" => resps'[h] = <<>>
                 /\ proc'[h] \in {"serving", "dead"} => resps'[h] # <<>>
      <3>1. /\ h \in Children
            /\ th # h /\ cmds[h] = <<>> /\ job[h] = Idle /\ voiceOf[h] = FirstVoice
            /\ resps[h] \in {<<>>, <<"ready">>, <<"error">>}
            /\ proc[h] = "loading" => resps[h] = <<>>
            /\ proc[h] \in {"serving", "dead"} => resps[h] # <<>>
        BY <1>1, <2>1 DEF CallsRefer, ClientTypes
      <3>2. CASE h # c
        BY <3>1, <3>2 DEF Moves
      <3>3. CASE h = c /\ proc[c] = "loading"
        BY <3>1, <3>3 DEF Moves
      <3>4. CASE h = c /\ proc[c] # "loading"
        <4>1. /\ cmds'[c] = <<>> /\ job'[c] = Idle /\ resps'[c] = resps[c]
              /\ voiceOf'[c] \in {voiceOf[c], FirstVoice} /\ proc'[c] # "loading"
              /\ proc[c] \in {"serving", "dead"}
          BY <3>1, <3>4 DEF Moves, Alive
        <4> QED
          BY <3>1, <3>4, <4>1
      <3> QED
        BY <3>2, <3>3, <3>4
    <2>2. t \in {"clean", "forget"} => proc'[th] = "dead"
      BY <1>1 DEF CallsRefer, InStop, ClientTypes, Moves, Alive
    <2> QED
      BY <1>1, <1>2, <2>1, <2>2 DEF CallsRefer, InStop
  <1>8. OwnAnswers'
    <2>1. ASSUME handles # None, e # "ready"
          PROVE  handles \in Children /\ (handles = c => proc[c] # "loading")
      BY <1>1, <1>6, <2>1 DEF ClientTypes
    <2>2. ASSUME e = "inferWait"
          PROVE  h \in Children /\ (h = c => proc[c] # "loading")
      BY <1>1, <1>6, <2>2 DEF ClientTypes, CallsRefer
    <2> QED
      BY <1>1, <1>2, <2>1, <2>2 DEF OwnAnswers, Moves
  <1>9. OwnSwaps'
    BY <1>1, <1>2, <1>6 DEF OwnSwaps, Moves, Alive
  <1>10. StopOwns'
    BY <1>1, <1>2 DEF StopOwns, Crashed, Moves, Alive
  <1> QED
    BY <1>2, <1>3, <1>4, <1>5, <1>7, <1>8, <1>9, <1>10, TypePartsNext DEF IpcInv

\* A child that ends, of itself or not, leaves its answers behind.
LEMMA EndMoves ==
  ASSUME IpcInv, NEW c \in Children, proc[c] = "serving", Ended(c),
         UNCHANGED <<resps, inBuf, outBuf, clientVars, engineVars, stopVars>>
  PROVE  Moves(c)
  <1> USE NoneIsNoChild
  <1>1. ChildTypes /\ ThreadTypes
    BY TypeParts DEF IpcInv
  <1>2. Idle \in Jobs /\ <<>> \in Seq(Commands)
    BY Kinds
  <1>3. /\ ChildTypes'
        /\ proc'[c] = "dead" /\ cmds'[c] = <<>> /\ job'[c] = Idle
        /\ voiceOf'[c] = FirstVoice
        /\ \A d \in Children \ {c} :
             /\ proc'[d] = proc[d] /\ cmds'[d] = cmds[d]
             /\ voiceOf'[d] = voiceOf[d] /\ job'[d] = job[d]
    BY <1>1, <1>2 DEF Ended, Gone, ChildTypes
  <1>4. Said(cmds[c], resps[c], job[c]) /\ target \in Voices
    BY <1>1, AllSaid DEF ThreadTypes
  <1>5. /\ NoInference(cmds[c], resps[c], job[c]) => NoInference(<<>>, resps[c], Idle)
        /\ OneInference(cmds[c], resps[c], job[c], inBuf[c], outBuf[c], audio) =>
              OneInference(<<>>, resps[c], Idle, inBuf[c], outBuf[c], audio)
        /\ OnlyInference(cmds[c], resps[c], job[c]) => OnlyInference(<<>>, resps[c], Idle)
        /\ NoSwap(cmds[c], resps[c], job[c]) => NoSwap(<<>>, resps[c], Idle)
        /\ OneSwap(cmds[c], resps[c], job[c], proc[c], voiceOf[c], target) =>
              OneSwap(<<>>, resps[c], Idle, "dead", FirstVoice, target)
        /\ ~Has(<<>>, Commands \ {Stop}) /\ ~Has(<<>>, {Infer})
    BY <1>4, NothingAskedOfTheDead, NothingSaid
  <1>6. /\ resps'[c] = resps[c] /\ outBuf'[c] = outBuf[c] /\ UNCHANGED inBuf
        /\ \A d \in Children : resps'[d] = resps[d] /\ outBuf'[d] = outBuf[d]
    OBVIOUS
  <1> QED
    BY <1>3, <1>5, <1>6 DEF Moves, Alive

\* A child that has loaded its voice says so.
LEMMA LoadMoves ==
  ASSUME IpcInv, NEW c \in Children, ChildLoads(c),
         UNCHANGED <<clientVars, engineVars, stopVars>>
  PROVE  Moves(c)
  <1> USE NoneIsNoChild
  <1>1. ChildTypes /\ ThreadTypes
    BY TypeParts DEF IpcInv
  <1>2. /\ proc[c] = "loading" /\ UNCHANGED <<inBuf, outBuf>>
        /\ \A d \in Children : outBuf'[d] = outBuf[d]
    BY DEF ChildLoads
  <1>3. PICK resp \in {"ready", "error"} : resps' = [resps EXCEPT ![c] = Append(@, resp)]
    BY DEF ChildLoads, Responds
  <1>4. /\ resps' \in [Children -> Seq(Responses)]
        /\ resps[c] = <<>> => resps'[c] = <<resp>>
        /\ \A d \in Children \ {c} : resps'[d] = resps[d]
    <2>1. resps[c] \in Seq(Responses) /\ resp \in Responses
      BY <1>1 DEF ChildTypes, Responses
    <2>2. Append(resps[c], resp) \in Seq(Responses)
      BY <2>1
    <2>3. resps' = [resps EXCEPT ![c] = Append(resps[c], resp)]
      BY <1>3
    <2> DEFINE new == Append(resps[c], resp)
    <2>4. resps[c] = <<>> => new = <<resp>>
      OBVIOUS
    <2> HIDE DEF new
    <2> QED
      BY <1>1, <2>2, <2>3, <2>4 DEF ChildTypes, new
  <1>5. /\ proc' \in [Children -> {"unborn", "loading", "serving", "dead", "crashed"}]
        /\ cmds' \in [Children -> Seq(Commands)] /\ voiceOf' \in [Children -> Voices]
        /\ job' \in [Children -> Jobs]
        /\ proc'[c] \in {"serving", "dead"}
        /\ proc'[c] = "dead" => cmds'[c] = <<>> /\ job'[c] = Idle /\ voiceOf'[c] = FirstVoice
        /\ cmds[c] = <<>> => cmds'[c] = <<>>
        /\ cmds'[c] \in {cmds[c], <<>>}
        /\ job[c] = Idle => job'[c] = Idle
        /\ voiceOf[c] = FirstVoice => voiceOf'[c] = FirstVoice
        /\ \A d \in Children \ {c} : /\ proc'[d] = proc[d] /\ cmds'[d] = cmds[d]
                                     /\ voiceOf'[d] = voiceOf[d] /\ job'[d] = job[d]
    <2>1. Idle \in Jobs /\ <<>> \in Seq(Commands)
      BY Kinds
    <2>2. CASE proc' = [proc EXCEPT ![c] = "serving"] /\ UNCHANGED <<cmds, voiceOf, job>>
      BY <1>1, <2>2 DEF ChildTypes
    <2>3. CASE Ended(c)
      BY <1>1, <2>1, <2>3 DEF ChildTypes, Ended, Gone
    <2> QED
      BY <2>2, <2>3 DEF ChildLoads
  <1>6. ChildTypes'
    BY <1>1, <1>2, <1>4, <1>5 DEF ChildTypes
  <1> QED
    <2>1. <<resp>> \in {<<"ready">>, <<"error">>} /\ <<resp>> # <<>>
      BY <1>3
    <2> QED
      BY <1>2, <1>4, <1>5, <1>6, <2>1, NothingSaid DEF Moves, Alive

\* A child that dies while it is loading has been asked for nothing yet.
LEMMA CrashMoves ==
  ASSUME IpcInv, NEW c \in Children, proc[c] = "loading", Gone(c, "crashed"),
         UNCHANGED <<resps, inBuf, outBuf, clientVars, engineVars, stopVars>>
  PROVE  Moves(c)
  <1> USE NoneIsNoChild
  <1>1. ChildTypes
    BY TypeParts DEF IpcInv
  <1>2. Idle \in Jobs /\ <<>> \in Seq(Commands)
    BY Kinds
  <1>3. /\ ChildTypes'
        /\ proc'[c] = "crashed" /\ cmds'[c] = <<>> /\ job'[c] = Idle
        /\ voiceOf'[c] = FirstVoice
        /\ \A d \in Children \ {c} :
             /\ proc'[d] = proc[d] /\ cmds'[d] = cmds[d]
             /\ voiceOf'[d] = voiceOf[d] /\ job'[d] = job[d]
    BY <1>1, <1>2 DEF Gone, ChildTypes
  <1>4. ~Has(<<>>, {Infer}) /\ resps'[c] = resps[c]
    BY NothingSaid
  <1> QED
    BY <1>3, <1>4 DEF Moves, Alive

\* A child that takes a command works on it.
LEMMA TakeMoves ==
  ASSUME IpcInv, NEW c \in Children, ChildTakes(c),
         UNCHANGED <<clientVars, engineVars, stopVars>>
  PROVE  Moves(c)
  <1> USE NoneIsNoChild
  <1> DEFINE new == IF Head(cmds[c]) = Infer THEN [cmd |-> "infer", audio |-> inBuf[c]]
                                             ELSE Head(cmds[c])
  <1>1. ChildTypes /\ ThreadTypes
    BY TypeParts DEF IpcInv
  <1>2. /\ proc[c] = "serving" /\ job[c] = Idle /\ cmds[c] # <<>> /\ Head(cmds[c]) # Stop
        /\ job' = [job EXCEPT ![c] = new] /\ cmds' = [cmds EXCEPT ![c] = Tail(@)]
        /\ UNCHANGED <<proc, resps, inBuf, outBuf, voiceOf>>
    BY DEF ChildTakes, Free, WorkCommand
  <1>3. /\ Said(cmds[c], resps[c], Idle) /\ target \in Voices
        /\ Has(cmds[c], {Infer}) => inBuf[c] \in Audio
    BY <1>1, <1>2, AllSaid DEF ThreadTypes, IpcInv, ChildrenKept, ChildTypes
  <1> HIDE DEF new
  <1>4. /\ Tail(cmds[c]) \in Seq(Commands) /\ new \in Jobs
        /\ Has(Tail(cmds[c]), {Infer}) => Has(cmds[c], {Infer})
        /\ Has(cmds[c], Commands \ {Stop})
        /\ NoInference(cmds[c], resps[c], Idle) => NoInference(Tail(cmds[c]), resps[c], new)
        /\ OneInference(cmds[c], resps[c], Idle, inBuf[c], outBuf[c], audio) =>
             OneInference(Tail(cmds[c]), resps[c], new, inBuf[c], outBuf[c], audio)
        /\ OnlyInference(cmds[c], resps[c], Idle) => OnlyInference(Tail(cmds[c]), resps[c], new)
        /\ NoSwap(cmds[c], resps[c], Idle) => NoSwap(Tail(cmds[c]), resps[c], new)
        /\ OneSwap(cmds[c], resps[c], Idle, proc[c], voiceOf[c], target) =>
             OneSwap(Tail(cmds[c]), resps[c], new, proc[c], voiceOf[c], target)
    BY <1>2, <1>3, CommandIsTaken DEF new
  <1>5. /\ job'[c] = new /\ cmds'[c] = Tail(cmds[c]) /\ ChildTypes'
        /\ \A d \in Children \ {c} : cmds'[d] = cmds[d] /\ job'[d] = job[d]
    BY <1>1, <1>2, <1>4 DEF ChildTypes
  <1>6. /\ proc'[c] = "serving" /\ resps'[c] = resps[c] /\ outBuf'[c] = outBuf[c]
        /\ voiceOf'[c] = voiceOf[c] /\ UNCHANGED inBuf
        /\ \A d \in Children : /\ proc'[d] = proc[d] /\ resps'[d] = resps[d]
                               /\ outBuf'[d] = outBuf[d] /\ voiceOf'[d] = voiceOf[d]
    BY <1>2
  <1> QED
    BY <1>2, <1>4, <1>5, <1>6 DEF Moves, Alive

\* A child that has inferred answers with the inference or an error.
LEMMA InferMoves ==
  ASSUME IpcInv, NEW c \in Children, ChildInfers(c),
         UNCHANGED <<clientVars, engineVars, stopVars>>
  PROVE  Moves(c)
  <1> USE NoneIsNoChild
  <1>1. ChildTypes /\ ThreadTypes
    BY TypeParts DEF IpcInv
  <1>2. /\ proc[c] = "serving" /\ job[c].cmd = "infer" /\ job[c] # Idle
        /\ job' = [job EXCEPT ![c] = Idle] /\ UNCHANGED <<proc, cmds, inBuf, voiceOf>>
    BY Kinds DEF ChildInfers, Serving
  <1>3. Said(cmds[c], resps[c], job[c]) /\ target \in Voices /\ Idle \in Jobs
        /\ job[c].audio \in Audio
    BY <1>1, <1>2, AllSaid, Kinds DEF ThreadTypes, ChildTypes
  <1>4. PICK resp \in {"done", "error"} :
          /\ resps' = [resps EXCEPT ![c] = Append(resps[c], resp)]
          /\ resp = "done" => outBuf' = [outBuf EXCEPT ![c] = Answer(job[c].audio, voiceOf[c])]
          /\ resp = "error" => UNCHANGED outBuf
    BY DEF ChildInfers, Responds
  <1> DEFINE q == Append(resps[c], resp)
             new == outBuf'[c]
  <1>5. /\ Answer(job[c].audio, voiceOf[c]) \in [audio : Audio \cup {None}, voice : Voices]
        /\ Answer(job[c].audio, voiceOf[c]).audio = job[c].audio
    BY <1>1, <1>3 DEF Answer, ChildTypes
  <1>6. /\ outBuf' \in [Children -> [audio : Audio \cup {None}, voice : Voices]]
        /\ resp = "done" => new.audio = job[c].audio
        /\ resp = "error" => new = outBuf[c]
        /\ \A d \in Children \ {c} : outBuf'[d] = outBuf[d]
    <2>1. CASE resp = "done"
      <3> DEFINE a == Answer(job[c].audio, voiceOf[c])
      <3>1. outBuf' = [outBuf EXCEPT ![c] = a] /\ a.audio = job[c].audio
            /\ a \in [audio : Audio \cup {None}, voice : Voices]
        BY <1>4, <1>5, <2>1
      <3> HIDE DEF a
      <3>2. new = a
        BY <1>1, <3>1 DEF ChildTypes
      <3> QED
        BY <1>1, <2>1, <3>1, <3>2 DEF ChildTypes
    <2>2. CASE resp = "error"
      BY <1>1, <1>4, <2>2 DEF ChildTypes
    <2> QED
      BY <2>1, <2>2
  <1> HIDE DEF q, new
  <1>7. /\ q \in Seq(Responses) /\ ~NoInference(cmds[c], resps[c], job[c])
        /\ OneInference(cmds[c], resps[c], job[c], inBuf[c], outBuf[c], audio) =>
             /\ OneInference(cmds[c], q, Idle, inBuf[c], new, audio)
             /\ OnlyInference(cmds[c], resps[c], job[c]) => OnlyInference(cmds[c], q, Idle)
        /\ NoSwap(cmds[c], resps[c], job[c]) => NoSwap(cmds[c], q, Idle)
        /\ OneSwap(cmds[c], resps[c], job[c], proc[c], voiceOf[c], target) =>
             OneSwap(cmds[c], q, Idle, proc[c], voiceOf[c], target)
    BY <1>2, <1>3, <1>6, InferenceIsAnswered DEF q
  <1>8. /\ job'[c] = Idle /\ resps'[c] = q /\ outBuf'[c] = new /\ ChildTypes'
        /\ \A d \in Children \ {c} : resps'[d] = resps[d] /\ job'[d] = job[d]
    BY <1>1, <1>2, <1>3, <1>4, <1>6, <1>7 DEF ChildTypes, q, new
  <1>9. /\ proc'[c] = "serving" /\ cmds'[c] = cmds[c] /\ voiceOf'[c] = voiceOf[c]
        /\ UNCHANGED inBuf
        /\ \A d \in Children : /\ proc'[d] = proc[d] /\ cmds'[d] = cmds[d]
                               /\ voiceOf'[d] = voiceOf[d]
    BY <1>2
  <1> QED
    BY <1>2, <1>6, <1>7, <1>8, <1>9 DEF Moves, Alive

\* A child that has swapped says so, or that it could not.
LEMMA SwapMoves ==
  ASSUME IpcInv, NEW c \in Children, ChildSwaps(c),
         UNCHANGED <<clientVars, engineVars, stopVars>>
  PROVE  Moves(c)
  <1> USE NoneIsNoChild
  <1>1. ChildTypes /\ ThreadTypes
    BY TypeParts DEF IpcInv
  <1>2. /\ proc[c] = "serving" /\ job[c].cmd = "swap_model" /\ job[c] # Idle
        /\ job' = [job EXCEPT ![c] = Idle] /\ UNCHANGED <<proc, cmds, inBuf, outBuf>>
    BY Kinds DEF ChildSwaps, Serving
  <1>3. Said(cmds[c], resps[c], job[c]) /\ target \in Voices /\ Idle \in Jobs
        /\ job[c].path \in Voices
    BY <1>1, <1>2, AllSaid, Kinds DEF ThreadTypes, ChildTypes
  <1>4. PICK voice \in {job[c].path, voiceOf[c]}, resp \in {"swap_done", "error"} :
          /\ voiceOf' = [voiceOf EXCEPT ![c] = voice]
          /\ resps' = [resps EXCEPT ![c] = Append(resps[c], resp)]
          /\ resp = "swap_done" => voice = job[c].path
    <2>1. PICK voice \in {job[c].path, voiceOf[c]} :
            /\ voiceOf' = [voiceOf EXCEPT ![c] = voice]
            /\ \/ Responds(c, "error")
               \/ voice = job[c].path /\ Responds(c, "swap_done")
      BY DEF ChildSwaps
    <2>2. CASE Responds(c, "error")
      BY <2>1, <2>2 DEF Responds
    <2>3. CASE voice = job[c].path /\ Responds(c, "swap_done")
      BY <2>1, <2>3 DEF Responds
    <2> QED
      BY <2>1, <2>2, <2>3
  <1> DEFINE q == Append(resps[c], resp)
  <1> HIDE DEF q
  <1>5. /\ q \in Seq(Responses)
        /\ ~NoSwap(cmds[c], resps[c], job[c]) /\ ~OnlyInference(cmds[c], resps[c], job[c])
        /\ NoInference(cmds[c], resps[c], job[c]) => NoInference(cmds[c], q, Idle)
        /\ OneInference(cmds[c], resps[c], job[c], inBuf[c], outBuf[c], audio) =>
             OneInference(cmds[c], q, Idle, inBuf[c], outBuf[c], audio)
        /\ OneSwap(cmds[c], resps[c], job[c], proc[c], voiceOf[c], target) =>
             OneSwap(cmds[c], q, Idle, proc[c], voice, target)
    BY <1>2, <1>3, <1>4, SwapIsAnswered DEF q
  <1>6. /\ job'[c] = Idle /\ resps'[c] = q /\ voiceOf'[c] = voice /\ ChildTypes'
        /\ \A d \in Children \ {c} : /\ resps'[d] = resps[d] /\ job'[d] = job[d]
                                     /\ voiceOf'[d] = voiceOf[d]
    BY <1>1, <1>2, <1>3, <1>4, <1>5 DEF ChildTypes, q
  <1>7. /\ proc'[c] = "serving" /\ cmds'[c] = cmds[c] /\ outBuf'[c] = outBuf[c]
        /\ UNCHANGED inBuf
        /\ \A d \in Children : /\ proc'[d] = proc[d] /\ cmds'[d] = cmds[d]
                               /\ outBuf'[d] = outBuf[d]
    BY <1>2
  <1> QED
    BY <1>2, <1>5, <1>6, <1>7 DEF Moves, Alive

\* Whatever a child does keeps the invariant.
LEMMA ChildKeeps ==
  ASSUME IpcInv, NEW c \in Children, ChildStep(c) \/ ChildDies(c)
  PROVE  IpcInv'
  <1>1. UNCHANGED <<clientVars, engineVars, stopVars>>
    BY DEF ChildStep, ChildDies
  <1>2. CASE ChildLoads(c) \/ ChildTakes(c) \/ ChildInfers(c) \/ ChildSwaps(c)
    BY <1>1, <1>2, LoadMoves, TakeMoves, InferMoves, SwapMoves, MovesKeep
  <1>3. CASE ChildStops(c) \/ ChildSeesEof(c) \/ ChildDies(c)
    <2>1. /\ UNCHANGED <<resps, inBuf, outBuf>>
          /\ \/ proc[c] = "serving" /\ Ended(c)
             \/ proc[c] = "loading" /\ Gone(c, "crashed")
      BY <1>3 DEF ChildStops, ChildSeesEof, ChildDies, Free, Alive, Ended
    <2> QED
      BY <1>1, <2>1, EndMoves, CrashMoves, MovesKeep
  <1> QED
    BY <1>2, <1>3 DEF ChildStep

-----------------------------------------------------------------------------
(* Steps of the engine thread and of the teardown.                        *)

\* A chunk starts, or the thread ends.
LEMMA ChunkStartsKeeps ==
  ASSUME IpcInv, ChunkStarts
  PROVE  IpcInv'
  <1> USE NoneIsNoChild DEF childVars, clientVars, stopVars
  <1>1. ChildTypes /\ ClientTypes /\ ThreadTypes /\ OwnResult /\ LinkedWhileAlive
        /\ ChildrenKept /\ CallsRefer /\ OwnAnswers /\ OwnSwaps /\ StopOwns
    BY TypeParts DEF IpcInv
  <1>2. /\ e = "loop" /\ e' \in {"ended", "swaps"}
        /\ e' = "swaps" => t = "idle" /\ attempt' = "first" /\ audio' = 3 - audio
        /\ e' = "ended" => attempt' = attempt /\ audio' = audio
        /\ result' = NoAnswer
        /\ UNCHANGED <<childVars, clientVars, h, target, cfgVoice, aborted, stopVars>>
    BY DEF ChunkStarts
  <1>3. ChildTypes'
    BY <1>1, <1>2 DEF ChildTypes
  <1>4. ClientTypes'
    BY <1>1, <1>2 DEF ClientTypes, ThreadTypes
  <1>5. ThreadTypes'
    BY <1>1, <1>2 DEF ThreadTypes, NoAnswer, Answer, Audio
  <1>6. OwnResult'
    BY <1>1, <1>2 DEF OwnResult
  <1>7. LinkedWhileAlive'
    BY <1>1, <1>2 DEF LinkedWhileAlive, Alive
  <1>8. ChildrenKept'
    BY <1>1, <1>2 DEF ChildrenKept, Alive
  <1>9. CallsRefer'
    BY <1>1, <1>2 DEF CallsRefer, InStop, ClientTypes, ThreadTypes
  <1>10. OwnAnswers'
    BY <1>1, <1>2 DEF OwnAnswers, CallsRefer, ClientTypes
  <1>11. OwnSwaps'
    BY <1>1, <1>2 DEF OwnSwaps, Alive, ThreadTypes
  <1>12. StopOwns'
    BY <1>1, <1>2 DEF StopOwns, Crashed, CallsRefer, InStop, ClientTypes
  <1> QED
    BY <1>3, <1>4, <1>5, <1>6, <1>7, <1>8,
       <1>9, <1>10, <1>11, <1>12, TypePartsNext DEF IpcInv

\* A swap that is not answered aborts the engine.
LEMMA SwapTimesOutKeeps ==
  ASSUME IpcInv, SwapTimesOut
  PROVE  IpcInv'
  <1> USE NoneIsNoChild DEF childVars, clientVars, stopVars
  <1>1. ChildTypes /\ ClientTypes /\ ThreadTypes /\ OwnResult /\ LinkedWhileAlive
        /\ ChildrenKept /\ CallsRefer /\ OwnAnswers /\ OwnSwaps /\ StopOwns
    BY TypeParts DEF IpcInv
  <1>2. /\ e = "swapWait" /\ e' = "swaps" /\ aborted' = TRUE /\ cfgVoice' = cfgVoice
        /\ h' = None /\ target' = FirstVoice
        /\ UNCHANGED <<childVars, clientVars, attempt, audio, result, stopVars>>
    BY DEF SwapTimesOut, SwapFails, CallReturns
  <1>3. ChildTypes'
    BY <1>1, <1>2 DEF ChildTypes
  <1>4. ClientTypes'
    BY <1>1, <1>2 DEF ClientTypes, ThreadTypes
  <1>5. ThreadTypes'
    BY <1>1, <1>2 DEF ThreadTypes, ClientTypes, ChildTypes
  <1>6. OwnResult'
    BY <1>1, <1>2 DEF OwnResult
  <1>7. LinkedWhileAlive'
    BY <1>1, <1>2 DEF LinkedWhileAlive, Alive
  <1>8. ChildrenKept'
    BY <1>1, <1>2 DEF ChildrenKept, Alive
  <1>9. CallsRefer'
    BY <1>1, <1>2 DEF CallsRefer, InStop, ClientTypes, ThreadTypes
  <1>10. OwnAnswers'
    BY <1>1, <1>2 DEF OwnAnswers, CallsRefer, ClientTypes
  <1>11. OwnSwaps'
    BY <1>1, <1>2 DEF OwnSwaps, Alive, ThreadTypes
  <1>12. StopOwns'
    BY <1>1, <1>2 DEF StopOwns, Crashed, CallsRefer, InStop, ClientTypes
  <1> QED
    BY <1>3, <1>4, <1>5, <1>6, <1>7, <1>8,
       <1>9, <1>10, <1>11, <1>12, TypePartsNext DEF IpcInv

\* The swaps of a chunk are done.
LEMMA SwapsDoneKeeps ==
  ASSUME IpcInv, SwapsDone
  PROVE  IpcInv'
  <1> USE NoneIsNoChild DEF childVars, clientVars, stopVars
  <1>1. ChildTypes /\ ClientTypes /\ ThreadTypes /\ OwnResult /\ LinkedWhileAlive
        /\ ChildrenKept /\ CallsRefer /\ OwnAnswers /\ OwnSwaps /\ StopOwns
    BY TypeParts DEF IpcInv
  <1>2. /\ e = "swaps" /\ e' = "infer"
        /\ UNCHANGED <<childVars, clientVars, attempt, h, audio, target, cfgVoice, aborted,
                        result, stopVars>>
    BY DEF SwapsDone
  <1>3. ChildTypes'
    BY <1>1, <1>2 DEF ChildTypes
  <1>4. ClientTypes'
    BY <1>1, <1>2 DEF ClientTypes, ThreadTypes
  <1>5. ThreadTypes'
    BY <1>1, <1>2 DEF ThreadTypes, ClientTypes, ChildTypes
  <1>6. OwnResult'
    BY <1>1, <1>2 DEF OwnResult
  <1>7. LinkedWhileAlive'
    BY <1>1, <1>2 DEF LinkedWhileAlive, Alive
  <1>8. ChildrenKept'
    BY <1>1, <1>2 DEF ChildrenKept, Alive
  <1>9. CallsRefer'
    BY <1>1, <1>2 DEF CallsRefer, InStop, ClientTypes, ThreadTypes
  <1>10. OwnAnswers'
    BY <1>1, <1>2 DEF OwnAnswers, CallsRefer, ClientTypes
  <1>11. OwnSwaps'
    BY <1>1, <1>2 DEF OwnSwaps, Alive, ThreadTypes
  <1>12. StopOwns'
    BY <1>1, <1>2 DEF StopOwns, Crashed, CallsRefer, InStop, ClientTypes
  <1> QED
    BY <1>3, <1>4, <1>5, <1>6, <1>7, <1>8,
       <1>9, <1>10, <1>11, <1>12, TypePartsNext DEF IpcInv

\* The end of the child ends the wait.
LEMMA InferEofKeeps ==
  ASSUME IpcInv, InferEof
  PROVE  IpcInv'
  <1> USE NoneIsNoChild DEF childVars, clientVars, stopVars
  <1>1. ChildTypes /\ ClientTypes /\ ThreadTypes /\ OwnResult /\ LinkedWhileAlive
        /\ ChildrenKept /\ CallsRefer /\ OwnAnswers /\ OwnSwaps /\ StopOwns
    BY TypeParts DEF IpcInv
  <1>2. /\ e = "inferWait" /\ resps[h] = <<>> /\ ~Alive(h)
        /\ e' = IF attempt = "first" THEN "restart" ELSE "loop"
        /\ h' = None /\ target' = FirstVoice
        /\ UNCHANGED <<childVars, clientVars, attempt, audio, cfgVoice, aborted, result,
                        stopVars>>
    BY DEF InferEof, InferFails, CallReturns
  <1>3. /\ h \in Children
        /\ NoInference(cmds[h], resps[h], job[h])
    BY <1>1, <1>2, Silence DEF CallsRefer, ClientTypes, ChildrenKept
  <1>4. ChildTypes'
    BY <1>1, <1>2, <1>3 DEF ChildTypes
  <1>5. ClientTypes'
    BY <1>1, <1>2, <1>3 DEF ClientTypes, ThreadTypes
  <1>6. ThreadTypes'
    BY <1>1, <1>2, <1>3 DEF ThreadTypes, ClientTypes, ChildTypes
  <1>7. OwnResult'
    BY <1>1, <1>2, <1>3 DEF OwnResult
  <1>8. LinkedWhileAlive'
    BY <1>1, <1>2, <1>3 DEF LinkedWhileAlive, Alive
  <1>9. ChildrenKept'
    BY <1>1, <1>2, <1>3 DEF ChildrenKept, Alive
  <1>10. CallsRefer'
    BY <1>1, <1>2, <1>3 DEF CallsRefer, InStop, ClientTypes, ThreadTypes
  <1>11. OwnAnswers'
    BY <1>1, <1>2, <1>3 DEF OwnAnswers, CallsRefer, ClientTypes
  <1>12. OwnSwaps'
    BY <1>1, <1>2, <1>3 DEF OwnSwaps, Alive, ThreadTypes
  <1>13. StopOwns'
    BY <1>1, <1>2, <1>3 DEF StopOwns, Crashed, CallsRefer, InStop, ClientTypes
  <1> QED
    BY <1>4, <1>5, <1>6, <1>7, <1>8, <1>9,
       <1>10, <1>11, <1>12, <1>13, TypePartsNext DEF IpcInv

\* The teardown begins.
LEMMA TeardownBeginsKeeps ==
  ASSUME IpcInv, TeardownBegins
  PROVE  IpcInv'
  <1> USE NoneIsNoChild DEF childVars, clientVars, engineVars
  <1>1. ChildTypes /\ ClientTypes /\ ThreadTypes /\ OwnResult /\ LinkedWhileAlive
        /\ ChildrenKept /\ CallsRefer /\ OwnAnswers /\ OwnSwaps /\ StopOwns
    BY TypeParts DEF IpcInv
  <1>2. /\ t = "idle" /\ t' = "join"
        /\ UNCHANGED <<childVars, clientVars, engineVars, th, joined, dropped>>
    BY DEF TeardownBegins, TeardownGoto
  <1>3. ChildTypes'
    BY <1>1, <1>2 DEF ChildTypes
  <1>4. ClientTypes'
    BY <1>1, <1>2 DEF ClientTypes, ThreadTypes
  <1>5. ThreadTypes'
    BY <1>1, <1>2 DEF ThreadTypes, ClientTypes, ChildTypes
  <1>6. OwnResult'
    BY <1>1, <1>2 DEF OwnResult
  <1>7. LinkedWhileAlive'
    BY <1>1, <1>2 DEF LinkedWhileAlive, Alive
  <1>8. ChildrenKept'
    BY <1>1, <1>2 DEF ChildrenKept, Alive
  <1>9. CallsRefer'
    BY <1>1, <1>2 DEF CallsRefer, InStop, ClientTypes, ThreadTypes
  <1>10. OwnAnswers'
    BY <1>1, <1>2 DEF OwnAnswers, CallsRefer, ClientTypes
  <1>11. OwnSwaps'
    BY <1>1, <1>2 DEF OwnSwaps, Alive, ThreadTypes
  <1>12. StopOwns'
    BY <1>1, <1>2 DEF StopOwns, Crashed, CallsRefer, InStop, ClientTypes
  <1> QED
    BY <1>3, <1>4, <1>5, <1>6, <1>7, <1>8,
       <1>9, <1>10, <1>11, <1>12, TypePartsNext DEF IpcInv

\* The teardown joins the engine thread, or gives up on it.
LEMMA TeardownJoinsKeeps ==
  ASSUME IpcInv, TeardownJoins
  PROVE  IpcInv'
  <1> USE NoneIsNoChild DEF childVars, clientVars, engineVars
  <1>1. ChildTypes /\ ClientTypes /\ ThreadTypes /\ OwnResult /\ LinkedWhileAlive
        /\ ChildrenKept /\ CallsRefer /\ OwnAnswers /\ OwnSwaps /\ StopOwns
    BY TypeParts DEF IpcInv
  <1>2. /\ t = "join" /\ t' = "client" /\ joined' = (e = "ended")
        /\ UNCHANGED <<childVars, clientVars, engineVars, th, dropped>>
    BY DEF TeardownJoins, TeardownGoto
  <1>3. ChildTypes'
    BY <1>1, <1>2 DEF ChildTypes
  <1>4. ClientTypes'
    BY <1>1, <1>2 DEF ClientTypes, ThreadTypes
  <1>5. ThreadTypes'
    BY <1>1, <1>2 DEF ThreadTypes, ClientTypes, ChildTypes
  <1>6. OwnResult'
    BY <1>1, <1>2 DEF OwnResult
  <1>7. LinkedWhileAlive'
    BY <1>1, <1>2 DEF LinkedWhileAlive, Alive
  <1>8. ChildrenKept'
    BY <1>1, <1>2 DEF ChildrenKept, Alive
  <1>9. CallsRefer'
    BY <1>1, <1>2 DEF CallsRefer, InStop, ClientTypes, ThreadTypes
  <1>10. OwnAnswers'
    BY <1>1, <1>2 DEF OwnAnswers, CallsRefer, ClientTypes
  <1>11. OwnSwaps'
    BY <1>1, <1>2 DEF OwnSwaps, Alive, ThreadTypes
  <1>12. StopOwns'
    BY <1>1, <1>2 DEF StopOwns, Crashed, CallsRefer, InStop, ClientTypes
  <1> QED
    BY <1>3, <1>4, <1>5, <1>6, <1>7, <1>8,
       <1>9, <1>10, <1>11, <1>12, TypePartsNext DEF IpcInv

\* stop() looks for a child.
LEMMA StopLooksKeeps ==
  ASSUME IpcInv, StopLooks
  PROVE  IpcInv'
  <1> USE NoneIsNoChild DEF childVars, clientVars, engineVars
  <1>1. ChildTypes /\ ClientTypes /\ ThreadTypes /\ OwnResult /\ LinkedWhileAlive
        /\ ChildrenKept /\ CallsRefer /\ OwnAnswers /\ OwnSwaps /\ StopOwns
    BY TypeParts DEF IpcInv
  <1>2. /\ t = "client" /\ th' = handles
        /\ t' = IF handles = None THEN "drop" ELSE "ask"
        /\ UNCHANGED <<childVars, clientVars, engineVars, joined, dropped>>
    BY DEF StopLooks, TeardownGoto
  <1>3. ChildTypes'
    BY <1>1, <1>2 DEF ChildTypes
  <1>4. ClientTypes'
    BY <1>1, <1>2 DEF ClientTypes, ThreadTypes
  <1>5. ThreadTypes'
    BY <1>1, <1>2 DEF ThreadTypes, ClientTypes, ChildTypes
  <1>6. OwnResult'
    BY <1>1, <1>2 DEF OwnResult
  <1>7. LinkedWhileAlive'
    BY <1>1, <1>2 DEF LinkedWhileAlive, Alive
  <1>8. ChildrenKept'
    BY <1>1, <1>2 DEF ChildrenKept, Alive
  <1>9. CallsRefer'
    BY <1>1, <1>2 DEF CallsRefer, InStop, ClientTypes, ThreadTypes
  <1>10. OwnAnswers'
    BY <1>1, <1>2 DEF OwnAnswers, CallsRefer, ClientTypes
  <1>11. OwnSwaps'
    BY <1>1, <1>2 DEF OwnSwaps, Alive, ThreadTypes
  <1>12. StopOwns'
    BY <1>1, <1>2 DEF StopOwns, Crashed, CallsRefer, InStop, ClientTypes
  <1> QED
    BY <1>3, <1>4, <1>5, <1>6, <1>7, <1>8,
       <1>9, <1>10, <1>11, <1>12, TypePartsNext DEF IpcInv

\* stop() forgets whatever child there is.
LEMMA StopForgetsKeeps ==
  ASSUME IpcInv, StopForgets
  PROVE  IpcInv'
  <1> USE NoneIsNoChild DEF childVars, clientVars, engineVars
  <1>1. ChildTypes /\ ClientTypes /\ ThreadTypes /\ OwnResult /\ LinkedWhileAlive
        /\ ChildrenKept /\ CallsRefer /\ OwnAnswers /\ OwnSwaps /\ StopOwns
    BY TypeParts DEF IpcInv
  <1>2. /\ t = "forget" /\ t' = "drop" /\ handles' = None /\ th' = None
        /\ UNCHANGED <<childVars, closed, linked, engineVars, joined, dropped>>
    BY DEF StopForgets, TeardownGoto
  <1>3. ChildTypes'
    BY <1>1, <1>2 DEF ChildTypes
  <1>4. ClientTypes'
    BY <1>1, <1>2 DEF ClientTypes, ThreadTypes
  <1>5. ThreadTypes'
    BY <1>1, <1>2 DEF ThreadTypes, ClientTypes, ChildTypes
  <1>6. OwnResult'
    BY <1>1, <1>2 DEF OwnResult
  <1>7. LinkedWhileAlive'
    BY <1>1, <1>2 DEF LinkedWhileAlive, Alive
  <1>8. ChildrenKept'
    BY <1>1, <1>2 DEF ChildrenKept, Alive
  <1>9. CallsRefer'
    BY <1>1, <1>2 DEF CallsRefer, InStop, ClientTypes, ThreadTypes
  <1>10. OwnAnswers'
    BY <1>1, <1>2 DEF OwnAnswers, CallsRefer, ClientTypes
  <1>11. OwnSwaps'
    BY <1>1, <1>2 DEF OwnSwaps, Alive, ThreadTypes
  <1>12. StopOwns'
    BY <1>1, <1>2 DEF StopOwns, Crashed, CallsRefer, InStop, ClientTypes
  <1> QED
    BY <1>3, <1>4, <1>5, <1>6, <1>7, <1>8,
       <1>9, <1>10, <1>11, <1>12, TypePartsNext DEF IpcInv

\* The engine drops its client.
LEMMA ClientDroppedKeeps ==
  ASSUME IpcInv, ClientDropped
  PROVE  IpcInv'
  <1> USE NoneIsNoChild DEF childVars, clientVars, engineVars
  <1>1. ChildTypes /\ ClientTypes /\ ThreadTypes /\ OwnResult /\ LinkedWhileAlive
        /\ ChildrenKept /\ CallsRefer /\ OwnAnswers /\ OwnSwaps /\ StopOwns
    BY TypeParts DEF IpcInv
  <1>2. /\ t = "drop" /\ t' = "done" /\ dropped' = TRUE
        /\ UNCHANGED <<childVars, clientVars, engineVars, th, joined>>
    BY DEF ClientDropped, TeardownGoto
  <1>3. ChildTypes'
    BY <1>1, <1>2 DEF ChildTypes
  <1>4. ClientTypes'
    BY <1>1, <1>2 DEF ClientTypes, ThreadTypes
  <1>5. ThreadTypes'
    BY <1>1, <1>2 DEF ThreadTypes, ClientTypes, ChildTypes
  <1>6. OwnResult'
    BY <1>1, <1>2 DEF OwnResult
  <1>7. LinkedWhileAlive'
    BY <1>1, <1>2 DEF LinkedWhileAlive, Alive
  <1>8. ChildrenKept'
    BY <1>1, <1>2 DEF ChildrenKept, Alive
  <1>9. CallsRefer'
    BY <1>1, <1>2 DEF CallsRefer, InStop, ClientTypes, ThreadTypes
  <1>10. OwnAnswers'
    BY <1>1, <1>2 DEF OwnAnswers, CallsRefer, ClientTypes
  <1>11. OwnSwaps'
    BY <1>1, <1>2 DEF OwnSwaps, Alive, ThreadTypes
  <1>12. StopOwns'
    BY <1>1, <1>2 DEF StopOwns, Crashed, CallsRefer, InStop, ClientTypes
  <1> QED
    BY <1>3, <1>4, <1>5, <1>6, <1>7, <1>8,
       <1>9, <1>10, <1>11, <1>12, TypePartsNext DEF IpcInv

\* A swap that cannot be sent aborts the engine.
LEMMA SwapNotSentKeeps ==
  ASSUME IpcInv, NEW v \in Voices, SwapSend(v), ~Reachable(handles)
  PROVE  IpcInv'
  <1> USE NoneIsNoChild DEF childVars, clientVars, stopVars
  <1>1. ChildTypes /\ ClientTypes /\ ThreadTypes /\ OwnResult /\ LinkedWhileAlive
        /\ ChildrenKept /\ CallsRefer /\ OwnAnswers /\ OwnSwaps /\ StopOwns
    BY TypeParts DEF IpcInv
  <1>2. /\ e = "swaps" /\ e' = "swaps" /\ aborted' = TRUE /\ cfgVoice' = cfgVoice
        /\ UNCHANGED <<clientVars, childVars, h, target, attempt, audio, result, stopVars>>
    BY DEF SwapSend, SwapFails, childVars
  <1>3. ChildTypes'
    BY <1>1, <1>2 DEF ChildTypes
  <1>4. ClientTypes'
    BY <1>1, <1>2 DEF ClientTypes, ThreadTypes
  <1>5. ThreadTypes'
    BY <1>1, <1>2 DEF ThreadTypes, ClientTypes, ChildTypes
  <1>6. OwnResult'
    BY <1>1, <1>2 DEF OwnResult
  <1>7. LinkedWhileAlive'
    BY <1>1, <1>2 DEF LinkedWhileAlive, Alive
  <1>8. ChildrenKept'
    BY <1>1, <1>2 DEF ChildrenKept, Alive
  <1>9. CallsRefer'
    BY <1>1, <1>2 DEF CallsRefer, InStop, ClientTypes, ThreadTypes
  <1>10. OwnAnswers'
    BY <1>1, <1>2 DEF OwnAnswers, CallsRefer, ClientTypes
  <1>11. OwnSwaps'
    BY <1>1, <1>2 DEF OwnSwaps, Alive, ThreadTypes
  <1>12. StopOwns'
    BY <1>1, <1>2 DEF StopOwns, Crashed, CallsRefer, InStop, ClientTypes
  <1> QED
    BY <1>3, <1>4, <1>5, <1>6, <1>7, <1>8,
       <1>9, <1>10, <1>11, <1>12, TypePartsNext DEF IpcInv

\* A swap is sent to a child that has none.
LEMMA SwapSentKeeps ==
  ASSUME IpcInv, NEW v \in Voices, SwapSend(v), Reachable(handles)
  PROVE  IpcInv'
  <1> USE NoneIsNoChild DEF clientVars, stopVars
  <1>1. ChildTypes /\ ClientTypes /\ ThreadTypes /\ OwnResult /\ LinkedWhileAlive
        /\ ChildrenKept /\ CallsRefer /\ OwnAnswers /\ OwnSwaps /\ StopOwns
    BY TypeParts DEF IpcInv
  <1>2. /\ e = "swaps" /\ e' = "swapWait" /\ ~dropped /\ handles # None /\ Alive(handles)
        /\ h' = handles /\ target' = v
        /\ cmds' = [cmds EXCEPT ![handles] = Append(cmds[handles], Swap(v))]
        /\ UNCHANGED <<clientVars, proc, resps, inBuf, outBuf, voiceOf, job,
                       attempt, audio, result, aborted, cfgVoice, stopVars>>
    BY DEF SwapSend, Reachable, Sent
  <1>3. /\ handles \in Children /\ proc[handles] = "serving"
        /\ NoInference(cmds[handles], resps[handles], job[handles])
    BY <1>1, <1>2 DEF ClientTypes, CallsRefer, ChildrenKept, OwnAnswers, Alive
  <1>4. /\ cmds' \in [Children -> Seq(Commands)]
        /\ \A d \in Children \ {handles} : cmds'[d] = cmds[d]
        /\ NoInference(cmds'[handles], resps[handles], job[handles])
        /\ NoSwap(cmds[handles], resps[handles], job[handles]) =>
             OneSwap(cmds'[handles], resps[handles], job[handles], proc[handles],
                     voiceOf[handles], v)
    <2> DEFINE q == Append(cmds[handles], Swap(v))
    <2>1. Said(cmds[handles], resps[handles], job[handles])
      BY <1>1, <1>3, AllSaid
    <2>2. /\ q \in Seq(Commands)
          /\ NoInference(cmds[handles], resps[handles], job[handles]) =>
               NoInference(q, resps[handles], job[handles])
          /\ NoSwap(cmds[handles], resps[handles], job[handles]) =>
               OneSwap(q, resps[handles], job[handles], proc[handles], voiceOf[handles], v)
      BY <2>1, SwapIsAsked
    <2>3. cmds' = [cmds EXCEPT ![handles] = q]
      BY <1>2
    <2> HIDE DEF q
    <2> QED
      BY <1>1, <1>3, <2>2, <2>3 DEF ChildTypes
  <1>5. ~Has(cmds'[handles], {Infer})
    BY <1>4 DEF NoInference
  <1>6. ChildTypes'
    BY <1>1, <1>2, <1>3, <1>4, <1>5 DEF ChildTypes
  <1>7. ClientTypes'
    BY <1>1, <1>2, <1>3, <1>4, <1>5 DEF ClientTypes, ThreadTypes
  <1>8. ThreadTypes'
    BY <1>1, <1>2, <1>3, <1>4, <1>5 DEF ThreadTypes, ClientTypes, ChildTypes
  <1>9. OwnResult'
    BY <1>1, <1>2, <1>3, <1>4, <1>5 DEF OwnResult
  <1>10. LinkedWhileAlive'
    BY <1>1, <1>2, <1>3, <1>4, <1>5 DEF LinkedWhileAlive, Alive
  <1>11. ChildrenKept'
    BY <1>1, <1>2, <1>3, <1>4, <1>5 DEF ChildrenKept, Alive
  <1>12. CallsRefer'
    BY <1>1, <1>2, <1>3, <1>4, <1>5 DEF CallsRefer, InStop, ClientTypes, ThreadTypes
  <1>13. OwnAnswers'
    BY <1>1, <1>2, <1>3, <1>4, <1>5 DEF OwnAnswers, CallsRefer, ClientTypes
  <1>14. OwnSwaps'
    BY <1>1, <1>2, <1>3, <1>4, <1>5 DEF OwnSwaps, Alive, ThreadTypes
  <1>15. StopOwns'
    BY <1>1, <1>2, <1>3, <1>4, <1>5 DEF StopOwns, Crashed, CallsRefer, InStop, ClientTypes
  <1> QED
    BY <1>6, <1>7, <1>8, <1>9, <1>10, <1>11,
       <1>12, <1>13, <1>14, <1>15, TypePartsNext DEF IpcInv

\* What the client receives from a child.
LEMMA ReceivedFrom ==
  ASSUME ChildTypes, ThreadTypes, NEW c \in Children, resps[c] # <<>>
  PROVE  LET q == Tail(resps[c])
         IN  /\ q \in Seq(Responses) /\ Head(resps[c]) \in Responses
             /\ NoInference(cmds[c], resps[c], job[c]) => NoInference(cmds[c], q, job[c])
             /\ OneInference(cmds[c], resps[c], job[c], inBuf[c], outBuf[c], audio)
                /\ Head(resps[c]) = "done" =>
                  NoInference(cmds[c], q, job[c]) /\ outBuf[c].audio = audio
             /\ OnlyInference(cmds[c], resps[c], job[c]) =>
                  /\ Head(resps[c]) \in {"done", "error"}
                  /\ Head(resps[c]) = "error" => NoInference(cmds[c], q, job[c])
             /\ NoSwap(cmds[c], resps[c], job[c]) => NoSwap(cmds[c], q, job[c])
             /\ OneSwap(cmds[c], resps[c], job[c], proc[c], voiceOf[c], target) =>
                  /\ OneSwap(cmds[c], q, job[c], proc[c], voiceOf[c], target)
                  /\ Head(resps[c]) = "swap_done" =>
                       NoSwap(cmds[c], q, job[c]) /\ (proc[c] # "dead" => voiceOf[c] = target)
  <1> DEFINE asked == cmds[c]
             answers == resps[c]
             work == job[c]
             out == outBuf[c]
             process == proc[c]
             voice == voiceOf[c]
  <1>1. Said(asked, answers, work) /\ answers # <<>> /\ target \in Voices
    BY AllSaid DEF ThreadTypes
  <1> HIDE DEF asked, answers, work, out, process, voice
  <1>2. /\ Tail(answers) \in Seq(Responses) /\ Head(answers) \in Responses
        /\ NoInference(asked, answers, work) => NoInference(asked, Tail(answers), work)
        /\ OneInference(asked, answers, work, inBuf[c], out, audio) /\ Head(answers) = "done" =>
             NoInference(asked, Tail(answers), work) /\ out.audio = audio
        /\ OnlyInference(asked, answers, work) =>
             /\ Head(answers) \in {"done", "error"}
             /\ Head(answers) = "error" => NoInference(asked, Tail(answers), work)
        /\ NoSwap(asked, answers, work) => NoSwap(asked, Tail(answers), work)
    BY <1>1, AnswerIsReceived
  <1>3. OneSwap(asked, answers, work, process, voice, target) =>
          OneSwap(asked, Tail(answers), work, process, voice, target)
    BY <1>1, AnswerIsReceived
  <1>4. OneSwap(asked, answers, work, process, voice, target) /\ Head(answers) = "swap_done" =>
          NoSwap(asked, Tail(answers), work)
    BY <1>1, AnswerIsReceived
  <1>5. OneSwap(asked, answers, work, process, voice, target) /\ Head(answers) = "swap_done" =>
          (process # "dead" => voice = target)
    <2>1. Head(answers) = "swap_done" => Has(answers, {"swap_done"})
      BY <1>1, TakenFirst DEF Said
    <2> QED
      BY <2>1 DEF OneSwap
  <1> QED
    BY <1>2, <1>3, <1>4, <1>5 DEF asked, answers, work, out, process, voice

\* An answer to a swap, or to another request, is received.
LEMMA SwapReceivesKeeps ==
  ASSUME IpcInv, SwapReceives
  PROVE  IpcInv'
  <1> USE NoneIsNoChild DEF clientVars, stopVars
  <1>1. ChildTypes /\ ClientTypes /\ ThreadTypes /\ OwnResult /\ LinkedWhileAlive
        /\ ChildrenKept /\ CallsRefer /\ OwnAnswers /\ OwnSwaps /\ StopOwns
    BY TypeParts DEF IpcInv
  <1>2. /\ e = "swapWait" /\ resps[h] # <<>> /\ resps' = [resps EXCEPT ![h] = Tail(resps[h])]
        /\ \/ /\ Head(resps[h]) = "swap_done" /\ cfgVoice' = target /\ e' = "swaps"
              /\ h' = None /\ target' = FirstVoice /\ aborted' = aborted
           \/ /\ aborted' = TRUE /\ cfgVoice' = cfgVoice /\ e' = "swaps"
              /\ h' = None /\ target' = FirstVoice
           \/ UNCHANGED <<e, cfgVoice, aborted, h, target>>
        /\ UNCHANGED <<clientVars, proc, cmds, inBuf, outBuf, voiceOf, job,
                       attempt, audio, result, stopVars>>
    BY DEF SwapReceives, Received, SwapOk, SwapFails, CallReturns
  <1>3. /\ h \in Children /\ proc[h] # "unborn" /\ proc[h] # "loading" /\ attempt = "first"
        /\ handles # None => handles = h
    BY <1>1, <1>2 DEF ClientTypes, CallsRefer, ChildrenKept
  <1>4. /\ resps' \in [Children -> Seq(Responses)]
        /\ \A d \in Children \ {h} : resps'[d] = resps[d]
        /\ NoInference(cmds[h], resps[h], job[h]) => NoInference(cmds[h], resps'[h], job[h])
        /\ OneSwap(cmds[h], resps[h], job[h], proc[h], voiceOf[h], target) =>
             /\ OneSwap(cmds[h], resps'[h], job[h], proc[h], voiceOf[h], target)
             /\ Head(resps[h]) = "swap_done" =>
                  /\ NoSwap(cmds[h], resps'[h], job[h])
                  /\ proc[h] # "dead" => voiceOf[h] = target
    <2> DEFINE q == Tail(resps[h])
    <2>2. /\ q \in Seq(Responses) /\ Head(resps[h]) \in Responses
          /\ NoInference(cmds[h], resps[h], job[h]) => NoInference(cmds[h], q, job[h])
          /\ OneInference(cmds[h], resps[h], job[h], inBuf[h], outBuf[h], audio)
             /\ Head(resps[h]) = "done" =>
               NoInference(cmds[h], q, job[h]) /\ outBuf[h].audio = audio
          /\ OnlyInference(cmds[h], resps[h], job[h]) =>
               /\ Head(resps[h]) \in {"done", "error"}
               /\ Head(resps[h]) = "error" => NoInference(cmds[h], q, job[h])
          /\ NoSwap(cmds[h], resps[h], job[h]) => NoSwap(cmds[h], q, job[h])
          /\ OneSwap(cmds[h], resps[h], job[h], proc[h], voiceOf[h], target) =>
               /\ OneSwap(cmds[h], q, job[h], proc[h], voiceOf[h], target)
               /\ Head(resps[h]) = "swap_done" =>
                    NoSwap(cmds[h], q, job[h]) /\ (proc[h] # "dead" => voiceOf[h] = target)
      BY <1>1, <1>2, <1>3, ReceivedFrom
    <2>3. resps' = [resps EXCEPT ![h] = q]
      BY <1>2
    <2> HIDE DEF q
    <2> QED
      BY <1>1, <1>3, <2>2, <2>3 DEF ChildTypes
  <1>5. ChildTypes'
    BY <1>1, <1>2, <1>3, <1>4 DEF ChildTypes
  <1>6. ClientTypes'
    BY <1>1, <1>2, <1>3, <1>4 DEF ClientTypes, ThreadTypes
  <1>7. ThreadTypes'
    BY <1>1, <1>2, <1>3, <1>4 DEF ThreadTypes, ClientTypes, ChildTypes
  <1>8. OwnResult'
    BY <1>1, <1>2, <1>3, <1>4 DEF OwnResult
  <1>9. LinkedWhileAlive'
    BY <1>1, <1>2, <1>3, <1>4 DEF LinkedWhileAlive, Alive
  <1>10. ChildrenKept'
    BY <1>1, <1>2, <1>3, <1>4 DEF ChildrenKept, Alive
  <1>11. CallsRefer'
    BY <1>1, <1>2, <1>3, <1>4 DEF CallsRefer, InStop, ClientTypes, ThreadTypes
  <1>12. OwnAnswers'
    BY <1>1, <1>2, <1>3, <1>4 DEF OwnAnswers, CallsRefer, ClientTypes
  <1>13. OwnSwaps'
    BY <1>1, <1>2, <1>3, <1>4 DEF OwnSwaps, Alive, ThreadTypes
  <1>14. StopOwns'
    BY <1>1, <1>2, <1>3, <1>4 DEF StopOwns, Crashed, CallsRefer, InStop, ClientTypes
  <1> QED
    BY <1>5, <1>6, <1>7, <1>8, <1>9, <1>10,
       <1>11, <1>12, <1>13, <1>14, TypePartsNext DEF IpcInv

\* An inference that cannot be asked for.
LEMMA InferNotSentKeeps ==
  ASSUME IpcInv, InferSend, dropped \/ ~Reachable(handles)
  PROVE  IpcInv'
  <1> USE NoneIsNoChild DEF childVars, clientVars, stopVars
  <1>1. ChildTypes /\ ClientTypes /\ ThreadTypes /\ OwnResult /\ LinkedWhileAlive
        /\ ChildrenKept /\ CallsRefer /\ OwnAnswers /\ OwnSwaps /\ StopOwns
    BY TypeParts DEF IpcInv
  <1>2. /\ e = "infer"
        /\ e' = IF ~dropped /\ attempt = "first" THEN "restart" ELSE "loop"
        /\ UNCHANGED <<clientVars, childVars, h, target, cfgVoice, aborted, attempt, audio,
                       result, stopVars>>
    BY DEF InferSend, InferFails, childVars
  <1>3. ChildTypes'
    BY <1>1, <1>2 DEF ChildTypes
  <1>4. ClientTypes'
    BY <1>1, <1>2 DEF ClientTypes, ThreadTypes
  <1>5. ThreadTypes'
    BY <1>1, <1>2 DEF ThreadTypes, ClientTypes, ChildTypes
  <1>6. OwnResult'
    BY <1>1, <1>2 DEF OwnResult
  <1>7. LinkedWhileAlive'
    BY <1>1, <1>2 DEF LinkedWhileAlive, Alive
  <1>8. ChildrenKept'
    BY <1>1, <1>2 DEF ChildrenKept, Alive
  <1>9. CallsRefer'
    BY <1>1, <1>2 DEF CallsRefer, InStop, ClientTypes, ThreadTypes
  <1>10. OwnAnswers'
    BY <1>1, <1>2 DEF OwnAnswers, CallsRefer, ClientTypes
  <1>11. OwnSwaps'
    BY <1>1, <1>2 DEF OwnSwaps, Alive, ThreadTypes
  <1>12. StopOwns'
    BY <1>1, <1>2 DEF StopOwns, Crashed, CallsRefer, InStop, ClientTypes
  <1> QED
    BY <1>3, <1>4, <1>5, <1>6, <1>7, <1>8,
       <1>9, <1>10, <1>11, <1>12, TypePartsNext DEF IpcInv

\* An inference is asked for of a child that has none.
LEMMA InferSentKeeps ==
  ASSUME IpcInv, InferSend, ~dropped, Reachable(handles)
  PROVE  IpcInv'
  <1> USE NoneIsNoChild DEF clientVars, stopVars
  <1>1. ChildTypes /\ ClientTypes /\ ThreadTypes /\ OwnResult /\ LinkedWhileAlive
        /\ ChildrenKept /\ CallsRefer /\ OwnAnswers /\ OwnSwaps /\ StopOwns
    BY TypeParts DEF IpcInv
  <1>2. /\ e = "infer" /\ e' = "inferWait" /\ ~dropped /\ handles # None /\ Alive(handles)
        /\ h' = handles /\ inBuf' = [inBuf EXCEPT ![handles] = audio]
        /\ cmds' = [cmds EXCEPT ![handles] = Append(cmds[handles], Infer)]
        /\ UNCHANGED <<clientVars, proc, resps, outBuf, voiceOf, job, attempt, audio,
                       target, cfgVoice, aborted, result, stopVars>>
    BY DEF InferSend, Reachable, Sent
  <1>3. /\ handles \in Children /\ proc[handles] = "serving" /\ audio \in Audio
        /\ audio # None /\ NoInference(cmds[handles], resps[handles], job[handles])
    BY <1>1, <1>2 DEF ClientTypes, CallsRefer, ChildrenKept, OwnAnswers, Alive, ThreadTypes,
               Audio, None
  <1>4. /\ cmds' \in [Children -> Seq(Commands)]
        /\ inBuf' \in [Children -> Audio \cup {None}] /\ inBuf'[handles] = audio
        /\ \A d \in Children \ {handles} : cmds'[d] = cmds[d] /\ inBuf'[d] = inBuf[d]
        /\ OneInference(cmds'[handles], resps[handles], job[handles], audio,
                        outBuf[handles], audio)
        /\ ~Has(cmds[handles], Commands \ {Stop}) /\ job[handles] = Idle
           /\ resps[handles] = <<>> => OnlyInference(cmds'[handles], resps[handles], job[handles])
        /\ NoSwap(cmds[handles], resps[handles], job[handles]) =>
             NoSwap(cmds'[handles], resps[handles], job[handles])
    <2> DEFINE q == Append(cmds[handles], Infer)
    <2>1. Said(cmds[handles], resps[handles], job[handles])
      BY <1>1, <1>3, AllSaid
    <2>2. /\ q \in Seq(Commands)
          /\ NoInference(cmds[handles], resps[handles], job[handles]) =>
               OneInference(q, resps[handles], job[handles], audio, outBuf[handles], audio)
          /\ ~Has(cmds[handles], Commands \ {Stop}) /\ job[handles] = Idle
             /\ resps[handles] = <<>> => OnlyInference(q, resps[handles], job[handles])
          /\ NoSwap(cmds[handles], resps[handles], job[handles]) =>
               NoSwap(q, resps[handles], job[handles])
      BY <2>1, InferIsAsked
    <2>3. cmds' = [cmds EXCEPT ![handles] = q] /\ inBuf' = [inBuf EXCEPT ![handles] = audio]
      BY <1>2
    <2> HIDE DEF q
    <2> QED
      BY <1>1, <1>3, <2>2, <2>3 DEF ChildTypes
  <1>5. ChildTypes'
    BY <1>1, <1>2, <1>3, <1>4 DEF ChildTypes
  <1>6. ClientTypes'
    BY <1>1, <1>2, <1>3, <1>4 DEF ClientTypes, ThreadTypes
  <1>7. ThreadTypes'
    BY <1>1, <1>2, <1>3, <1>4 DEF ThreadTypes, ClientTypes, ChildTypes
  <1>8. OwnResult'
    BY <1>1, <1>2, <1>3, <1>4 DEF OwnResult
  <1>9. LinkedWhileAlive'
    BY <1>1, <1>2, <1>3, <1>4 DEF LinkedWhileAlive, Alive
  <1>10. ChildrenKept'
    BY <1>1, <1>2, <1>3, <1>4 DEF ChildrenKept, Alive
  <1>11. CallsRefer'
    BY <1>1, <1>2, <1>3, <1>4 DEF CallsRefer, InStop, ClientTypes, ThreadTypes
  <1>12. OwnAnswers'
    BY <1>1, <1>2, <1>3, <1>4 DEF OwnAnswers, CallsRefer, ClientTypes
  <1>13. OwnSwaps'
    BY <1>1, <1>2, <1>3, <1>4 DEF OwnSwaps, Alive, ThreadTypes
  <1>14. StopOwns'
    BY <1>1, <1>2, <1>3, <1>4 DEF StopOwns, Crashed, CallsRefer, InStop, ClientTypes
  <1> QED
    BY <1>5, <1>6, <1>7, <1>8, <1>9, <1>10,
       <1>11, <1>12, <1>13, <1>14, TypePartsNext DEF IpcInv

\* The answer to an inference is received.
LEMMA InferReceivesKeeps ==
  ASSUME IpcInv, InferReceives
  PROVE  IpcInv'
  <1> USE NoneIsNoChild DEF clientVars, stopVars
  <1>1. ChildTypes /\ ClientTypes /\ ThreadTypes /\ OwnResult /\ LinkedWhileAlive
        /\ ChildrenKept /\ CallsRefer /\ OwnAnswers /\ OwnSwaps /\ StopOwns
    BY TypeParts DEF IpcInv
  <1>2. /\ e = "inferWait" /\ resps[h] # <<>> /\ resps' = [resps EXCEPT ![h] = Tail(resps[h])]
        /\ \/ Head(resps[h]) = "done" /\ e' = "loop" /\ result' = outBuf[h]
           \/ /\ Head(resps[h]) # "done" /\ result' = result
              /\ e' = IF attempt = "first" THEN "restart" ELSE "loop"
        /\ h' = None /\ target' = FirstVoice
        /\ UNCHANGED <<clientVars, proc, cmds, inBuf, outBuf, voiceOf, job, attempt,
                       audio, cfgVoice, aborted, stopVars>>
    BY DEF InferReceives, Received, ItsAnswer, InferFails, CallReturns
  <1>3. /\ h \in Children /\ proc[h] # "unborn" /\ proc[h] # "loading"
        /\ outBuf[h] \in [audio : Audio \cup {None}, voice : Voices]
    BY <1>1, <1>2 DEF ClientTypes, CallsRefer, ChildrenKept, ChildTypes
  <1>4. /\ resps' \in [Children -> Seq(Responses)]
        /\ \A d \in Children \ {h} : resps'[d] = resps[d]
        /\ Head(resps[h]) = "done" => outBuf[h].audio = audio
        /\ e' = "loop" => NoInference(cmds[h], resps'[h], job[h])
        /\ NoSwap(cmds[h], resps[h], job[h]) => NoSwap(cmds[h], resps'[h], job[h])
    <2> DEFINE q == Tail(resps[h])
    <2>2. /\ q \in Seq(Responses) /\ Head(resps[h]) \in Responses
          /\ NoInference(cmds[h], resps[h], job[h]) => NoInference(cmds[h], q, job[h])
          /\ OneInference(cmds[h], resps[h], job[h], inBuf[h], outBuf[h], audio)
             /\ Head(resps[h]) = "done" =>
               NoInference(cmds[h], q, job[h]) /\ outBuf[h].audio = audio
          /\ OnlyInference(cmds[h], resps[h], job[h]) =>
               /\ Head(resps[h]) \in {"done", "error"}
               /\ Head(resps[h]) = "error" => NoInference(cmds[h], q, job[h])
          /\ NoSwap(cmds[h], resps[h], job[h]) => NoSwap(cmds[h], q, job[h])
          /\ OneSwap(cmds[h], resps[h], job[h], proc[h], voiceOf[h], target) =>
               /\ OneSwap(cmds[h], q, job[h], proc[h], voiceOf[h], target)
               /\ Head(resps[h]) = "swap_done" =>
                    NoSwap(cmds[h], q, job[h]) /\ (proc[h] # "dead" => voiceOf[h] = target)
      BY <1>1, <1>2, <1>3, ReceivedFrom
    <2>3. resps' = [resps EXCEPT ![h] = q]
      BY <1>2
    <2>4. /\ OneInference(cmds[h], resps[h], job[h], inBuf[h], outBuf[h], audio)
          /\ attempt # "first" => OnlyInference(cmds[h], resps[h], job[h])
      BY <1>1, <1>2 DEF OwnAnswers
    <2> HIDE DEF q
    <2> QED
      BY <1>1, <1>2, <1>3, <2>2, <2>3, <2>4 DEF ChildTypes
  <1>5. ChildTypes'
    BY <1>1, <1>2, <1>3, <1>4 DEF ChildTypes
  <1>6. ClientTypes'
    BY <1>1, <1>2, <1>3, <1>4 DEF ClientTypes, ThreadTypes
  <1>7. ThreadTypes'
    BY <1>1, <1>2, <1>3, <1>4 DEF ThreadTypes, ClientTypes, ChildTypes
  <1>8. OwnResult'
    BY <1>1, <1>2, <1>4 DEF OwnResult
  <1>9. LinkedWhileAlive'
    BY <1>1, <1>2, <1>3, <1>4 DEF LinkedWhileAlive, Alive
  <1>10. ChildrenKept'
    BY <1>1, <1>2, <1>3, <1>4 DEF ChildrenKept, Alive
  <1>11. CallsRefer'
    BY <1>1, <1>2, <1>3, <1>4 DEF CallsRefer, InStop, ClientTypes, ThreadTypes
  <1>12. OwnAnswers'
    BY <1>1, <1>2, <1>3, <1>4 DEF OwnAnswers, CallsRefer, ClientTypes
  <1>13. OwnSwaps'
    BY <1>1, <1>2, <1>3, <1>4 DEF OwnSwaps, Alive, ThreadTypes
  <1>14. StopOwns'
    BY <1>1, <1>2, <1>3, <1>4 DEF StopOwns, Crashed, CallsRefer, InStop, ClientTypes
  <1> QED
    BY <1>5, <1>6, <1>7, <1>8, <1>9, <1>10,
       <1>11, <1>12, <1>13, <1>14, TypePartsNext DEF IpcInv

\* A restart that finds nothing to tear down.
LEMMA RestartGivesUpKeeps ==
  ASSUME IpcInv, RestartTearsDown, dropped \/ handles = None
  PROVE  IpcInv'
  <1> USE NoneIsNoChild DEF childVars, clientVars, stopVars
  <1>1. ChildTypes /\ ClientTypes /\ ThreadTypes /\ OwnResult /\ LinkedWhileAlive
        /\ ChildrenKept /\ CallsRefer /\ OwnAnswers /\ OwnSwaps /\ StopOwns
    BY TypeParts DEF IpcInv
  <1>2. /\ e = "restart"
        /\ \/ e' = "loop" /\ attempt' = attempt /\ dropped
           \/ e' = "spawn" /\ attempt' = "second" /\ handles = None
        /\ UNCHANGED <<childVars, clientVars, h, audio, target, cfgVoice, aborted, result,
                       stopVars>>
    BY DEF RestartTearsDown
  <1>3. ChildTypes'
    BY <1>1, <1>2 DEF ChildTypes
  <1>4. ClientTypes'
    BY <1>1, <1>2 DEF ClientTypes, ThreadTypes
  <1>5. ThreadTypes'
    BY <1>1, <1>2 DEF ThreadTypes, ClientTypes, ChildTypes
  <1>6. OwnResult'
    BY <1>1, <1>2 DEF OwnResult
  <1>7. LinkedWhileAlive'
    BY <1>1, <1>2 DEF LinkedWhileAlive, Alive
  <1>8. ChildrenKept'
    BY <1>1, <1>2 DEF ChildrenKept, Alive
  <1>9. CallsRefer'
    BY <1>1, <1>2 DEF CallsRefer, InStop, ClientTypes, ThreadTypes
  <1>10. OwnAnswers'
    BY <1>1, <1>2 DEF OwnAnswers, CallsRefer, ClientTypes
  <1>11. OwnSwaps'
    BY <1>1, <1>2 DEF OwnSwaps, Alive, ThreadTypes
  <1>12. StopOwns'
    BY <1>1, <1>2 DEF StopOwns, Crashed, CallsRefer, InStop, ClientTypes
  <1> QED
    BY <1>3, <1>4, <1>5, <1>6, <1>7, <1>8,
       <1>9, <1>10, <1>11, <1>12, TypePartsNext DEF IpcInv

\* A restart ends the child and lets go of it.
LEMMA RestartTearsDownKeeps ==
  ASSUME IpcInv, RestartTearsDown, ~dropped, handles # None
  PROVE  IpcInv'
  <1> USE NoneIsNoChild DEF stopVars
  <1>1. ChildTypes /\ ClientTypes /\ ThreadTypes /\ OwnResult /\ LinkedWhileAlive
        /\ ChildrenKept /\ CallsRefer /\ OwnAnswers /\ OwnSwaps /\ StopOwns
    BY TypeParts DEF IpcInv
  <1>2. /\ e = "restart" /\ e' = "spawn" /\ attempt' = "second" /\ handles # None
        /\ Ended(handles) /\ Disposed(handles) /\ handles' = None
        /\ UNCHANGED <<h, audio, target, cfgVoice, aborted, result, stopVars>>
    BY DEF RestartTearsDown
  <1>3. handles \in Children /\ ~Has(<<>>, {Infer}) /\ Idle \in Jobs
    BY <1>1, <1>2, NothingSaid, Kinds DEF ClientTypes
  <1>4. /\ \A d \in Children \ {handles} :
             /\ proc'[d] = proc[d] /\ cmds'[d] = cmds[d] /\ job'[d] = job[d]
             /\ voiceOf'[d] = voiceOf[d]
        /\ proc'[handles] = "dead" /\ cmds'[handles] = <<>> /\ job'[handles] = Idle
        /\ voiceOf'[handles] = FirstVoice
    BY <1>1, <1>2, <1>3 DEF Ended, Gone, ChildTypes
  <1>5. /\ \A d \in Children \ {handles} :
             resps'[d] = resps[d] /\ inBuf'[d] = inBuf[d] /\ outBuf'[d] = outBuf[d]
        /\ resps'[handles] = <<>> /\ inBuf'[handles] = None /\ outBuf'[handles] = NoAnswer
        /\ linked' = linked \ {handles} /\ closed' = closed \cup {handles}
    BY <1>1, <1>2, <1>3 DEF Disposed, ChildTypes
  <1>6. ChildTypes'
    <2>1. NoAnswer \in [audio : Audio \cup {None}, voice : Voices]
      BY DEF NoAnswer, Answer
    <2> QED
      BY <1>1, <1>2, <1>3, <2>1 DEF ChildTypes, Ended, Gone, Disposed
  <1>7. ClientTypes'
    BY <1>1, <1>2, <1>3, <1>4, <1>5 DEF ClientTypes, ThreadTypes
  <1>8. ThreadTypes'
    BY <1>1, <1>2, <1>3, <1>4, <1>5 DEF ThreadTypes, ClientTypes, ChildTypes
  <1>9. OwnResult'
    BY <1>1, <1>2, <1>3, <1>4, <1>5 DEF OwnResult
  <1>10. LinkedWhileAlive'
    BY <1>1, <1>2, <1>3, <1>4, <1>5 DEF LinkedWhileAlive, Alive
  <1>11. ChildrenKept'
    <2> SUFFICES ASSUME NEW d \in Children
                 PROVE  /\ ~Alive(d)' => cmds'[d] = <<>> /\ job'[d] = Idle
                                          /\ voiceOf'[d] = FirstVoice
                        /\ proc'[d] = "unborn" => d \notin {handles', h', th'} /\ resps'[d] = <<>>
                        /\ proc'[d] = "loading" => e' = "ready" /\ h' = d
                        /\ Has(cmds'[d], {Infer}) => inBuf'[d] # None
      BY DEF ChildrenKept
    <2>1. CASE d = handles
      BY <1>1, <1>2, <1>3, <1>4, <1>5, <2>1 DEF Alive
    <2>2. CASE d # handles
      BY <1>1, <1>2, <1>3, <1>4, <1>5, <2>2 DEF ChildrenKept, Alive, CallsRefer
    <2> QED
      BY <2>1, <2>2
  <1>12. CallsRefer'
    BY <1>1, <1>2, <1>3, <1>4, <1>5 DEF CallsRefer, InStop, ClientTypes, ThreadTypes
  <1>13. OwnAnswers'
    BY <1>1, <1>2, <1>3, <1>4, <1>5 DEF OwnAnswers, CallsRefer, ClientTypes
  <1>14. OwnSwaps'
    BY <1>1, <1>2, <1>3, <1>4, <1>5 DEF OwnSwaps, Alive, ThreadTypes
  <1>15. StopOwns'
    BY <1>1, <1>2, <1>3, <1>4, <1>5 DEF StopOwns, Crashed, CallsRefer, InStop, ClientTypes
  <1> QED
    BY <1>6, <1>7, <1>8, <1>9, <1>10, <1>11,
       <1>12, <1>13, <1>14, <1>15, TypePartsNext DEF IpcInv

\* No further child can be spawned.
LEMMA SpawnNoneKeeps ==
  ASSUME IpcInv, Spawn, \A c \in Children : proc[c] # "unborn"
  PROVE  IpcInv'
  <1> USE NoneIsNoChild DEF childVars, clientVars, stopVars
  <1>1. ChildTypes /\ ClientTypes /\ ThreadTypes /\ OwnResult /\ LinkedWhileAlive
        /\ ChildrenKept /\ CallsRefer /\ OwnAnswers /\ OwnSwaps /\ StopOwns
    BY TypeParts DEF IpcInv
  <1>2. /\ e = "spawn" /\ e' = IF attempt = "start" THEN "ended" ELSE "loop"
        /\ UNCHANGED <<childVars, clientVars, h, attempt, audio, target, cfgVoice, aborted,
                       result, stopVars>>
    BY DEF Spawn, AfterFailedSpawn, childVars, clientVars
  <1>3. ChildTypes'
    BY <1>1, <1>2 DEF ChildTypes
  <1>4. ClientTypes'
    BY <1>1, <1>2 DEF ClientTypes, ThreadTypes
  <1>5. ThreadTypes'
    BY <1>1, <1>2 DEF ThreadTypes, ClientTypes, ChildTypes
  <1>6. OwnResult'
    BY <1>1, <1>2 DEF OwnResult
  <1>7. LinkedWhileAlive'
    BY <1>1, <1>2 DEF LinkedWhileAlive, Alive
  <1>8. ChildrenKept'
    BY <1>1, <1>2 DEF ChildrenKept, Alive
  <1>9. CallsRefer'
    BY <1>1, <1>2 DEF CallsRefer, InStop, ClientTypes, ThreadTypes
  <1>10. OwnAnswers'
    BY <1>1, <1>2 DEF OwnAnswers, CallsRefer, ClientTypes
  <1>11. OwnSwaps'
    BY <1>1, <1>2 DEF OwnSwaps, Alive, ThreadTypes
  <1>12. StopOwns'
    BY <1>1, <1>2 DEF StopOwns, Crashed, CallsRefer, InStop, ClientTypes
  <1> QED
    BY <1>3, <1>4, <1>5, <1>6, <1>7, <1>8,
       <1>9, <1>10, <1>11, <1>12, TypePartsNext DEF IpcInv

\* A child is spawned.
LEMMA SpawnOneKeeps ==
  ASSUME IpcInv, Spawn, ~\A c \in Children : proc[c] # "unborn"
  PROVE  IpcInv'
  <1> USE NoneIsNoChild DEF clientVars, stopVars
  <1>1. ChildTypes /\ ClientTypes /\ ThreadTypes /\ OwnResult /\ LinkedWhileAlive
        /\ ChildrenKept /\ CallsRefer /\ OwnAnswers /\ OwnSwaps /\ StopOwns
    BY TypeParts DEF IpcInv
  <1>2. /\ e = "spawn" /\ e' = "ready"
        /\ UNCHANGED <<cmds, resps, inBuf, outBuf, voiceOf, job, handles, closed,
                       attempt, audio, target, cfgVoice, aborted, result, stopVars>>
    BY DEF Spawn
  <1>3. /\ h' \in Children /\ proc[h'] = "unborn" /\ proc' = [proc EXCEPT ![h'] = "loading"]
        /\ linked' = linked \cup {h'} /\ \A d \in 1 .. (h' - 1) : proc[d] # "unborn"
    BY DEF Spawn
  <1>4. /\ proc'[h'] = "loading" /\ \A d \in Children \ {h'} : proc'[d] = proc[d]
        /\ handles = None /\ h = None
        /\ h' # th /\ cmds[h'] = <<>> /\ job[h'] = Idle /\ resps[h'] = <<>>
        /\ voiceOf[h'] = FirstVoice
        /\ \A d \in Children : proc[d] # "loading"
        /\ proc'[1] # "unborn" /\ (h' = 1 => cfgVoice = FirstVoice)
    <2>1. proc'[h'] = "loading" /\ \A d \in Children \ {h'} : proc'[d] = proc[d]
      BY <1>1, <1>3 DEF ChildTypes
    <2>2. /\ handles = None /\ h = None
          /\ h' # th /\ cmds[h'] = <<>> /\ job[h'] = Idle /\ resps[h'] = <<>>
          /\ voiceOf[h'] = FirstVoice
          /\ \A d \in Children : proc[d] # "loading"
      BY <1>1, <1>2, <1>3 DEF CallsRefer, ChildrenKept, Alive
    <2> DEFINE new == h'
    <2>0. new \in 1 .. MaxChildren /\ MaxChildren \in Nat
      BY <1>3, ChildrenAssumption DEF Children
    <2> HIDE DEF new
    <2>5. new # 1 => 1 \in 1 .. (new - 1)
      BY <2>0
    <2>3. h' # 1 => 1 \in 1 .. (h' - 1)
      BY <2>5 DEF new
    <2>4. h' = 1 => cfgVoice = FirstVoice
      BY <1>1, <1>3 DEF OwnSwaps
    <2> QED
      BY <1>3, <2>1, <2>2, <2>3, <2>4
  <1>5. ChildTypes'
    BY <1>1, <1>2, <1>3, <1>4 DEF ChildTypes
  <1>6. ClientTypes'
    BY <1>1, <1>2, <1>3, <1>4 DEF ClientTypes, ThreadTypes
  <1>7. ThreadTypes'
    BY <1>1, <1>2, <1>3, <1>4 DEF ThreadTypes, ClientTypes, ChildTypes
  <1>8. OwnResult'
    BY <1>1, <1>2, <1>3, <1>4 DEF OwnResult
  <1>9. LinkedWhileAlive'
    BY <1>1, <1>2, <1>3, <1>4 DEF LinkedWhileAlive, Alive
  <1>10. ChildrenKept'
    BY <1>1, <1>2, <1>3, <1>4 DEF ChildrenKept, Alive
  <1>11. CallsRefer'
    BY <1>1, <1>2, <1>3, <1>4 DEF CallsRefer, InStop, ClientTypes, ThreadTypes
  <1>12. OwnAnswers'
    BY <1>1, <1>2, <1>3, <1>4 DEF OwnAnswers, CallsRefer, ClientTypes
  <1>13. OwnSwaps'
    BY <1>1, <1>2, <1>3, <1>4 DEF OwnSwaps, Alive, ThreadTypes
  <1>14. StopOwns'
    BY <1>1, <1>2, <1>3, <1>4 DEF StopOwns, Crashed, CallsRefer, InStop, ClientTypes
  <1> QED
    BY <1>5, <1>6, <1>7, <1>8, <1>9, <1>10,
       <1>11, <1>12, <1>13, <1>14, TypePartsNext DEF IpcInv

\* A child is ready.
LEMMA ChildReadyKeeps ==
  ASSUME IpcInv, ChildReady
  PROVE  IpcInv'
  <1> USE NoneIsNoChild DEF clientVars, stopVars
  <1>1. ChildTypes /\ ClientTypes /\ ThreadTypes /\ OwnResult /\ LinkedWhileAlive
        /\ ChildrenKept /\ CallsRefer /\ OwnAnswers /\ OwnSwaps /\ StopOwns
    BY TypeParts DEF IpcInv
  <1>2. /\ e = "ready" /\ resps[h] # <<>> /\ Head(resps[h]) = "ready"
        /\ resps' = [resps EXCEPT ![h] = Tail(resps[h])] /\ handles' = h
        /\ e' = IF attempt = "start" THEN "loop" ELSE "infer"
        /\ h' = None /\ target' = FirstVoice
        /\ UNCHANGED <<proc, cmds, inBuf, outBuf, voiceOf, job, closed, linked,
                       attempt, audio, cfgVoice, aborted, result, stopVars>>
    BY DEF ChildReady, Received, CallReturns
  <1>3. /\ h \in Children /\ h # th /\ h # None /\ proc[h] \notin {"unborn", "loading"}
        /\ cmds[h] = <<>> /\ job[h] = Idle /\ voiceOf[h] = FirstVoice /\ handles = None
        /\ resps[h] = <<"ready">>
    <2>1. /\ h \in Children /\ h # th /\ h # None /\ proc[h] \notin {"unborn", "loading"}
          /\ cmds[h] = <<>> /\ job[h] = Idle /\ voiceOf[h] = FirstVoice /\ handles = None
          /\ resps[h] \in {<<"ready">>, <<"error">>}
      BY <1>1, <1>2 DEF CallsRefer, ClientTypes, ChildrenKept
    <2>2. Head(<<"error">>) = "error"
      OBVIOUS
    <2> QED
      BY <1>2, <2>1, <2>2
  <1>4. /\ resps' \in [Children -> Seq(Responses)] /\ resps'[h] = <<>>
        /\ \A d \in Children \ {h} : resps'[d] = resps[d]
    <2>1. Tail(resps[h]) = <<>> /\ <<>> \in Seq(Responses)
      BY <1>3
    <2> QED
      BY <1>1, <1>2, <1>3, <2>1 DEF ChildTypes
  <1>5. /\ NoInference(<<>>, <<>>, Idle) /\ NoSwap(<<>>, <<>>, Idle)
        /\ ~Has(<<>>, Commands \ {Stop})
    BY Silence, NothingSaid
  <1>6. ChildTypes'
    BY <1>1, <1>2, <1>3, <1>4, <1>5 DEF ChildTypes
  <1>7. ClientTypes'
    BY <1>1, <1>2, <1>3, <1>4, <1>5 DEF ClientTypes, ThreadTypes
  <1>8. ThreadTypes'
    BY <1>1, <1>2, <1>3, <1>4, <1>5 DEF ThreadTypes, ClientTypes, ChildTypes
  <1>9. OwnResult'
    BY <1>1, <1>2, <1>3, <1>4, <1>5 DEF OwnResult
  <1>10. LinkedWhileAlive'
    BY <1>1, <1>2, <1>3, <1>4, <1>5 DEF LinkedWhileAlive, Alive
  <1>11. ChildrenKept'
    BY <1>1, <1>2, <1>3, <1>4, <1>5 DEF ChildrenKept, Alive
  <1>12. CallsRefer'
    BY <1>1, <1>2, <1>3, <1>4, <1>5 DEF CallsRefer, InStop, ClientTypes, ThreadTypes
  <1>13. OwnAnswers'
    BY <1>1, <1>2, <1>3, <1>4, <1>5 DEF OwnAnswers, CallsRefer, ClientTypes
  <1>14. OwnSwaps'
    BY <1>1, <1>2, <1>3, <1>4, <1>5 DEF OwnSwaps, Alive, ThreadTypes
  <1>15. StopOwns'
    BY <1>1, <1>2, <1>3, <1>4, <1>5 DEF StopOwns, Crashed, CallsRefer, InStop, ClientTypes
  <1> QED
    BY <1>6, <1>7, <1>8, <1>9, <1>10, <1>11,
       <1>12, <1>13, <1>14, <1>15, TypePartsNext DEF IpcInv

\* A child that did not get ready is ended.
LEMMA SpawnFailsKeeps ==
  ASSUME IpcInv, SpawnFails
  PROVE  IpcInv'
  <1> USE NoneIsNoChild DEF stopVars
  <1>1. ChildTypes /\ ClientTypes /\ ThreadTypes /\ OwnResult /\ LinkedWhileAlive
        /\ ChildrenKept /\ CallsRefer /\ OwnAnswers /\ OwnSwaps /\ StopOwns
    BY TypeParts DEF IpcInv
  <1>2. /\ e = "ready" /\ e' = IF attempt = "start" THEN "ended" ELSE "loop"
        /\ Ended(h) /\ linked' = linked \ {h} /\ h' = None /\ target' = FirstVoice
        /\ UNCHANGED <<resps, inBuf, outBuf, handles, closed, attempt, audio, cfgVoice, aborted,
                       result, stopVars>>
    BY DEF SpawnFails, UnlinkedSpawn, AfterFailedSpawn, CallReturns
  <1>3. h \in Children /\ handles = None /\ th # h /\ ~Has(<<>>, {Infer}) /\ Idle \in Jobs
    BY <1>1, <1>2, NothingSaid, Kinds DEF ClientTypes, CallsRefer
  <1>4. /\ \A d \in Children \ {h} :
             /\ proc'[d] = proc[d] /\ cmds'[d] = cmds[d] /\ job'[d] = job[d]
             /\ voiceOf'[d] = voiceOf[d]
        /\ proc'[h] = "dead" /\ cmds'[h] = <<>> /\ job'[h] = Idle
        /\ voiceOf'[h] = FirstVoice
    BY <1>1, <1>2, <1>3 DEF Ended, Gone, ChildTypes
  <1>5. ChildTypes'
    BY <1>1, <1>2, <1>3 DEF ChildTypes, Ended, Gone
  <1>6. ClientTypes'
    BY <1>1, <1>2, <1>3, <1>4 DEF ClientTypes, ThreadTypes
  <1>7. ThreadTypes'
    BY <1>1, <1>2, <1>3, <1>4 DEF ThreadTypes, ClientTypes, ChildTypes
  <1>8. OwnResult'
    BY <1>1, <1>2, <1>3, <1>4 DEF OwnResult
  <1>9. LinkedWhileAlive'
    BY <1>1, <1>2, <1>3, <1>4 DEF LinkedWhileAlive, Alive
  <1>10. ChildrenKept'
    <2> SUFFICES ASSUME NEW d \in Children
                 PROVE  /\ ~Alive(d)' => cmds'[d] = <<>> /\ job'[d] = Idle
                                          /\ voiceOf'[d] = FirstVoice
                        /\ proc'[d] = "unborn" => d \notin {handles', h', th'} /\ resps'[d] = <<>>
                        /\ proc'[d] = "loading" => e' = "ready" /\ h' = d
                        /\ Has(cmds'[d], {Infer}) => inBuf'[d] # None
      BY DEF ChildrenKept
    <2>1. CASE d = h
      BY <1>1, <1>2, <1>3, <1>4, <2>1 DEF Alive
    <2>2. CASE d # h
      BY <1>1, <1>2, <1>3, <1>4, <2>2 DEF ChildrenKept, Alive, CallsRefer
    <2> QED
      BY <2>1, <2>2
  <1>11. CallsRefer'
    BY <1>1, <1>2, <1>3, <1>4 DEF CallsRefer, InStop, ClientTypes, ThreadTypes
  <1>12. OwnAnswers'
    BY <1>1, <1>2, <1>3, <1>4 DEF OwnAnswers, CallsRefer, ClientTypes
  <1>13. OwnSwaps'
    BY <1>1, <1>2, <1>3, <1>4 DEF OwnSwaps, Alive, ThreadTypes
  <1>14. StopOwns'
    BY <1>1, <1>2, <1>3, <1>4 DEF StopOwns, Crashed, CallsRefer, InStop, ClientTypes
  <1> QED
    BY <1>5, <1>6, <1>7, <1>8, <1>9, <1>10,
       <1>11, <1>12, <1>13, <1>14, TypePartsNext DEF IpcInv

\* A child that has died while it was waited for: the spawn cleans up nothing.
LEMMA SpawnBreaksKeeps ==
  ASSUME IpcInv, SpawnBreaks
  PROVE  IpcInv'
  <1> USE NoneIsNoChild DEF childVars, clientVars, stopVars
  <1>1. ChildTypes /\ ClientTypes /\ ThreadTypes /\ OwnResult /\ LinkedWhileAlive
        /\ ChildrenKept /\ CallsRefer /\ OwnAnswers /\ OwnSwaps /\ StopOwns
    BY TypeParts DEF IpcInv
  <1>2. /\ e = "ready" /\ e' = IF attempt = "start" THEN "ended" ELSE "loop"
        /\ ~Alive(h) /\ h' = None /\ target' = FirstVoice
        /\ UNCHANGED <<childVars, clientVars, attempt, audio, cfgVoice, aborted,
                       result, stopVars>>
    BY DEF SpawnBreaks, AfterFailedSpawn, CallReturns
  <1>3. /\ h \in Children /\ handles = None /\ th # h
        /\ proc[h] = "crashed"
    BY <1>1, <1>2 DEF ClientTypes, ChildTypes, CallsRefer, ChildrenKept, Alive, SpawnBreaks
  <1>5. ChildTypes'
    BY <1>1, <1>2 DEF ChildTypes
  <1>6. ClientTypes'
    BY <1>1, <1>2 DEF ClientTypes
  <1>7. ThreadTypes'
    BY <1>1, <1>2 DEF ThreadTypes
  <1>8. OwnResult'
    BY <1>1, <1>2 DEF OwnResult
  <1>9. LinkedWhileAlive'
    BY <1>1, <1>2 DEF LinkedWhileAlive, Alive
  <1>10. ChildrenKept'
    BY <1>1, <1>2, <1>3 DEF ChildrenKept, Alive
  <1>11. CallsRefer'
    BY <1>1, <1>2, <1>3 DEF CallsRefer, InStop, ThreadTypes
  <1>12. OwnAnswers'
    BY <1>1, <1>2, <1>3 DEF OwnAnswers
  <1>13. OwnSwaps'
    BY <1>1, <1>2, <1>3 DEF OwnSwaps, Alive, ThreadTypes
  <1>14. StopOwns'
    BY <1>1, <1>2, <1>3 DEF StopOwns, Crashed
  <1> QED
    BY <1>5, <1>6, <1>7, <1>8, <1>9, <1>10,
       <1>11, <1>12, <1>13, <1>14, TypePartsNext DEF IpcInv

\* stop() asks its child to end.
LEMMA StopAsksKeeps ==
  ASSUME IpcInv, StopAsks, Reachable(th)
  PROVE  IpcInv'
  <1> USE NoneIsNoChild DEF clientVars, engineVars
  <1>1. ChildTypes /\ ClientTypes /\ ThreadTypes /\ OwnResult /\ LinkedWhileAlive
        /\ ChildrenKept /\ CallsRefer /\ OwnAnswers /\ OwnSwaps /\ StopOwns
    BY TypeParts DEF IpcInv
  <1>2. /\ t = "ask" /\ t' = "wait" /\ th # None /\ Alive(th)
        /\ cmds' = [cmds EXCEPT ![th] = Append(cmds[th], Stop)]
        /\ UNCHANGED <<proc, resps, inBuf, outBuf, voiceOf, job, clientVars, engineVars, th,
                       joined, dropped>>
    BY DEF StopAsks, Reachable, Sent, TeardownGoto
  <1>3. th \in Children /\ (e = "ready" => h # th) /\ proc[th] = "serving"
    BY <1>1, <1>2 DEF ClientTypes, CallsRefer, ChildrenKept, Alive
  <1>4. /\ cmds' \in [Children -> Seq(Commands)]
        /\ \A d \in Children \ {th} : cmds'[d] = cmds[d]
        /\ Has(cmds'[th], {Infer}) => Has(cmds[th], {Infer})
        /\ NoInference(cmds[th], resps[th], job[th]) => NoInference(cmds'[th], resps[th], job[th])
        /\ OneInference(cmds[th], resps[th], job[th], inBuf[th], outBuf[th], audio) =>
             OneInference(cmds'[th], resps[th], job[th], inBuf[th], outBuf[th], audio)
        /\ OnlyInference(cmds[th], resps[th], job[th]) => OnlyInference(cmds'[th], resps[th], job[th])
        /\ ~Has(cmds[th], Commands \ {Stop}) => ~Has(cmds'[th], Commands \ {Stop})
        /\ NoSwap(cmds[th], resps[th], job[th]) => NoSwap(cmds'[th], resps[th], job[th])
        /\ OneSwap(cmds[th], resps[th], job[th], proc[th], voiceOf[th], target) =>
             OneSwap(cmds'[th], resps[th], job[th], proc[th], voiceOf[th], target)
    <2> DEFINE q == Append(cmds[th], Stop)
    <2>1. Said(cmds[th], resps[th], job[th]) /\ target \in Voices
      BY <1>1, <1>3, AllSaid DEF ThreadTypes
    <2>2. Has(q, {Infer}) => Has(cmds[th], {Infer})
      BY <2>1, SaidLast, Kinds DEF Said
    <2>3. /\ q \in Seq(Commands)
          /\ NoInference(cmds[th], resps[th], job[th]) => NoInference(q, resps[th], job[th])
          /\ OneInference(cmds[th], resps[th], job[th], inBuf[th], outBuf[th], audio) =>
               OneInference(q, resps[th], job[th], inBuf[th], outBuf[th], audio)
          /\ OnlyInference(cmds[th], resps[th], job[th]) => OnlyInference(q, resps[th], job[th])
          /\ ~Has(cmds[th], Commands \ {Stop}) => ~Has(q, Commands \ {Stop})
          /\ NoSwap(cmds[th], resps[th], job[th]) => NoSwap(q, resps[th], job[th])
          /\ OneSwap(cmds[th], resps[th], job[th], proc[th], voiceOf[th], target) =>
               OneSwap(q, resps[th], job[th], proc[th], voiceOf[th], target)
      BY <2>1, StopIsAsked
    <2>4. cmds' = [cmds EXCEPT ![th] = q]
      BY <1>2
    <2> HIDE DEF q
    <2> QED
      BY <1>1, <1>3, <2>2, <2>3, <2>4 DEF ChildTypes
  <1>5. ChildTypes'
    BY <1>1, <1>2, <1>3, <1>4 DEF ChildTypes
  <1>6. ClientTypes'
    BY <1>1, <1>2, <1>3, <1>4 DEF ClientTypes, ThreadTypes
  <1>7. ThreadTypes'
    BY <1>1, <1>2, <1>3, <1>4 DEF ThreadTypes, ClientTypes, ChildTypes
  <1>8. OwnResult'
    BY <1>1, <1>2, <1>3, <1>4 DEF OwnResult
  <1>9. LinkedWhileAlive'
    BY <1>1, <1>2, <1>3, <1>4 DEF LinkedWhileAlive, Alive
  <1>10. ChildrenKept'
    BY <1>1, <1>2, <1>3, <1>4 DEF ChildrenKept, Alive
  <1>11. CallsRefer'
    BY <1>1, <1>2, <1>3, <1>4 DEF CallsRefer, InStop, ClientTypes, ThreadTypes
  <1>12. OwnAnswers'
    BY <1>1, <1>2, <1>3, <1>4 DEF OwnAnswers, CallsRefer, ClientTypes
  <1>13. OwnSwaps'
    BY <1>1, <1>2, <1>3, <1>4 DEF OwnSwaps, Alive, ThreadTypes
  <1>14. StopOwns'
    BY <1>1, <1>2, <1>3, <1>4 DEF StopOwns, Crashed, CallsRefer, InStop, ClientTypes
  <1> QED
    BY <1>5, <1>6, <1>7, <1>8, <1>9, <1>10,
       <1>11, <1>12, <1>13, <1>14, TypePartsNext DEF IpcInv

\* stop() finds its child gone.
LEMMA StopDoesNotAskKeeps ==
  ASSUME IpcInv, StopAsks, ~Reachable(th)
  PROVE  IpcInv'
  <1> USE NoneIsNoChild DEF childVars, clientVars, engineVars
  <1>1. ChildTypes /\ ClientTypes /\ ThreadTypes /\ OwnResult /\ LinkedWhileAlive
        /\ ChildrenKept /\ CallsRefer /\ OwnAnswers /\ OwnSwaps /\ StopOwns
    BY TypeParts DEF IpcInv
  <1>2. /\ t = "ask" /\ t' = "wait"
        /\ UNCHANGED <<childVars, clientVars, engineVars, th, joined, dropped>>
    BY DEF StopAsks, TeardownGoto, childVars
  <1>3. ChildTypes'
    BY <1>1, <1>2 DEF ChildTypes
  <1>4. ClientTypes'
    BY <1>1, <1>2 DEF ClientTypes, ThreadTypes
  <1>5. ThreadTypes'
    BY <1>1, <1>2 DEF ThreadTypes, ClientTypes, ChildTypes
  <1>6. OwnResult'
    BY <1>1, <1>2 DEF OwnResult
  <1>7. LinkedWhileAlive'
    BY <1>1, <1>2 DEF LinkedWhileAlive, Alive
  <1>8. ChildrenKept'
    BY <1>1, <1>2 DEF ChildrenKept, Alive
  <1>9. CallsRefer'
    BY <1>1, <1>2 DEF CallsRefer, InStop, ClientTypes, ThreadTypes
  <1>10. OwnAnswers'
    BY <1>1, <1>2 DEF OwnAnswers, CallsRefer, ClientTypes
  <1>11. OwnSwaps'
    BY <1>1, <1>2 DEF OwnSwaps, Alive, ThreadTypes
  <1>12. StopOwns'
    BY <1>1, <1>2 DEF StopOwns, Crashed, CallsRefer, InStop, ClientTypes
  <1> QED
    BY <1>3, <1>4, <1>5, <1>6, <1>7, <1>8,
       <1>9, <1>10, <1>11, <1>12, TypePartsNext DEF IpcInv

\* stop() waits for its child to end, or kills it.
LEMMA StopWaitsKeeps ==
  ASSUME IpcInv, StopWaits
  PROVE  IpcInv'
  <1> USE NoneIsNoChild DEF clientVars, engineVars
  <1>1. ChildTypes /\ ClientTypes /\ ThreadTypes /\ OwnResult /\ LinkedWhileAlive
        /\ ChildrenKept /\ CallsRefer /\ OwnAnswers /\ OwnSwaps /\ StopOwns
    BY TypeParts DEF IpcInv
  <1>2. /\ t = "wait" /\ t' = "clean" /\ Ended(th)
        /\ UNCHANGED <<resps, inBuf, outBuf, clientVars, engineVars, th, joined, dropped>>
    BY DEF StopWaits, StopKills, TeardownGoto
  <1>3. /\ th \in Children /\ (e = "ready" => h # th) /\ ~Has(<<>>, {Infer}) /\ Idle \in Jobs
        /\ proc[th] # "unborn"
    BY <1>1, <1>2, NothingSaid, Kinds DEF ClientTypes, CallsRefer, InStop, ChildrenKept
  <1>4. /\ \A d \in Children \ {th} :
             /\ proc'[d] = proc[d] /\ cmds'[d] = cmds[d] /\ job'[d] = job[d]
             /\ voiceOf'[d] = voiceOf[d]
        /\ proc'[th] = "dead" /\ cmds'[th] = <<>> /\ job'[th] = Idle
        /\ voiceOf'[th] = FirstVoice
    BY <1>1, <1>2, <1>3 DEF Ended, Gone, ChildTypes
  <1>5. /\ NoInference(cmds[th], resps[th], job[th]) => NoInference(<<>>, resps[th], Idle)
        /\ OneInference(cmds[th], resps[th], job[th], inBuf[th], outBuf[th], audio) =>
             OneInference(<<>>, resps[th], Idle, inBuf[th], outBuf[th], audio)
        /\ OnlyInference(cmds[th], resps[th], job[th]) => OnlyInference(<<>>, resps[th], Idle)
        /\ ~Has(cmds[th], Commands \ {Stop}) => ~Has(<<>>, Commands \ {Stop})
        /\ NoSwap(cmds[th], resps[th], job[th]) => NoSwap(<<>>, resps[th], Idle)
        /\ OneSwap(cmds[th], resps[th], job[th], proc[th], voiceOf[th], target) =>
             OneSwap(<<>>, resps[th], Idle, "dead", FirstVoice, target)
    <2>1. Said(cmds[th], resps[th], job[th]) /\ target \in Voices
      BY <1>1, <1>3, AllSaid DEF ThreadTypes
    <2> QED
      BY <2>1, NothingAskedOfTheDead, NothingSaid
  <1>6. ChildTypes'
    BY <1>1, <1>2, <1>3 DEF ChildTypes, Ended, Gone
  <1>7. ClientTypes'
    BY <1>1, <1>2, <1>3, <1>4, <1>5 DEF ClientTypes, ThreadTypes
  <1>8. ThreadTypes'
    BY <1>1, <1>2, <1>3, <1>4, <1>5 DEF ThreadTypes, ClientTypes, ChildTypes
  <1>9. OwnResult'
    BY <1>1, <1>2, <1>3, <1>4, <1>5 DEF OwnResult
  <1>10. LinkedWhileAlive'
    BY <1>1, <1>2, <1>3, <1>4, <1>5 DEF LinkedWhileAlive, Alive
  <1>11. ChildrenKept'
    BY <1>1, <1>2, <1>3, <1>4, <1>5 DEF ChildrenKept, Alive
  <1>12. CallsRefer'
    BY <1>1, <1>2, <1>3, <1>4, <1>5 DEF CallsRefer, InStop, ClientTypes, ThreadTypes
  <1>13. OwnAnswers'
    BY <1>1, <1>2, <1>3, <1>4, <1>5 DEF OwnAnswers, CallsRefer, ClientTypes
  <1>14. OwnSwaps'
    BY <1>1, <1>2, <1>3, <1>4, <1>5 DEF OwnSwaps, Alive, ThreadTypes
  <1>15. StopOwns'
    BY <1>1, <1>2, <1>3, <1>4, <1>5 DEF StopOwns, Crashed, CallsRefer, InStop, ClientTypes
  <1> QED
    BY <1>6, <1>7, <1>8, <1>9, <1>10, <1>11,
       <1>12, <1>13, <1>14, <1>15, TypePartsNext DEF IpcInv

\* stop() lets go of its child, which has ended.
LEMMA StopCleansKeeps ==
  ASSUME IpcInv, StopCleans
  PROVE  IpcInv'
  <1> USE NoneIsNoChild DEF engineVars
  <1>1. ChildTypes /\ ClientTypes /\ ThreadTypes /\ OwnResult /\ LinkedWhileAlive
        /\ ChildrenKept /\ CallsRefer /\ OwnAnswers /\ OwnSwaps /\ StopOwns
    BY TypeParts DEF IpcInv
  <1>2. /\ t = "clean" /\ t' = "forget" /\ Disposed(th)
        /\ UNCHANGED <<proc, cmds, voiceOf, job, handles, engineVars, th, joined, dropped>>
    BY DEF StopCleans, TeardownGoto
  <1>3. /\ th \in Children /\ (e = "ready" => h # th) /\ proc[th] = "dead"
        /\ cmds[th] = <<>> /\ job[th] = Idle
    BY <1>1, <1>2 DEF ClientTypes, CallsRefer, InStop, ChildrenKept, Alive
  <1>4. /\ \A d \in Children \ {th} :
             resps'[d] = resps[d] /\ inBuf'[d] = inBuf[d] /\ outBuf'[d] = outBuf[d]
        /\ resps'[th] = <<>> /\ inBuf'[th] = None /\ outBuf'[th] = NoAnswer
        /\ linked' = linked \ {th} /\ closed' = closed \cup {th}
    BY <1>1, <1>2, <1>3 DEF Disposed, ChildTypes
  <1>5. /\ ~Has(<<>>, {Infer}) /\ ~Has(<<>>, Commands \ {Stop})
        /\ NoInference(<<>>, <<>>, Idle) /\ OnlyInference(<<>>, <<>>, Idle)
        /\ OneInference(<<>>, <<>>, Idle, None, NoAnswer, audio)
        /\ NoSwap(<<>>, <<>>, Idle)
        /\ OneSwap(<<>>, <<>>, Idle, "dead", voiceOf[th], target)
    BY Silence, NothingSaid
  <1>6. ChildTypes'
    <2>1. NoAnswer \in [audio : Audio \cup {None}, voice : Voices]
      BY DEF NoAnswer, Answer
    <2> QED
      BY <1>1, <1>2, <1>3, <2>1 DEF ChildTypes, Disposed
  <1>7. ClientTypes'
    BY <1>1, <1>2, <1>3, <1>4, <1>5 DEF ClientTypes, ThreadTypes
  <1>8. ThreadTypes'
    BY <1>1, <1>2, <1>3, <1>4, <1>5 DEF ThreadTypes, ClientTypes, ChildTypes
  <1>9. OwnResult'
    BY <1>1, <1>2, <1>3, <1>4, <1>5 DEF OwnResult
  <1>10. LinkedWhileAlive'
    BY <1>1, <1>2, <1>3, <1>4, <1>5 DEF LinkedWhileAlive, Alive
  <1>11. ChildrenKept'
    BY <1>1, <1>2, <1>3, <1>4, <1>5 DEF ChildrenKept, Alive
  <1>12. CallsRefer'
    BY <1>1, <1>2, <1>3, <1>4, <1>5 DEF CallsRefer, InStop, ClientTypes, ThreadTypes
  <1>13. OwnAnswers'
    BY <1>1, <1>2, <1>3, <1>4, <1>5 DEF OwnAnswers, CallsRefer, ClientTypes
  <1>14. OwnSwaps'
    BY <1>1, <1>2, <1>3, <1>4, <1>5 DEF OwnSwaps, Alive, ThreadTypes
  <1>15. StopOwns'
    BY <1>1, <1>2, <1>3, <1>4, <1>5 DEF StopOwns, Crashed, CallsRefer, InStop, ClientTypes
  <1> QED
    BY <1>6, <1>7, <1>8, <1>9, <1>10, <1>11,
       <1>12, <1>13, <1>14, <1>15, TypePartsNext DEF IpcInv

-----------------------------------------------------------------------------
(* The invariant and what follows from it.                                 *)

\* At first there is no child, and the engine thread is about to spawn one.
LEMMA IpcInitially ==
  ASSUME Init PROVE IpcInv
  <1> USE NoneIsNoChild DEF Init
  <1>1. ChildTypes
    <2>1. /\ NoAnswer \in [audio : Audio \cup {None}, voice : Voices]
          /\ Idle \in Jobs /\ <<>> \in Seq(Commands) /\ <<>> \in Seq(Responses)
      BY Kinds DEF NoAnswer, Answer
    <2> QED
      BY <2>1 DEF ChildTypes
  <1>2. ClientTypes /\ ThreadTypes
    BY DEF ClientTypes, ThreadTypes, NoAnswer, Answer, Audio
  <1>3. OwnResult /\ LinkedWhileAlive /\ ChildrenKept /\ StopOwns
    BY NothingSaid DEF OwnResult, LinkedWhileAlive, ChildrenKept, Alive, StopOwns, Crashed
  <1>4. CallsRefer /\ OwnAnswers /\ OwnSwaps
    BY DEF CallsRefer, OwnAnswers, OwnSwaps, InStop
  <1> QED
    BY <1>1, <1>2, <1>3, <1>4, TypeParts DEF IpcInv

\* What no thread changes stays as it is.
LEMMA IpcStutters ==
  ASSUME IpcInv, UNCHANGED vars PROVE IpcInv'
  <1> USE DEF vars, childVars, clientVars, engineVars, stopVars
  <1>1. OwnResult' /\ LinkedWhileAlive' /\ ChildrenKept' /\ CallsRefer'
    BY DEF IpcInv, OwnResult, LinkedWhileAlive, ChildrenKept, Alive, CallsRefer, InStop
  <1>2. OwnAnswers' /\ OwnSwaps' /\ StopOwns'
    BY DEF IpcInv, OwnAnswers, OwnSwaps, StopOwns, Crashed, Alive
  <1>3. IpcTypeOK'
    BY DEF IpcInv, IpcTypeOK
  <1> QED
    BY <1>1, <1>2, <1>3 DEF IpcInv

\* Every step of the engine thread, of the teardown and of a child keeps it.
LEMMA IpcInductive ==
  ASSUME IpcInv, [Next]_vars PROVE IpcInv'
  <1>1. CASE EngineStep
    <2>1. ASSUME NEW v \in Voices, SwapSend(v) PROVE IpcInv'
      BY <2>1, SwapSentKeeps, SwapNotSentKeeps
    <2>2. CASE InferSend
      BY <2>2, InferSentKeeps, InferNotSentKeeps
    <2>3. CASE RestartTearsDown
      BY <2>3, RestartGivesUpKeeps, RestartTearsDownKeeps
    <2>4. CASE Spawn
      BY <2>4, SpawnNoneKeeps, SpawnOneKeeps
    <2>5. CASE SwapReceives \/ SwapTimesOut \/ SwapsDone \/ ChunkStarts
      BY <2>5, SwapReceivesKeeps, SwapTimesOutKeeps, SwapsDoneKeeps, ChunkStartsKeeps
    <2>6. CASE InferReceives \/ InferEof \/ ChildReady \/ SpawnFails \/ SpawnBreaks
      BY <2>6, InferReceivesKeeps, InferEofKeeps, ChildReadyKeeps, SpawnFailsKeeps,
         SpawnBreaksKeeps
    <2> QED
      BY <1>1, <2>1, <2>2, <2>3, <2>4, <2>5, <2>6 DEF EngineStep
  <1>2. CASE TeardownBegins \/ TeardownStep
    <2>1. CASE StopAsks
      BY <2>1, StopAsksKeeps, StopDoesNotAskKeeps
    <2>2. CASE TeardownBegins \/ TeardownJoins \/ StopLooks \/ StopWaits
      BY <2>2, TeardownBeginsKeeps, TeardownJoinsKeeps, StopLooksKeeps, StopWaitsKeeps
    <2>3. CASE StopCleans \/ StopForgets \/ ClientDropped
      BY <2>3, StopCleansKeeps, StopForgetsKeeps, ClientDroppedKeeps
    <2> QED
      BY <1>2, <2>1, <2>2, <2>3 DEF TeardownStep
  <1>3. CASE \E c \in Children : ChildStep(c) \/ ChildDies(c)
    BY <1>3, ChildKeeps
  <1>4. CASE UNCHANGED vars
    BY <1>4, IpcStutters
  <1> QED
    BY <1>1, <1>2, <1>3, <1>4 DEF Next

\* For any number of children and voices, and whichever of them hang: what
\* infer() returns is the inference of its own chunk, shared memory has its
\* name while its child lives, and every answer under way belongs to the
\* request that will take it for its own.
THEOREM IpcInvAlways == Spec => []IpcInv
  <1>1. Init => IpcInv
    BY IpcInitially
  <1>2. IpcInv /\ [Next]_vars => IpcInv'
    BY IpcInductive
  <1> QED
    BY <1>1, <1>2, PTL DEF Spec

\* A swap answered as done is loaded: when the engine turns to a chunk, the
\* voice of its first child is the one the configuration names, unless the
\* engine has been aborted.
THEOREM SwapsTakeHoldAlways == Spec => []SwapsTakeHold
  <1>1. IpcInv => SwapsTakeHold
    BY DEF IpcInv, OwnSwaps, SwapsTakeHold
  <1> QED
    BY <1>1, IpcInvAlways, PTL

\* Once it has joined the engine thread, stop() leaves no process behind, and no
\* shared memory but that of children that died before they were ready.
THEOREM CleanStopAlways == Spec => []CleanStop
  <1>1. IpcInv => CleanStop
    BY DEF IpcInv, StopOwns, Crashed, LinkedWhileAlive, Alive, CleanStop
  <1> QED
    BY <1>1, IpcInvAlways, PTL
=============================================================================
