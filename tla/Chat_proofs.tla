------------------------------ MODULE Chat_proofs ------------------------------
(***************************************************************************)
(* Theorems about Chat, for any number of questions and polls.             *)
(***************************************************************************)
EXTENDS Chat, SequenceTheorems, TLAPS

Asking == [pc : {"idle", "post", "poll"}, of : Question \cup {0}, polls : Nat]

\* The conversation is a sequence, and sendMessage runs for a question.
Shaped == /\ messages \in Seq([kind : Kinds, of : Question \cup {0}])
          /\ asking \in Asking
          /\ asking.pc # "idle" => asking.of \in Question

\* While a question is waited for it and its placeholder end the conversation,
\* so that replacing the last message replaces the placeholder.
Waiting == asking.pc # "idle" =>
              /\ Len(messages) >= 2
              /\ messages[Len(messages)] = Says("typing", 0)
              /\ messages[Len(messages) - 1] = Says("question", asking.of)

\* A conversation opens with a question.
Opened == messages # << >> => messages[1].kind = "question"

ChatInvariant == Shaped /\ Opened /\ Waiting /\ AnswersFollowQuestions

-----------------------------------------------------------------------------
\* What a step does with the conversation and sendMessage.
LEMMA ChatSteps ==
    ASSUME Shaped, [ChatNext]_chatVars
    PROVE  \/ \E q \in Question :
                 /\ asking.pc = "idle"
                 /\ messages' = messages \o <<Says("question", q), Says("typing", 0)>>
                 /\ asking' = [pc |-> "post", of |-> q, polls |-> 0]
           \/ /\ asking.pc # "idle"
              /\ \E message \in {Says("answer", asking.of), Says("sorry", 0), Says("nothing", 0)} :
                    Finish(message)
           \/ /\ asking.pc # "idle" /\ asking'.pc = "poll" /\ asking'.of = asking.of
              /\ asking' \in Asking /\ UNCHANGED messages
           \/ messages' = << >> /\ asking' = NotAsking
           \/ UNCHANGED <<messages, asking>>
<1>1. CASE Asks
  BY <1>1 DEF Asks, Send, Loading
<1>2. CASE Reload
  BY <1>2 DEF Reload
<1>3. CASE PostFails \/ GiveUp \/ PollFails
  BY <1>3 DEF PostFails, GiveUp, PollFails
<1>4. CASE Poll
  BY <1>4 DEF Poll
<1>5. CASE Posted \/ PollAgain
  BY <1>5 DEF Posted, PollAgain, Shaped, Asking
<1>6. CASE (\E q \in Question : JobEnds(q)) \/ UNCHANGED chatVars
  BY <1>6 DEF JobEnds, chatVars
<1> QED BY <1>1, <1>2, <1>3, <1>4, <1>5, <1>6 DEF ChatNext, WidgetSettles

\* A question and its placeholder are appended.
LEMMA QuestionAsked ==
    ASSUME ChatInvariant, asking.pc = "idle", NEW q \in Question,
           messages' = messages \o <<Says("question", q), Says("typing", 0)>>,
           asking' = [pc |-> "post", of |-> q, polls |-> 0]
    PROVE  ChatInvariant'
<1> DEFINE n == Len(messages)
<1>1. n \in Nat /\ messages \in Seq([kind : Kinds, of : Question \cup {0}])
  BY LenProperties DEF ChatInvariant, Shaped
<1>2. <<Says("question", q), Says("typing", 0)>> \in Seq([kind : Kinds, of : Question \cup {0}])
  BY DEF Says, Kinds
<1>3. /\ messages' \in Seq([kind : Kinds, of : Question \cup {0}])
      /\ Len(messages') = n + 2
      /\ \A i \in 1..n : messages'[i] = messages[i]
      /\ messages'[n + 1] = Says("question", q) /\ messages'[n + 2] = Says("typing", 0)
  BY <1>1, <1>2, ConcatProperties
<1>4. Shaped' /\ Waiting'
  BY <1>1, <1>3 DEF Shaped, Waiting, Asking
<1>5. Opened'
  BY <1>1, <1>3 DEF ChatInvariant, Opened, Says
<1>6. AnswersFollowQuestions'
  <2>1. DOMAIN messages = 1..n /\ DOMAIN messages' = 1..(n + 2)
    BY <1>1, <1>3, LenProperties
  <2>2. \A i \in 1..n : messages[i].kind # "typing"
    BY <2>1 DEF ChatInvariant, AnswersFollowQuestions
  <2>3. ASSUME NEW i \in 1..(n + 2), messages'[i].kind = "answer"
        PROVE  messages'[i - 1] = Says("question", messages'[i].of)
    <3>1. i \in 1..n
      BY <1>1, <1>3, <2>3 DEF Says
    <3>2. messages[i - 1] = Says("question", messages[i].of)
      BY <1>3, <2>1, <2>3, <3>1 DEF ChatInvariant, AnswersFollowQuestions
    <3>3. i # 1
      BY <1>1, <1>3, <2>3, <3>1 DEF ChatInvariant, Opened
    <3>4. i - 1 \in 1..n
      BY <1>1, <3>1, <3>3
    <3> QED BY <1>3, <3>1, <3>2, <3>4
  <2>4. ASSUME NEW i \in 1..(n + 2)
        PROVE  messages'[i].kind = "typing" <=> i = n + 2
    BY <1>1, <1>3, <2>2 DEF Says
  <2> QED BY <1>3, <2>1, <2>3, <2>4 DEF AnswersFollowQuestions
<1> QED BY <1>4, <1>5, <1>6 DEF ChatInvariant

\* The placeholder is replaced by the answer, or by what is said without one.
LEMMA QuestionSettled ==
    ASSUME ChatInvariant, asking.pc # "idle",
           NEW message \in {Says("answer", asking.of), Says("sorry", 0), Says("nothing", 0)},
           Finish(message)
    PROVE  ChatInvariant'
<1> DEFINE n == Len(messages)
<1> DEFINE Message == [kind : Kinds, of : Question \cup {0}]
<1>1. n \in Nat /\ n >= 2 /\ messages \in Seq(Message) /\ message \in Message
  BY LenProperties DEF ChatInvariant, Shaped, Waiting, Says, Kinds
<1>2. /\ messages' \in Seq(Message) /\ Len(messages') = n
      /\ \A i \in 1..(n - 1) : messages'[i] = messages[i]
      /\ messages'[n] = message
  BY <1>1, ExceptSeq DEF Finish
<1>3. DOMAIN messages = 1..n /\ DOMAIN messages' = 1..n
  BY <1>1, <1>2, LenProperties
<1>4. asking' = NotAsking
  BY DEF Finish
<1>5. Shaped' /\ Waiting'
  BY <1>2, <1>4 DEF Shaped, Waiting, NotAsking, Asking
<1>6. Opened'
  <2>1. messages[1].kind = "question"
    BY <1>1, <1>3 DEF ChatInvariant, Opened
  <2> QED BY <1>1, <1>2, <2>1 DEF Opened
<1>7. AnswersFollowQuestions'
  <2>1. ASSUME NEW i \in 1..n, messages'[i].kind = "answer"
        PROVE  messages'[i - 1] = Says("question", messages'[i].of)
    <3>1. CASE i = n
      <4>1. message = Says("answer", asking.of)
        BY <1>2, <2>1, <3>1 DEF Says
      <4>2. messages[n - 1] = Says("question", asking.of)
        BY DEF ChatInvariant, Waiting
      <4> QED BY <1>1, <1>2, <3>1, <4>1, <4>2 DEF Says
    <3>2. CASE i # n
      <4>1. messages[i].kind = "answer" /\ messages'[i] = messages[i]
        BY <1>1, <1>2, <2>1, <3>2
      <4>2. messages[i - 1] = Says("question", messages[i].of)
        BY <1>3, <4>1 DEF ChatInvariant, AnswersFollowQuestions
      <4>3. i # 1
        BY <1>1, <1>3, <4>1 DEF ChatInvariant, Opened
      <4>4. i - 1 \in 1..(n - 1)
        BY <1>1, <4>3
      <4> QED BY <1>2, <4>1, <4>2, <4>4
    <3> QED BY <3>1, <3>2
  <2>2. ASSUME NEW i \in 1..n PROVE messages'[i].kind # "typing"
    <3>1. CASE i = n
      BY <1>2, <3>1 DEF Says
    <3>2. CASE i # n
      <4>1. i \in 1..(n - 1)
        BY <1>1, <3>2
      <4>2. messages'[i] = messages[i] /\ i \in DOMAIN messages
        BY <1>2, <1>3, <4>1
      <4>3. messages[i].kind # "typing"
        BY <3>2, <4>2 DEF ChatInvariant, AnswersFollowQuestions
      <4> QED BY <4>2, <4>3
    <3> QED BY <3>1, <3>2
  <2> QED BY <1>3, <1>4, <2>1, <2>2 DEF AnswersFollowQuestions, NotAsking, Asking
<1> QED BY <1>5, <1>6, <1>7 DEF ChatInvariant

LEMMA ChatInvariantStep == ChatInvariant /\ [ChatNext]_chatVars => ChatInvariant'
<1> SUFFICES ASSUME ChatInvariant, [ChatNext]_chatVars PROVE ChatInvariant'
  OBVIOUS
<1>1. ASSUME asking.pc # "idle", asking'.pc = "poll", asking'.of = asking.of, asking' \in Asking,
             UNCHANGED messages
      PROVE  ChatInvariant'
  BY <1>1 DEF ChatInvariant, Shaped, Opened, Waiting, AnswersFollowQuestions
<1>2. CASE messages' = << >> /\ asking' = NotAsking
  BY <1>2 DEF ChatInvariant, Shaped, Opened, Waiting, AnswersFollowQuestions, NotAsking, Asking
<1>3. CASE UNCHANGED <<messages, asking>>
  BY <1>3 DEF ChatInvariant, Shaped, Opened, Waiting, AnswersFollowQuestions
<1> QED BY <1>1, <1>2, <1>3, ChatSteps, QuestionAsked, QuestionSettled DEF ChatInvariant

-----------------------------------------------------------------------------
\* Each answer stands under its question, and the placeholder at the end exactly
\* while one is awaited, whenever the jobs end and whatever polls fail: sendMessage
\* replaces the last message by its position, and no other call can add one.
THEOREM AnswersBelow == ChatSpec => []AnswersFollowQuestions
<1>1. ChatInit => ChatInvariant
  BY DEF ChatInit, ChatInvariant, Shaped, Opened, Waiting, AnswersFollowQuestions, NotAsking, Asking
<1>2. ChatInvariant => AnswersFollowQuestions
  BY DEF ChatInvariant
<1> QED BY <1>1, <1>2, ChatInvariantStep, PTL DEF ChatSpec
=============================================================================
