--------------------------------- MODULE Chat ---------------------------------
(***************************************************************************)
(* The assistant: client/src/components/ChatWidget.tsx asks, the server    *)
(* (routes/chat.ts) triggers a background job (trigger/chat-async.ts), and *)
(* the widget polls for its result.  The job runs on its own: nobody       *)
(* cancels it, and it may last longer than the widget polls.               *)
(***************************************************************************)
EXTENDS Integers, Sequences

CONSTANTS
    Question,   \* ids of questions, in the order they are asked
    MaxPolls    \* polls per question, 120

ASSUME ChatAssumption == Question \subseteq Nat /\ MaxPolls \in Nat \ {0}

VARIABLES
    messages,   \* the conversation on the screen, after the greeting
    asking,     \* sendMessage, if it is running
    jobs        \* the run of the job for each question

chatVars == <<messages, asking, jobs>>

Kinds == {"question", "typing", "answer", "sorry", "nothing"}
Says(kind, q) == [kind |-> kind, of |-> q]

JobStatus == {"none", "executing", "completed", "failed", "crashed"}

NotAsking == [pc |-> "idle", of |-> 0, polls |-> 0]

ChatTypeOK ==
    /\ \A i \in DOMAIN messages : messages[i] \in [kind : Kinds, of : Question \cup {0}]
    /\ asking \in [pc : {"idle", "post", "poll"}, of : Question \cup {0}, polls : 0..MaxPolls]
    /\ jobs \in [Question -> JobStatus]

ChatInit == /\ messages = << >>
            /\ asking = NotAsking
            /\ jobs = [q \in Question |-> "none"]

\* The state loading of the widget.
\* (Mutant: the guard at the head of sendMessage is missing.)
NeverLoading == FALSE
Loading == asking.pc # "idle"

\* sendMessage: the question and a placeholder are shown, the question is sent.
Send(q) ==
    /\ ~Loading
    /\ \A m \in Question : m < q <=> \E i \in DOMAIN messages : messages[i] = Says("question", m)
    /\ messages' = messages \o <<Says("question", q), Says("typing", 0)>>
    /\ asking' = [pc |-> "post", of |-> q, polls |-> 0]
    /\ UNCHANGED jobs

\* The last message is replaced, whatever it is, and the finally block runs.
Finish(message) ==
    /\ messages' = [messages EXCEPT ![Len(messages)] = message]
    /\ asking' = NotAsking

\* POST /chat: tasks.trigger, and the answer arrives.
Posted == /\ asking.pc = "post"
          /\ jobs' = [jobs EXCEPT ![asking.of] = "executing"]
          /\ asking' = [asking EXCEPT !.pc = "poll"]
          /\ UNCHANGED messages

\* It is refused, or its answer is lost after the job was triggered.
PostFails == /\ asking.pc = "post"
             /\ \/ UNCHANGED jobs
                \/ jobs' = [jobs EXCEPT ![asking.of] = "executing"]
             /\ Finish(Says("sorry", 0))

\* (Mutant: the loop has no end.)
WithoutEnd == FALSE
LastPoll == asking.polls = MaxPolls

\* GET /chat/:runId ends the loop for a run that is completed, failed or
\* canceled; any other status, and an error of the route, count as "not yet".
Poll ==
    /\ asking.pc = "poll" /\ ~LastPoll
    /\ \/ jobs[asking.of] = "completed" /\ Finish(Says("answer", asking.of))
       \/ jobs[asking.of] = "failed" /\ Finish(Says("sorry", 0))
    /\ UNCHANGED jobs

PollAgain ==
    /\ asking.pc = "poll" /\ ~LastPoll
    /\ asking' = [asking EXCEPT !.polls = IF @ < MaxPolls THEN @ + 1 ELSE @]
    /\ UNCHANGED <<messages, jobs>>

GiveUp == /\ asking.pc = "poll" /\ LastPoll
          /\ Finish(Says("nothing", 0))
          /\ UNCHANGED jobs

\* A poll that gets no answer ends everything.
PollFails == /\ asking.pc = "poll"
             /\ Finish(Says("sorry", 0))
             /\ UNCHANGED jobs

JobEnds(q) == /\ jobs[q] = "executing"
              /\ \E status \in {"completed", "failed", "crashed"} :
                    jobs' = [jobs EXCEPT ![q] = status]
              /\ UNCHANGED <<messages, asking>>

\* The page is loaded again: the conversation is gone, and with it the ids of the
\* runs, which go on unseen.
Reload == /\ messages # << >>
          /\ messages' = << >> /\ asking' = NotAsking
          /\ jobs' = [q \in Question |-> "none"]

Asks == \E q \in Question : Send(q)
WidgetSettles == Posted \/ PostFails \/ Poll \/ PollAgain \/ GiveUp

\* Every request of the widget ends.  The jobs need not.
ChatFairness == WF_chatVars(WidgetSettles)

ChatNext == Asks \/ Reload \/ WidgetSettles \/ PollFails \/ \E q \in Question : JobEnds(q)

ChatSpec == ChatInit /\ [][ChatNext]_chatVars

-----------------------------------------------------------------------------
(* Properties.                                                              *)

\* Whatever the jobs do after the widget has given up on them, each answer is
\* shown under the question it belongs to, and the widget shows that it is typing
\* exactly while it waits, at the end of the conversation.
AnswersFollowQuestions ==
    /\ \A i \in DOMAIN messages :
          messages[i].kind = "answer" => messages[i - 1] = Says("question", messages[i].of)
    /\ \A i \in DOMAIN messages :
          messages[i].kind = "typing" <=> i = Len(messages) /\ asking.pc # "idle"

\* The widget takes another question sooner or later, also when the job of the
\* last one crashes or never ends.
ChatFrees == []<>(asking.pc = "idle")
=============================================================================
