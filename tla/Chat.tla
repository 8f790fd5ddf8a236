-------------------------------- MODULE Chat --------------------------------
(***************************************************************************)
(* A conversation with the AI agents: ChatService.processMessageStream and *)
(* the operations of AiAgentController on its session.  What an agent      *)
(* answers is left out; that it fails is not.                              *)
(***************************************************************************)
EXTENDS Server, Sequences, SequencesExt

CONSTANTS
    MaxRetries,     \* maxRetries, 3 in the code
    NoSession       \* stands for a session that was deleted

\* What can be written of the session: its title, and the keys of its metadata
SessionRows == [title : {"first", "second"}, metadata : SUBSET {"shared", "tag"}]

ASSUME ChatAssumption == MaxRetries \in Nat /\ NoSession \notin SessionRows

VARIABLES
    session,        \* its row of chat_sessions: a title, and the keys of its metadata
    messages,       \* the rows of messages, by createdAt
    attached,       \* the questions with a row of attachments
    remembered,     \* the rows of conversations: who spoke, in which request
    told            \* what each client was told last

cvars == <<session, messages, attached, remembered, told>>

ChatInit ==
    /\ session = [title |-> "first", metadata |-> {}]
    /\ messages = <<>> /\ attached = {} /\ remembered = {}
    /\ told = [h \in Requests |-> [what |-> "nothing", question |-> h, attempt |-> 0]]

Row(role, h) == [role |-> role, by |-> h, question |-> Arg(h).question, attempt |-> Arg(h).attempt]

-----------------------------------------------------------------------------
(* processMessageStream *)

\* An error that is not classified as a timeout, a failure of the model or one of the
\* domain asks for a retry, until there were enough.
MayRetry(h) == Arg(h).attempt < MaxRetries

Tell(h, what) ==
    told' = [told EXCEPT ![h] = [what |-> what, question |-> Arg(h).question, attempt |-> Arg(h).attempt]]

StreamFails(h) ==
    /\ Tell(h, "error") \/ (MayRetry(h) /\ Tell(h, "retry"))
    /\ UNCHANGED <<session, messages, attached, remembered>>

\* Whose session it is is tested twice; the files are read, and errors of that caught.
OpenStream(h) ==
    /\ At(h, "streamChat", "start")
    /\ Check(h, session # NoSession, "rememberQuestion")
    /\ IF session = NoSession THEN Tell(h, "error") ELSE UNCHANGED told
    /\ UNCHANGED <<session, messages, attached, remembered>>

RememberQuestion(h) ==
    /\ At(h, "streamChat", "rememberQuestion")
    /\ remembered' = remembered \cup {<<"user", h>>}
    /\ Goto(h, "question")
    /\ UNCHANGED <<session, messages, attached, told>>

\* A message refers to its session.
InsertMessage(h, role, step) ==
    \/ /\ session # NoSession
       /\ messages' = Append(messages, Row(role, h))
       /\ Goto(h, step)
       /\ UNCHANGED <<session, attached, remembered, told>>
    \/ /\ session = NoSession
       /\ StreamFails(h) /\ End(h)

InsertQuestion(h) ==
    /\ At(h, "streamChat", "question")
    /\ InsertMessage(h, "user", "attachments")

\* No files, or one of which no row could be made, and one with a row
InsertAttachments(h) ==
    /\ At(h, "streamChat", "attachments")
    /\ attached' \in {attached, attached \cup {h}}
    /\ Goto(h, "history")
    /\ UNCHANGED <<session, messages, remembered, told>>

\* The agents are given the rows as a history, and the question once more.
ReadHistory(h) ==
    /\ At(h, "streamChat", "history")
    /\ Keep(h, "agents", messages)
    /\ UNCHANGED cvars

AgentsAnswer(h) ==
    /\ At(h, "streamChat", "agents")
    /\ Keep(h, "rememberAnswer", "nothing")
    /\ UNCHANGED cvars

AgentsFail(h) ==
    /\ At(h, "streamChat", "agents")
    /\ StreamFails(h) /\ End(h)

RememberAnswer(h) ==
    /\ At(h, "streamChat", "rememberAnswer")
    /\ remembered' = remembered \cup {<<"assistant", h>>}
    /\ Goto(h, "answer")
    /\ UNCHANGED <<session, messages, attached, told>>

InsertAnswer(h) ==
    /\ At(h, "streamChat", "answer")
    /\ InsertMessage(h, "assistant", "touch")

\* Only updatedAt is written; the row is there, as its messages are.
TouchSession(h) ==
    /\ At(h, "streamChat", "touch")
    /\ Tell(h, "complete")
    /\ End(h)
    /\ UNCHANGED <<session, messages, attached, remembered>>

\* A query of a stream is rejected: an event tells the client.  What is rejected for
\* an attachment is caught.
ChatFault(h) ==
    /\ ~At(h, "streamChat", "attachments") /\ Fault(h)
    /\ IF handler[h].op = "streamChat" /\ handler[h].step # "start"
       THEN StreamFails(h)
       ELSE UNCHANGED cvars

-----------------------------------------------------------------------------
(* AiAgentController *)

Merged_Replaced(h) ==
    CASE handler[h].op = "shareSession" -> [session EXCEPT !.metadata = @ \cup {"shared"}]
      [] Arg(h) = "title"               -> [session EXCEPT !.title = "second"]
      [] OTHER                          -> [session EXCEPT !.metadata = {Arg(h)}]

\* What shareSession and updateSession write is made of the row that was read.
Merged(h) ==
    CASE handler[h].op = "shareSession" -> [session EXCEPT !.metadata = @ \cup {"shared"}]
      [] Arg(h) = "title"               -> [session EXCEPT !.title = "second"]
      [] OTHER                          -> [session EXCEPT !.metadata = @ \cup {Arg(h)}]

ReadSession(h) ==
    /\ handler[h].step = "start" /\ handler[h].op \in {"shareSession", "updateSession"}
    /\ IF session = NoSession THEN End(h) ELSE Keep(h, "write", Merged(h))
    /\ UNCHANGED cvars

\* shareSession leaves the title alone, updateSession writes it too.
WriteSession(h) ==
    /\ handler[h].op \in {"shareSession", "updateSession"} /\ handler[h].step = "write"
    /\ session' = IF session = NoSession THEN session
                  ELSE IF handler[h].op = "updateSession" THEN Mem(h)
                  ELSE [session EXCEPT !.metadata = Mem(h).metadata]
    /\ End(h)
    /\ UNCHANGED <<messages, attached, remembered, told>>

CheckDeleteSession(h) ==
    /\ At(h, "deleteSession", "start")
    /\ Check(h, session # NoSession, "delete")
    /\ UNCHANGED cvars

\* The messages refer to it, and do not go with it.
DeleteSession(h) ==
    /\ At(h, "deleteSession", "delete")
    /\ session' = IF messages = <<>> THEN NoSession ELSE session
    /\ End(h)
    /\ UNCHANGED <<messages, attached, remembered, told>>

-----------------------------------------------------------------------------
\* A client that was asked to retry sends its question again, once.
Retry(h, g) ==
    /\ told[g].what = "retry"
    /\ Ask(h, "streamChat", [question |-> told[g].question, attempt |-> told[g].attempt + 1])
    /\ told' = [told EXCEPT ![g].what = "retried"]
    /\ UNCHANGED <<session, messages, attached, remembered>>

ChatRequest(h) ==
    \/ /\ \/ Ask(h, "streamChat", [question |-> h, attempt |-> 0])
          \/ Ask(h, "shareSession", "none")
          \/ \E what \in {"title", "tag"} : Ask(h, "updateSession", what)
          \/ Ask(h, "deleteSession", "none")
       /\ UNCHANGED cvars
    \/ \E g \in Requests : Retry(h, g)

ChatStep(h) ==
    \/ OpenStream(h) \/ RememberQuestion(h) \/ InsertQuestion(h) \/ InsertAttachments(h)
    \/ ReadHistory(h) \/ AgentsAnswer(h) \/ AgentsFail(h)
    \/ RememberAnswer(h) \/ InsertAnswer(h) \/ TouchSession(h)
    \/ ReadSession(h) \/ WriteSession(h) \/ CheckDeleteSession(h) \/ DeleteSession(h)

ChatNext == \E h \in Requests : ChatRequest(h) \/ ChatStep(h) \/ ChatFault(h)

ChatSpec == SInit /\ ChatInit /\ [][ChatNext]_<<svars, cvars>>

-----------------------------------------------------------------------------
(* Properties *)

Spoken(role, h) == \E m \in Range(messages) : m.role = role /\ m.by = h

\* Whatever overlaps or fails: an answer comes after its question in the transcript,
\* the memory of the agents has every message, a stream that says it is complete has
\* stored both, and a session with messages is there (processMessageStream,
\* deleteSession).
TranscriptSound ==
    /\ \A i \in DOMAIN messages :
           /\ <<messages[i].role, messages[i].by>> \in remembered
           /\ messages[i].role = "assistant" =>
                  \E j \in 1..(i - 1) : messages[j] = [messages[i] EXCEPT !.role = "user"]
    /\ \A h \in Requests : told[h].what = "complete" => Spoken("user", h) /\ Spoken("assistant", h)
    /\ messages # <<>> => session # NoSession

\* While no query fails, a question has one answer, however often it is retried
\* (processMessageStream).
AnsweredOnce ==
    \A i, j \in DOMAIN messages :
        messages[i].role = "assistant" /\ messages[j].role = "assistant"
            /\ messages[i].question = messages[j].question => i = j

\* A question is stored once, and once more for each retry it is allowed (maxRetries).
RetriesAreLimited ==
    \A q \in Requests :
        Cardinality({i \in DOMAIN messages : messages[i].role = "user" /\ messages[i].question = q})
            <= MaxRetries + 1

\* The agents see the question they are asked in its history.
AgentsSeeQuestion ==
    \A h \in Requests : At(h, "streamChat", "agents") => Row("user", h) \in Range(Mem(h))

\* The answer is next to its question.
Alternating ==
    \A i \in DOMAIN messages :
        messages[i].role = "assistant" => messages[i - 1] = [messages[i] EXCEPT !.role = "user"]
=============================================================================
