----------------------------- MODULE QueryTurn -----------------------------
(***************************************************************************)
(* POST /query: the turns of one conversation, each through the LangGraph  *)
(* pipeline (its default path: classify_intent, extract_filters,           *)
(* update_query_plan, run_domain_tool, llm_fallback, interpret_result,     *)
(* write_history), execute_nl_query around it, and the database session    *)
(* get_db commits or rolls back.  The client keeps the turn_context of an  *)
(* answer and sends it with its next question.  Meanwhile the user may     *)
(* rename or delete the chat the turns belong to.                          *)
(*                                                                         *)
(* A language model, an embedding and a target database may answer         *)
(* anything they can answer, or raise: each is a choice of the step.       *)
(***************************************************************************)
EXTENDS Naturals

CONSTANTS Intent,      \* the names of INTENT_CATALOG
          SelfIntent,  \* those of domain user_self
          DomainOf,    \* the domain of each intent
          Switches,    \* the pairs of _RESOURCE_ and _PROJECT_TOPIC_SWITCHES
          MaxTurns,    \* the questions of the conversation (a bound)
          MaxRetries,  \* corrections of one SQL: 3 in the code
          NoIntent,    \* domain and intent are None
          NoContext    \* last_turn_context is None

ASSUME QueryTurnAssumption ==
    /\ SelfIntent \subseteq Intent
    /\ NoIntent \notin Intent
    /\ Switches \subseteq Intent \X Intent
    /\ MaxTurns \in Nat
    /\ MaxRetries \in Nat

VARIABLES
    turn,     \* the number of questions asked
    t,        \* the request in progress: GraphState and where it is
    tx,       \* its AsyncSession
    history,  \* committed rows of query_executions
    chat,     \* committed chat_sessions row of the conversation
    ctx,      \* lastTurnContext of the client
    answer    \* the response to the last question

vars == <<turn, t, tx, history, chat, ctx, answer>>

Phase == {"idle", "start", "classify", "extract", "tool", "compose", "generate",
          "validated", "interpret", "history", "respond", "retitle", "commit"}

Results == {"none", "empty", "rows"}                            \* QueryResult or None
Errors == {"none", "tool", "scope", "nosql", "invalid", "execution"}

\* A turn_context: whether its sql is a non-empty string and whether it has
\* the question, besides its intent (and thereby its domain).
Contexts == {NoContext} \union [intent : Intent, sql : BOOLEAN, question : BOOLEAN]

\* "admin" stands for every role but "user".
Turns == [pc : Phase, role : {"user", "admin"}, chat : BOOLEAN,
          last : Contexts, intent : Intent \union {NoIntent}, plan : BOOLEAN,
          result : Results, error : Errors, sql : {"none", "tool", "llm"},
          valid : BOOLEAN, retries : 0 .. MaxRetries, id : BOOLEAN,
          fresh : BOOLEAN]

\* aborted: PostgreSQL refuses every statement until the rollback.
\* expired: the rollback of build_context has expired the connection it loaded.
\* row: the status of the flushed QueryExecution.
\* title: what this transaction has flushed to the chat_sessions row.
Sessions == [aborted : BOOLEAN, expired : BOOLEAN, row : {"none", "success", "error"},
             title : {"none", "touched", "set"}]

NewSession == [aborted |-> FALSE, expired |-> FALSE, row |-> "none", title |-> "none"]

Executions == [turn : 1 .. MaxTurns, chat : BOOLEAN, status : {"success", "error"}]

\* error: the error of the final state, which the response does not carry.
Answers == [code : {"none", "ok", "refused", "failed"}, rows : Results,
            error : Errors, id : BOOLEAN]

TypeOK ==
    /\ turn \in 0 .. MaxTurns
    /\ t \in Turns
    /\ tx \in Sessions
    /\ history \subseteq Executions
    /\ chat \in {"new", "titled", "renamed", "deleted"}
    /\ ctx \in Contexts
    /\ answer \in Answers

\* initial_state of a request: its defaults.
NewTurn(pc, role, inChat, last) ==
    [pc |-> pc, role |-> role, chat |-> inChat, last |-> last,
     intent |-> NoIntent, plan |-> FALSE, result |-> "none", error |-> "none",
     sql |-> "none", valid |-> FALSE, retries |-> 0, id |-> FALSE,
     fresh |-> FALSE]

\* No request in progress: its local variables are gone.
NoTurn == NewTurn("idle", "admin", FALSE, NoContext)

NoAnswer == [code |-> "none", rows |-> "none", error |-> "none", id |-> FALSE]

Init ==
    /\ turn = 0
    /\ t = NoTurn
    /\ tx = NewSession
    /\ history = {}
    /\ chat = "new"
    /\ ctx = NoContext
    /\ answer = NoAnswer

-----------------------------------------------------------------------------
\* The chat is locked while a transaction has written to it; one that has
\* inserted a row that refers to it keeps it from being deleted.
Refers == t.chat /\ tx.row # "none"
Locked == tx.title # "none"

\* Everything of the conversation but the request stays.
Within == UNCHANGED <<turn, history, chat, ctx, answer>>

\* Mutant of Raise: get_db commits in a finally clause.
RaiseCommitting(code) ==
    /\ answer' = [NoAnswer EXCEPT !.code = code]
    /\ t' = NoTurn
    /\ history' = IF tx.row = "none" THEN history
                  ELSE history \union {[turn |-> turn, chat |-> t.chat, status |-> tx.row]}
    /\ tx' = NewSession
    /\ UNCHANGED <<turn, chat, ctx>>

\* An exception leaves the handler: get_db rolls back, an exception handler
\* answers, and the client keeps the context it has.
Raise(code) ==
    /\ answer' = [NoAnswer EXCEPT !.code = code]
    /\ t' = NoTurn
    /\ tx' = NewSession
    /\ UNCHANGED <<turn, history, chat, ctx>>

\* What pydantic makes of a turn_context that comes back: TurnContext has no
\* field for the question, which is dropped.
RoundTrip(c) == IF c = NoContext THEN c ELSE [c EXCEPT !.question = FALSE]

-----------------------------------------------------------------------------
\* The client sends its next question.  With clear it sends no context.
Ask ==
    /\ t.pc = "idle"
    /\ turn < MaxTurns
    /\ turn' = turn + 1
    /\ \E role \in {"user", "admin"}, inChat \in BOOLEAN, clear \in BOOLEAN :
          t' = NewTurn("start", role, inChat,
                       IF clear THEN NoContext ELSE RoundTrip(ctx))
    /\ answer' = NoAnswer
    /\ UNCHANGED <<tx, history, chat, ctx>>

\* get_connection of execute_nl_query.
FindConnection ==
    /\ t.pc = "start"
    /\ \/ t' = [t EXCEPT !.pc = "classify"] /\ UNCHANGED tx /\ Within
       \/ Raise("failed")

\* Mutant of Gate: the role is not looked at.
GateOpen(i, confident) ==
    t' = [t EXCEPT !.intent = i, !.pc = IF confident THEN "extract" ELSE "compose"]

\* The role gate on an intent, and route_after_classify on its confidence.
Gate(i, confident) ==
    t' = IF t.role = "user" /\ i \notin SelfIntent
         THEN [t EXCEPT !.intent = NoIntent, !.pc = "compose"]
         ELSE [t EXCEPT !.intent = i, !.pc = IF confident THEN "extract" ELSE "compose"]

\* The prior intent may be inherited: there is a prior SQL, and an intent of
\* user_self needs a first-person pronoun.
MayInherit(firstPerson) ==
    /\ t.last # NoContext
    /\ t.last.sql
    /\ t.last.intent \in SelfIntent => firstPerson

\* The follow-up fast path and the semantic check of classify_intent.
\* similar: the overlap of the words or of the embeddings calls the question
\* a follow-up; without the prior question the semantic check always does.
Inherits(firstPerson, similar) ==
    MayInherit(firstPerson) /\ (similar \/ ~ t.last.question)

\* _keyword_route: the keywords of a question name an intent.
KeywordRoute == \E i \in Intent : Gate(i, TRUE)

\* classify_intent: keywords win, then the prior intent, and any other question
\* is embedded (which may raise) and compared with the catalog.
Classify ==
    /\ t.pc = "classify"
    /\ \/ /\ \/ KeywordRoute
             \/ \E firstPerson, similar \in BOOLEAN :
                   Inherits(firstPerson, similar) /\ Gate(t.last.intent, TRUE)
             \/ \E firstPerson, similar, confident \in BOOLEAN, i \in Intent :
                   /\ ~ Inherits(firstPerson, similar)
                   /\ i \in SelfIntent => firstPerson
                   /\ Gate(i, confident)
          /\ UNCHANGED tx
          /\ Within
       \/ /\ \E firstPerson, similar \in BOOLEAN : ~ Inherits(firstPerson, similar)
          /\ Raise("failed")

\* extract_filters and update_query_plan.  resolve_glossary_hints swallows a
\* statement that fails, which leaves the transaction aborted.  A filter whose
\* merged values are more than a FilterClause takes raises.
ExtractFilters ==
    /\ t.pc = "extract"
    /\ \/ /\ t' = [t EXCEPT !.pc = "tool", !.plan = TRUE]
          /\ \E aborted \in BOOLEAN : tx' = [tx EXCEPT !.aborted = aborted]
          /\ Within
       \/ Raise("failed")

\* Mutant of AfterTool: the language model has a go at every answer.
AfterToolAlways(result, error) == "compose"

\* route_after_domain_tool.
AfterTool(result, error) ==
    IF error = "none" /\ result = "rows" THEN "interpret" ELSE "compose"

\* execute of the domain agent: its statement returned rows or none.
ToolReturns ==
    \E result \in {"empty", "rows"} :
        t' = [t EXCEPT !.result = result, !.sql = "tool",
                       !.pc = AfterTool(result, "none")]

\* It raised: run_domain_tool makes an empty result of that.
ToolRaises ==
    t' = [t EXCEPT !.result = "empty", !.error = "tool",
                   !.pc = AfterTool("empty", "tool")]

RunDomainTool ==
    /\ t.pc = "tool"
    /\ ToolReturns \/ ToolRaises
    /\ UNCHANGED tx
    /\ Within

-----------------------------------------------------------------------------
(* llm_fallback.  What it does not return stays as the domain tool left it.*)

\* An early return with an error.
GiveUp(error, retries) ==
    t' = [t EXCEPT !.error = error, !.retries = retries, !.pc = "interpret"]

\* A generated SQL after that many corrections, and its validation.
Validated(retries) ==
    \E valid \in BOOLEAN :
        t' = [t EXCEPT !.valid = valid, !.retries = retries, !.pc = "validated"]

\* build_context.  The vector search for tables comes first, and rolls back when
\* it fails, as it does in an aborted transaction; a later vector search that
\* fails is swallowed without a rollback.  Any other statement raises.
BuildContext ==
    /\ t.pc = "compose"
    /\ \/ /\ \E expired, aborted \in BOOLEAN :
                /\ tx.aborted => expired
                /\ tx' = [tx EXCEPT !.expired = expired, !.aborted = aborted]
          /\ t' = [t EXCEPT !.pc = "generate"]
          /\ Within
       \/ Raise("failed")

\* Mutant of Compose: without SQL the context is built again.
ComposeAgain ==
    /\ t.pc = "generate"
    /\ \/ /\ \/ GiveUp("scope", 0)
             \/ t' = [t EXCEPT !.pc = "compose"]
             \/ Validated(0)
          /\ UNCHANGED tx
          /\ Within
       \/ Raise("failed")

\* compose and the first validation.  The model refuses (when the request has
\* a scope), finds no SQL or generates one.
Compose ==
    /\ t.pc = "generate"
    /\ \/ /\ \/ GiveUp("scope", 0)
             \/ GiveUp("nosql", 0)
             \/ Validated(0)
          /\ UNCHANGED tx
          /\ Within
       \/ Raise("failed")

\* Mutant of Correct: one retry too many.
CorrectOnceMore ==
    /\ t.pc = "validated" /\ ~ t.valid /\ t.retries <= MaxRetries
    /\ \/ /\ \/ GiveUp("invalid", t.retries + 1)
             \/ Validated(t.retries + 1)
          /\ UNCHANGED tx
          /\ Within
       \/ Raise("failed")

\* One round of the retry loop: handle_error gives up, or its corrected SQL
\* is validated.
Correct ==
    /\ t.pc = "validated" /\ ~ t.valid /\ t.retries < MaxRetries
    /\ \/ /\ \/ GiveUp("invalid", t.retries + 1)
             \/ Validated(t.retries + 1)
          /\ UNCHANGED tx
          /\ Within
       \/ Raise("failed")

\* execute_query of the generated SQL; only a success resets the error.
Executed ==
    \/ \E result \in {"empty", "rows"} :
          t' = [t EXCEPT !.result = result, !.error = "none", !.sql = "llm",
                         !.pc = "interpret"]
    \/ t' = [t EXCEPT !.result = "none", !.error = "execution", !.sql = "llm",
                      !.pc = "interpret"]

\* After the loop, the connector is looked up and the SQL executed, whichever
\* way the loop ended.  The lookup may raise, and always does when it reads an
\* expired attribute of the connection, which cannot be reloaded there.
Execute ==
    /\ t.pc = "validated"
    /\ t.valid \/ t.retries >= MaxRetries
    /\ \/ ~ tx.expired /\ Executed /\ UNCHANGED tx /\ Within
       \/ Raise("failed")

-----------------------------------------------------------------------------
\* interpret_result swallows what the interpreter raises, not what route does;
\* route has already succeeded when the language model wrote the SQL.
Interpret ==
    /\ t.pc = "interpret"
    /\ \/ t' = [t EXCEPT !.pc = "history"] /\ UNCHANGED tx /\ Within
       \/ t.result = "rows" /\ t.sql = "tool" /\ Raise("failed")

\* Mutant of WriteHistory: the id is returned although the flush failed.
WriteHistoryUnchecked ==
    /\ t.pc = "history"
    /\ \/ /\ ~ tx.aborted
          /\ t.chat => chat # "deleted"
          /\ tx' = [tx EXCEPT !.row = IF t.error = "none" THEN "success" ELSE "error"]
       \/ tx' = NewSession
    /\ t' = [t EXCEPT !.pc = "respond", !.id = TRUE]
    /\ Within

\* write_history: add and flush, or the rollback of the whole transaction when
\* the flush raises (the chat has gone, the transaction is aborted, ...).
WriteHistory ==
    /\ t.pc = "history"
    /\ \/ /\ ~ tx.aborted
          /\ t.chat => chat # "deleted"
          /\ tx' = [tx EXCEPT !.row = IF t.error = "none" THEN "success" ELSE "error"]
          /\ t' = [t EXCEPT !.pc = "respond", !.id = TRUE]
       \/ /\ tx' = NewSession
          /\ t' = [t EXCEPT !.pc = "respond"]
    /\ Within

\* execute_nl_query after the graph: an error without a result is raised;
\* otherwise the chat is read, to see whether it has its default title.
Respond ==
    /\ t.pc = "respond"
    /\ IF t.error # "none" /\ t.result = "none"
       THEN Raise("refused")
       ELSE \/ /\ t' = IF t.chat /\ chat # "deleted"
                       THEN [t EXCEPT !.pc = "retitle", !.fresh = chat = "new"]
                       ELSE [t EXCEPT !.pc = "commit"]
               /\ UNCHANGED tx
               /\ Within
            \/ t.chat /\ Raise("failed")

\* The flush of the chat: its title, or only updated_at.  It finds no row to
\* update when the chat has been deleted since it was read, and raises.
Retitle ==
    /\ t.pc = "retitle"
    /\ \/ /\ chat # "deleted"
          /\ tx' = [tx EXCEPT !.title = IF t.fresh THEN "set" ELSE "touched"]
          /\ t' = [t EXCEPT !.pc = "commit"]
          /\ Within
       \/ Raise("failed")

\* _is_topic_switch between the intent of this turn and the one before.
TopicSwitch ==
    /\ t.last # NoContext
    /\ t.intent # NoIntent
    /\ \/ DomainOf[t.last.intent] # DomainOf[t.intent]
       \/ <<t.last.intent, t.intent>> \in Switches

\* The turn_context of the answer.  A plan always has an empty base SQL.
TurnContext ==
    IF TopicSwitch \/ t.intent = NoIntent
    THEN NoContext
    ELSE [intent |-> t.intent, sql |-> ~ t.plan /\ t.sql # "none", question |-> TRUE]

\* What the client keeps of it: nothing when a clear context is asked for at
\* that time, which the user can ask for, or undo, while waiting for the answer.
StoredContext(clear) == IF clear THEN NoContext ELSE TurnContext

\* get_db commits, the answer is sent, and the client stores its context.
Commit ==
    /\ t.pc = "commit"
    /\ \/ /\ history' = IF tx.row = "none" THEN history
                        ELSE history \union
                             {[turn |-> turn, chat |-> t.chat, status |-> tx.row]}
          /\ chat' = IF tx.title = "set" THEN "titled" ELSE chat
          /\ answer' = [code |-> "ok", rows |-> t.result, error |-> t.error,
                        id |-> t.id]
          /\ \E clear \in BOOLEAN : ctx' = StoredContext(clear)
          /\ t' = NoTurn
          /\ tx' = NewSession
          /\ UNCHANGED turn
       \/ Raise("failed")

-----------------------------------------------------------------------------
\* PATCH /sessions/{id}/title waits for the row lock.
RenameChat ==
    /\ chat \in {"new", "titled"}
    /\ ~ Locked
    /\ chat' = "renamed"
    /\ UNCHANGED <<turn, t, tx, history, ctx, answer>>

\* DELETE /sessions/{id}, with the executions of the chat.
DeleteChat ==
    /\ chat # "deleted"
    /\ ~ Locked /\ ~ Refers
    /\ chat' = "deleted"
    /\ history' = {h \in history : ~ h.chat}
    /\ UNCHANGED <<turn, t, tx, ctx, answer>>

-----------------------------------------------------------------------------
\* What the server does with a request.
Process ==
    \/ FindConnection \/ Classify \/ ExtractFilters \/ RunDomainTool
    \/ BuildContext \/ Compose \/ Correct \/ Execute \/ Interpret
    \/ WriteHistory \/ Respond \/ Retitle \/ Commit

\* The conversation is over.
Finished ==
    /\ t.pc = "idle" /\ turn = MaxTurns
    /\ UNCHANGED vars

Next == Ask \/ Process \/ RenameChat \/ DeleteChat \/ Finished

\* Every await of the server has a timeout or raises; users owe nothing.
Spec == Init /\ [][Next]_vars /\ WF_vars(Process)

-----------------------------------------------------------------------------
(* What a turn guarantees.                                                 *)

\* Rows are never the rows of a query that failed: when an answer has rows,
\* its turn ended without an error, although errors and results of the domain
\* tool stay in the state while the language model tries again.
RowsMeanSuccess ==
    answer.code = "ok" /\ answer.rows = "rows" => answer.error = "none"

\* Whatever context a client sends back, and whoever it got it from: in the
\* role "user" only the tools of domain user_self are run.
ScopedTools ==
    t.pc \in {"extract", "tool"} /\ t.role = "user" => t.intent \in SelfIntent

\* A turn is one atomic change of the application database, and the id of the
\* answer tells which: rollbacks in write_history and get_db, a chat renamed
\* or deleted meanwhile, and statements that were swallowed included.
Contract == INSTANCE QueryContract WITH
    busy <- t.pc # "idle",
    code <- answer.code,
    id <- answer.id,
    log <- {h.turn : h \in history},
    titled <- chat = "titled"

TurnsAreAtomic == Contract!Spec

\* Every question is answered.
TurnsEnd == t.pc # "idle" ~> t.pc = "idle"

-----------------------------------------------------------------------------
(* What the documentation says and the code does not do.                   *)

\* "All errors return {"error": ...}": an answer hides no error.
ErrorSurfaced ==
    answer.code = "ok" => answer.error = "none"

\* "After 3 failures, the error is surfaced to the caller": a turn does not go
\* on without an error from SQL still invalid after the last correction.
InvalidSurfaced ==
    t.pc = "interpret" /\ t.sql = "llm" /\ ~ t.valid /\ t.retries = MaxRetries
        => t.error # "none"

\* "Store for semantic follow-up detection": a question that is no follow-up of
\* the prior one is classified for itself.
NewTopicIsClassified ==
    \A firstPerson \in BOOLEAN : t.pc = "classify" => ~ Inherits(firstPerson, FALSE)

\* "Always store the base (original) SQL": a context has the SQL of its turn.
SqlIsStored == ctx # NoContext => ctx.sql

\* "No error is raised to the caller": the generated SQL of a turn whose vector
\* search failed need not end in an exception.
VectorFailureIsHarmless ==
    t.pc = "validated" /\ tx.expired => ENABLED (Process /\ t'.pc # "idle")

\* "Every query execution is persisted": the execution write_history has
\* flushed is in the log when the user is told that it failed.
FailedExecutionLogged ==
    [][ /\ t.pc = "respond" /\ answer'.code = "refused" /\ t'.pc = "idle"
        /\ t.sql # "none" /\ tx.row # "none"
        => \E h \in history' : h.turn = turn ]_vars
=============================================================================
