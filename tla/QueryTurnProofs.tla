-------------------------- MODULE QueryTurnProofs --------------------------
(***************************************************************************)
(* What QueryTurn guarantees for every catalog of intents and any number   *)
(* of turns and corrections: its invariants, and that it implements the    *)
(* contract of a turn (QueryContract).                                     *)
(***************************************************************************)
EXTENDS QueryTurn, TLAPS

\* The phases before the language model's SQL has been executed, and before
\* the domain tool has run.
BeforeTool == {"idle", "start", "classify", "extract", "tool"}
BeforeExecution == BeforeTool \union {"compose", "generate", "validated"}
BeforeHistory == BeforeExecution \union {"interpret", "history"}

\* What the state of the pipeline has not got yet.
Clean ==
    /\ t.pc # "idle" => turn > 0
    /\ t.pc \in BeforeTool => t.error = "none"
    /\ t.pc \in BeforeExecution => t.result # "rows" /\ t.sql # "llm"
    /\ t.pc \in BeforeHistory => ~ t.id

\* The graph state never has rows and an error.
RowsWithoutError == t.result = "rows" => t.error = "none"

\* The handler has an id for the execution its transaction holds.
IdIsFlushed == t.id <=> tx.row # "none"

IInv ==
    /\ TypeOK
    /\ Clean
    /\ RowsWithoutError
    /\ IdIsFlushed
    /\ RowsMeanSuccess
    /\ ScopedTools

-----------------------------------------------------------------------------
\* A new request has the type of one.
LEMMA NewTurnType ==
    ASSUME NEW pc \in Phase, NEW role \in {"user", "admin"}, NEW inChat \in BOOLEAN,
           NEW last \in Contexts, MaxRetries \in Nat
    PROVE  NewTurn(pc, role, inChat, last) \in Turns
  BY DEF NewTurn, Turns, Results, Errors

\* Nor has the absence of a request another type.
LEMMA NoTurnType == MaxRetries \in Nat => NoTurn \in Turns
  BY NewTurnType DEF NoTurn, Phase, Contexts

\* The conversation starts well typed.
LEMMA InitTypes == Init => TypeOK
  BY QueryTurnAssumption, NoTurnType
  DEF Init, TypeOK, QueryTurnAssumption, NewSession, Sessions, Contexts, NoAnswer, Answers,
      Results, Errors

\* What the client sends back is a context.
LEMMA RoundTripType == ASSUME NEW c \in Contexts PROVE RoundTrip(c) \in Contexts
  BY DEF Contexts, RoundTrip
-----------------------------------------------------------------------------
\* The end of a request: its locals are gone, and what it flushed with them.
LEMMA EndKeeps ==
    ASSUME IInv, t' = NoTurn, tx' = NewSession, turn' = turn,
           history' \subseteq Executions, ctx' \in Contexts,
           chat' \in {"new", "titled", "renamed", "deleted"},
           answer' \in Answers,
           answer'.code = "ok" /\ answer'.rows = "rows" => answer'.error = "none"
    PROVE  IInv'
<1>1. TypeOK'
  BY NoTurnType, QueryTurnAssumption
  DEF IInv, TypeOK, QueryTurnAssumption, NewSession, Sessions
<1>2. Clean' /\ RowsWithoutError' /\ ScopedTools'
  BY DEF NoTurn, NewTurn, Clean, RowsWithoutError, ScopedTools
<1>3. IdIsFlushed'
  BY DEF NoTurn, NewTurn, NewSession, IdIsFlushed
<1>4. RowsMeanSuccess'
  BY DEF RowsMeanSuccess
<1> QED
  BY <1>1, <1>2, <1>3, <1>4 DEF IInv

\* An exception ends the request with nothing but the answer changed.
LEMMA RaiseKeeps ==
    ASSUME IInv, NEW c \in {"refused", "failed"}, Raise(c)
    PROVE  IInv'
<1>1. answer' \in Answers /\ answer'.code = c
  BY DEF Raise, NoAnswer, Answers, Results, Errors
<1> QED
  BY <1>1, EndKeeps DEF Raise, IInv, TypeOK

\* A step within the request, for which only the locals are left to check.
LEMMA WithinKeeps ==
    ASSUME IInv, Within, t' \in Turns, tx' \in Sessions, t'.pc # "idle", turn > 0,
           t'.pc \in BeforeTool => t'.error = "none",
           t'.pc \in BeforeExecution => t'.result # "rows" /\ t'.sql # "llm",
           t'.pc \in BeforeHistory => t'.id = FALSE,
           t'.result = "rows" => t'.error = "none",
           t'.id = (tx'.row # "none"),
           t'.pc \in {"extract", "tool"} /\ t'.role = "user" => t'.intent \in SelfIntent
    PROVE  IInv'
<1>1. TypeOK'
  BY DEF Within, IInv, TypeOK
<1>2. Clean'
  BY DEF Within, IInv, Clean
<1>3. RowsWithoutError' /\ ScopedTools'
  BY DEF RowsWithoutError, ScopedTools
<1>4. IdIsFlushed'
  BY DEF IdIsFlushed
<1>5. RowsMeanSuccess'
  BY DEF Within, IInv, RowsMeanSuccess
<1> QED
  BY <1>1, <1>2, <1>3, <1>4, <1>5 DEF IInv

\* What the invariant says of the locals.
LEMMA Locals ==
    ASSUME IInv, t.pc # "idle"
    PROVE  /\ t \in Turns /\ tx \in Sessions /\ turn > 0
           /\ t.pc \in BeforeTool => t.error = "none"
           /\ t.pc \in BeforeExecution => t.result # "rows" /\ t.sql # "llm"
           /\ t.pc \in BeforeHistory => t.id = FALSE
           /\ t.id = (tx.row # "none")
           /\ t.result = "rows" => t.error = "none"
<1>1. t \in Turns /\ tx \in Sessions /\ turn > 0
  BY DEF IInv, TypeOK, Clean
<1>2. t.id \in BOOLEAN
  BY <1>1 DEF Turns
<1> QED
  BY <1>1, <1>2 DEF IInv, Clean, IdIsFlushed, RowsWithoutError

\* The gate lets a user have only the intents of user_self.
LEMMA GateKeeps ==
    ASSUME IInv, t.pc = "classify", NEW i \in Intent, NEW c \in BOOLEAN,
           Gate(i, c), UNCHANGED tx, Within
    PROVE  IInv'
<1>1. /\ t' \in Turns /\ t'.pc \in {"compose", "extract"}
      /\ t'.error = t.error /\ t'.result = t.result /\ t'.sql = t.sql /\ t'.id = t.id
      /\ t'.role = t.role
      /\ t'.pc = "extract" /\ t'.role = "user" => t'.intent \in SelfIntent
  BY Locals DEF Gate, Turns, Phase
<1> QED
  BY <1>1, Locals, WithinKeeps DEF BeforeTool, BeforeExecution, BeforeHistory

\* The connection is found or the request fails.
LEMMA FindConnectionKeeps == IInv /\ FindConnection => IInv'
<1> SUFFICES ASSUME IInv, FindConnection PROVE IInv'
  OBVIOUS
<1>1. CASE Raise("failed")
  BY <1>1, RaiseKeeps
<1>2. CASE t' = [t EXCEPT !.pc = "classify"] /\ UNCHANGED tx /\ Within
  <2>1. /\ t' \in Turns /\ t'.pc = "classify"
        /\ t'.error = t.error /\ t'.result = t.result /\ t'.sql = t.sql /\ t'.id = t.id
    BY <1>2, Locals DEF FindConnection, Turns, Phase
  <2> QED
    BY <1>2, <2>1, Locals, WithinKeeps
    DEF FindConnection, BeforeTool, BeforeExecution, BeforeHistory
<1> QED
  BY <1>1, <1>2 DEF FindConnection

\* Whatever the intent comes from, it goes through the gate.
LEMMA ClassifyKeeps == IInv /\ Classify => IInv'
<1> SUFFICES ASSUME IInv, Classify PROVE IInv'
  OBVIOUS
<1>1. t \in Turns /\ t.pc = "classify"
  BY DEF IInv, TypeOK, Classify
<1>2. CASE Raise("failed")
  BY <1>2, RaiseKeeps
<1>3. CASE KeywordRoute /\ UNCHANGED tx /\ Within
  BY <1>1, <1>3, GateKeeps DEF KeywordRoute
<1>4. ASSUME NEW f \in BOOLEAN, NEW s \in BOOLEAN, Inherits(f, s), Gate(t.last.intent, TRUE),
             UNCHANGED tx, Within
      PROVE  IInv'
  <2>1. t.last.intent \in Intent
    BY <1>1, <1>4 DEF Inherits, MayInherit, Turns, Contexts
  <2> QED
    BY <1>1, <1>4, <2>1, GateKeeps
<1>5. ASSUME NEW c \in BOOLEAN, NEW i \in Intent, Gate(i, c), UNCHANGED tx, Within
      PROVE  IInv'
  BY <1>1, <1>5, GateKeeps
<1> QED
  BY <1>2, <1>3, <1>4, <1>5 DEF Classify

\* A swallowed statement aborts a transaction that has written nothing yet.
LEMMA ExtractFiltersKeeps == IInv /\ ExtractFilters => IInv'
<1> SUFFICES ASSUME IInv, ExtractFilters PROVE IInv'
  OBVIOUS
<1>1. CASE Raise("failed")
  BY <1>1, RaiseKeeps
<1>2. CASE ~ Raise("failed")
  <2>1. t.pc = "extract" /\ Within
    BY <1>2 DEF ExtractFilters
  <2>2. /\ t' \in Turns /\ t'.pc = "tool" /\ t'.intent = t.intent /\ t'.role = t.role
        /\ t'.error = t.error /\ t'.result = t.result /\ t'.sql = t.sql /\ t'.id = t.id
    BY <1>2, Locals DEF ExtractFilters, Turns, Phase
  <2>3. tx' \in Sessions /\ tx'.row = tx.row
    BY <1>2, <2>1, Locals DEF ExtractFilters, Sessions
  <2>4. t.role = "user" => t.intent \in SelfIntent
    BY <2>1 DEF IInv, ScopedTools
  <2> QED
    BY <2>1, <2>2, <2>3, <2>4, Locals, WithinKeeps
    DEF BeforeTool, BeforeExecution, BeforeHistory
<1> QED
  BY <1>1, <1>2

\* Rows come without an error, and only from a scoped tool.
LEMMA RunDomainToolKeeps == IInv /\ RunDomainTool => IInv'
<1> SUFFICES ASSUME IInv, RunDomainTool PROVE IInv'
  OBVIOUS
<1>1. t.pc = "tool" /\ Within /\ UNCHANGED tx
  BY DEF RunDomainTool
<1>2. /\ t' \in Turns /\ t'.pc \in {"interpret", "compose"} /\ t'.id = t.id
      /\ t'.sql # "llm"
      /\ t'.result = "rows" => t'.error = "none" /\ t'.pc = "interpret"
  BY <1>1, Locals
  DEF RunDomainTool, ToolReturns, ToolRaises, AfterTool, Turns, Phase, Results, Errors,
      BeforeTool, BeforeExecution
<1> QED
  BY <1>1, <1>2, Locals, WithinKeeps DEF BeforeTool, BeforeExecution, BeforeHistory

\* Both ways a step of llm_fallback goes on without executing anything.
LEMMA FallbackKeeps ==
    ASSUME IInv, t.pc \in {"generate", "validated"}, UNCHANGED tx, Within,
           NEW n \in 0 .. MaxRetries, NEW e \in Errors,
           GiveUp(e, n) \/ Validated(n)
    PROVE  IInv'
<1>1. /\ t' \in Turns /\ t'.pc \in {"interpret", "validated"} /\ t'.id = t.id
      /\ t'.sql = t.sql /\ t'.result = t.result
  BY Locals DEF GiveUp, Validated, Turns, Phase, Errors
<1> QED
  BY <1>1, Locals, WithinKeeps DEF BeforeTool, BeforeExecution, BeforeHistory

\* Statements of build_context that fail lose nothing that has been flushed.
LEMMA BuildContextKeeps == IInv /\ BuildContext => IInv'
<1> SUFFICES ASSUME IInv, BuildContext PROVE IInv'
  OBVIOUS
<1>1. CASE Raise("failed")
  BY <1>1, RaiseKeeps
<1>2. CASE ~ Raise("failed")
  <2>1. t.pc = "compose" /\ Within
    BY <1>2 DEF BuildContext
  <2>2. /\ t' \in Turns /\ t'.pc = "generate"
        /\ t'.error = t.error /\ t'.result = t.result /\ t'.sql = t.sql /\ t'.id = t.id
    BY <1>2, <2>1, Locals DEF BuildContext, Turns, Phase
  <2>3. tx' \in Sessions /\ tx'.row = tx.row
    BY <1>2, <2>1, Locals DEF BuildContext, Sessions
  <2> QED
    BY <2>1, <2>2, <2>3, Locals, WithinKeeps DEF BeforeTool, BeforeExecution, BeforeHistory
<1> QED
  BY <1>1, <1>2

\* The first SQL of the language model, or none.
LEMMA ComposeKeeps == IInv /\ Compose => IInv'
<1> SUFFICES ASSUME IInv, Compose PROVE IInv'
  OBVIOUS
<1>1. CASE Raise("failed")
  BY <1>1, RaiseKeeps
<1>2. CASE UNCHANGED tx /\ Within /\ (GiveUp("scope", 0) \/ GiveUp("nosql", 0) \/ Validated(0))
  <2>1. 0 \in 0 .. MaxRetries
    BY QueryTurnAssumption DEF QueryTurnAssumption
  <2> QED
    BY <1>2, <2>1, FallbackKeeps DEF Compose, Errors
<1> QED
  BY <1>1, <1>2 DEF Compose

\* A counted correction stays within MaxRetries.
LEMMA CorrectKeeps == IInv /\ Correct => IInv'
<1> SUFFICES ASSUME IInv, Correct PROVE IInv'
  OBVIOUS
<1>1. CASE Raise("failed")
  BY <1>1, RaiseKeeps
<1>2. CASE /\ UNCHANGED tx /\ Within
           /\ GiveUp("invalid", t.retries + 1) \/ Validated(t.retries + 1)
  <2>1. t.retries + 1 \in 0 .. MaxRetries
    BY Locals, QueryTurnAssumption DEF Correct, Turns, QueryTurnAssumption
  <2> QED
    BY <1>2, <2>1, FallbackKeeps DEF Correct, Errors
<1> QED
  BY <1>1, <1>2 DEF Correct

\* Only a success has rows, and it resets the error.
LEMMA ExecuteKeeps == IInv /\ Execute => IInv'
<1> SUFFICES ASSUME IInv, Execute PROVE IInv'
  OBVIOUS
<1>1. CASE Raise("failed")
  BY <1>1, RaiseKeeps
<1>2. CASE Executed /\ UNCHANGED tx /\ Within
  <2>1. t.pc = "validated"
    BY DEF Execute
  <2>2. /\ t' \in Turns /\ t'.pc = "interpret" /\ t'.id = t.id
        /\ t'.result = "rows" => t'.error = "none"
    BY <1>2, <2>1, Locals DEF Executed, Turns, Phase, Results, Errors
  <2> QED
    BY <1>2, <2>1, <2>2, Locals, WithinKeeps
    DEF BeforeTool, BeforeExecution, BeforeHistory
<1> QED
  BY <1>1, <1>2 DEF Execute

\* The interpretation changes no result.
LEMMA InterpretKeeps == IInv /\ Interpret => IInv'
<1> SUFFICES ASSUME IInv, Interpret PROVE IInv'
  OBVIOUS
<1>1. CASE Raise("failed")
  BY <1>1, RaiseKeeps
<1>2. CASE t' = [t EXCEPT !.pc = "history"] /\ UNCHANGED tx /\ Within
  <2>1. /\ t' \in Turns /\ t'.pc = "history"
        /\ t'.error = t.error /\ t'.result = t.result /\ t'.sql = t.sql /\ t'.id = t.id
    BY <1>2, Locals DEF Interpret, Turns, Phase
  <2> QED
    BY <1>2, <2>1, Locals, WithinKeeps
    DEF Interpret, BeforeTool, BeforeExecution, BeforeHistory
<1> QED
  BY <1>1, <1>2 DEF Interpret

\* The id is there exactly when the row is flushed.
LEMMA WriteHistoryKeeps == IInv /\ WriteHistory => IInv'
<1> SUFFICES ASSUME IInv, WriteHistory PROVE IInv'
  OBVIOUS
<1>1. t.pc = "history" /\ Within
  BY DEF WriteHistory
<1>2. /\ t' \in Turns /\ t'.pc = "respond"
      /\ t'.error = t.error /\ t'.result = t.result /\ t'.sql = t.sql
  BY <1>1, Locals DEF WriteHistory, Turns, Phase
<1>3. tx' \in Sessions /\ t'.id = (tx'.row # "none")
  <2>1. CASE /\ tx' = [tx EXCEPT !.row = IF t.error = "none" THEN "success" ELSE "error"]
             /\ t' = [t EXCEPT !.pc = "respond", !.id = TRUE]
    <3>1. tx' \in Sessions /\ tx'.row # "none" /\ t'.id = TRUE
      BY <1>1, <2>1, Locals DEF Turns, Sessions
    <3> QED
      BY <3>1
  <2>2. CASE tx' = NewSession /\ t' = [t EXCEPT !.pc = "respond"]
    <3>1. tx' \in Sessions /\ tx'.row = "none" /\ t'.id = FALSE
      BY <1>1, <2>2, Locals DEF Turns, Sessions, NewSession, BeforeHistory
    <3> QED
      BY <3>1
  <2> QED
    BY <2>1, <2>2 DEF WriteHistory
<1> QED
  BY <1>1, <1>2, <1>3, Locals, WithinKeeps DEF BeforeTool, BeforeExecution, BeforeHistory

\* The answer is refused, or the chat read.
LEMMA RespondKeeps == IInv /\ Respond => IInv'
<1> SUFFICES ASSUME IInv, Respond PROVE IInv'
  OBVIOUS
<1>1. CASE Raise("failed") \/ Raise("refused")
  BY <1>1, RaiseKeeps
<1>2. CASE /\ t' = IF t.chat /\ chat # "deleted"
                   THEN [t EXCEPT !.pc = "retitle", !.fresh = chat = "new"]
                   ELSE [t EXCEPT !.pc = "commit"]
           /\ UNCHANGED tx
           /\ Within
  <2>1. /\ t' \in Turns /\ t'.pc \in {"retitle", "commit"}
        /\ t'.error = t.error /\ t'.result = t.result /\ t'.sql = t.sql /\ t'.id = t.id
    BY <1>2, Locals DEF Respond, Turns, Phase
  <2> QED
    BY <1>2, <2>1, Locals, WithinKeeps
    DEF Respond, BeforeTool, BeforeExecution, BeforeHistory
<1> QED
  BY <1>1, <1>2 DEF Respond

\* The flush of the chat keeps the flushed execution.
LEMMA RetitleKeeps == IInv /\ Retitle => IInv'
<1> SUFFICES ASSUME IInv, Retitle PROVE IInv'
  OBVIOUS
<1>1. CASE Raise("failed")
  BY <1>1, RaiseKeeps
<1>2. CASE /\ tx' = [tx EXCEPT !.title = IF t.fresh THEN "set" ELSE "touched"]
           /\ t' = [t EXCEPT !.pc = "commit"]
           /\ Within
  <2>1. /\ t' \in Turns /\ t'.pc = "commit"
        /\ t'.error = t.error /\ t'.result = t.result /\ t'.sql = t.sql /\ t'.id = t.id
    BY <1>2, Locals DEF Retitle, Turns, Phase
  <2>2. tx' \in Sessions /\ tx'.row = tx.row
    BY <1>2, Locals DEF Retitle, Sessions
  <2> QED
    BY <1>2, <2>1, <2>2, Locals, WithinKeeps
    DEF Retitle, BeforeTool, BeforeExecution, BeforeHistory
<1> QED
  BY <1>1, <1>2 DEF Retitle

\* The flushed execution is one of the log's.
LEMMA CommitKeeps == IInv /\ Commit => IInv'
<1> SUFFICES ASSUME IInv, Commit PROVE IInv'
  OBVIOUS
<1>1. CASE Raise("failed")
  BY <1>1, RaiseKeeps
<1>2. CASE ~ Raise("failed")
  <2>1. t.pc = "commit" /\ turn \in 1 .. MaxTurns /\ t \in Turns /\ tx \in Sessions
    BY QueryTurnAssumption DEF Commit, IInv, TypeOK, Clean, QueryTurnAssumption
  <2>2. history' \subseteq Executions
    BY <1>2, <2>1 DEF Commit, IInv, TypeOK, Executions, Sessions, Turns
  <2>3. ctx' \in Contexts
    <3> DEFINE stored == ~ t.plan /\ t.sql # "none"
    <3>1. stored \in BOOLEAN
      OBVIOUS
    <3>2. \A s \in BOOLEAN, i \in Intent :
             [intent |-> i, sql |-> s, question |-> TRUE] \in Contexts
      BY DEF Contexts
    <3>3. t.intent # NoIntent =>
             [intent |-> t.intent, sql |-> stored, question |-> TRUE] \in Contexts
      <4>1. t.intent \in Intent \union {NoIntent}
        BY <2>1 DEF Turns
      <4> HIDE DEF stored
      <4> QED
        BY <3>1, <3>2, <4>1
    <3>4. NoContext \in Contexts
      BY DEF Contexts
    <3>5. TurnContext \in Contexts
      BY <3>3, <3>4 DEF TurnContext
    <3> QED
      BY <1>2, <3>4, <3>5 DEF Commit, StoredContext
  <2>4. /\ answer' \in Answers /\ answer'.rows = t.result /\ answer'.error = t.error
        /\ chat' \in {"new", "titled", "renamed", "deleted"}
    BY <1>2, <2>1 DEF Commit, IInv, TypeOK, Answers, Turns
  <2> QED
    BY <1>2, <2>2, <2>3, <2>4, EndKeeps DEF Commit, IInv, RowsWithoutError
<1> QED
  BY <1>1, <1>2

-----------------------------------------------------------------------------
\* A new question starts without anything of the one before but the context.
LEMMA AskKeeps == IInv /\ Ask => IInv'
<1> SUFFICES ASSUME IInv, Ask PROVE IInv'
  OBVIOUS
<1>1. turn' \in 0 .. MaxTurns /\ turn' > 0 /\ RoundTrip(ctx) \in Contexts
  BY RoundTripType, QueryTurnAssumption DEF Ask, IInv, TypeOK, QueryTurnAssumption
<1>2. PICK role \in {"user", "admin"}, inChat \in BOOLEAN, clear \in BOOLEAN :
         t' = NewTurn("start", role, inChat,
                      IF clear THEN NoContext ELSE RoundTrip(ctx))
  BY DEF Ask
<1>3. t' \in Turns
  BY <1>1, <1>2, NewTurnType, QueryTurnAssumption DEF Phase, Contexts, QueryTurnAssumption
<1>4. /\ t'.pc = "start" /\ t'.error = "none" /\ t'.result = "none" /\ t'.sql = "none"
      /\ t'.id = FALSE
  BY <1>2 DEF NewTurn
<1>5. tx.row = "none"
  <2>1. t.id = FALSE
    BY DEF Ask, IInv, Clean, BeforeHistory, BeforeExecution, BeforeTool, TypeOK, Turns
  <2> QED
    BY <2>1 DEF IInv, IdIsFlushed
<1>6. TypeOK'
  BY <1>1, <1>3 DEF Ask, IInv, TypeOK, NoAnswer, Answers, Results, Errors
<1>7. Clean' /\ RowsWithoutError' /\ ScopedTools'
  BY <1>1, <1>4 DEF Clean, RowsWithoutError, ScopedTools
<1>8. IdIsFlushed' /\ RowsMeanSuccess'
  BY <1>4, <1>5 DEF Ask, IInv, IdIsFlushed, NoAnswer, RowsMeanSuccess
<1> QED
  BY <1>6, <1>7, <1>8 DEF IInv

\* What the user does to the chat leaves the request alone.
LEMMA EditKeeps ==
    ASSUME IInv, RenameChat \/ DeleteChat
    PROVE  IInv'
<1>1. TypeOK'
  BY DEF RenameChat, DeleteChat, IInv, TypeOK
<1>2. Clean' /\ RowsWithoutError' /\ IdIsFlushed' /\ RowsMeanSuccess'
      /\ ScopedTools'
  BY DEF RenameChat, DeleteChat, IInv, Clean, RowsWithoutError, IdIsFlushed,
         RowsMeanSuccess, ScopedTools
<1> QED
  BY <1>1, <1>2 DEF IInv

\* Every step keeps the invariant.
LEMMA IInvInductive == IInv /\ [Next]_vars => IInv'
<1> SUFFICES ASSUME IInv, [Next]_vars PROVE IInv'
  OBVIOUS
<1>1. CASE UNCHANGED vars
  BY <1>1 DEF vars, IInv, TypeOK, Clean, RowsWithoutError, IdIsFlushed, RowsMeanSuccess,
              ScopedTools
<1>2. CASE Process
  BY <1>2, FindConnectionKeeps, ClassifyKeeps, ExtractFiltersKeeps, RunDomainToolKeeps,
     BuildContextKeeps, ComposeKeeps, CorrectKeeps, ExecuteKeeps, InterpretKeeps, WriteHistoryKeeps,
     RespondKeeps, RetitleKeeps, CommitKeeps DEF Process
<1>3. CASE Ask \/ RenameChat \/ DeleteChat
  BY <1>3, AskKeeps, EditKeeps
<1> QED
  BY <1>1, <1>2, <1>3 DEF Next, Finished

\* It holds initially.
LEMMA InitIInv == Init => IInv
<1> SUFFICES ASSUME Init PROVE IInv
  OBVIOUS
<1>1. TypeOK
  BY InitTypes
<1>2. Clean /\ RowsWithoutError /\ ScopedTools
  BY DEF Init, NoTurn, NewTurn, Clean, RowsWithoutError, ScopedTools
<1>3. IdIsFlushed /\ RowsMeanSuccess
  BY DEF Init, NoTurn, NewTurn, NewSession, NoAnswer, IdIsFlushed, RowsMeanSuccess
<1> QED
  BY <1>1, <1>2, <1>3 DEF IInv

\* And therefore always.
LEMMA IInvHolds == Spec => []IInv
  BY InitIInv, IInvInductive, PTL DEF Spec

\* The state of the conversation, the session and the graph has its type.
THEOREM TypeCorrect == Spec => []TypeOK
  BY IInvHolds, PTL DEF IInv

\* An answer with rows never comes from a turn that ended in an error: the tool
\* that returned rows is not retried, and a retry that returned some reset it.
THEOREM RowsAreSuccess == Spec => []RowsMeanSuccess
  BY IInvHolds, PTL DEF IInv

\* In the role "user" only tools of user_self run, for any catalog and any
\* context the client sends.
THEOREM ToolsAreScoped == Spec => []ScopedTools
  BY IInvHolds, PTL DEF IInv

-----------------------------------------------------------------------------
(* The refinement: every step of the pipeline is a step of the contract or *)
(* leaves it alone.                                                        *)

USE DEF Contract!contractVars

\* The initial state maps to one of the contract.
LEMMA ContractInit == Init => Contract!Init
  BY DEF Init, NoTurn, NewTurn, NoAnswer, Contract!Init

\* An exception is a refusal of the contract.
LEMMA RaiseRefuses ==
    ASSUME NEW c \in {"refused", "failed"}, t.pc # "idle", Raise(c)
    PROVE  Contract!Refuse
  BY DEF Raise, NoTurn, NewTurn, NoAnswer, Contract!Refuse

\* A step within the request is a stutter.
LEMMA WithinStutters ==
    ASSUME Within, t.pc # "idle", t'.pc # "idle"
    PROVE  UNCHANGED Contract!contractVars
  BY DEF Within

\* The commit is the answer of the contract, a failing commit its refusal.
LEMMA CommitAnswers == IInv /\ Commit => Contract!Answer \/ Contract!Refuse
<1> SUFFICES ASSUME IInv, Commit, ~ Raise("failed") PROVE Contract!Answer
  BY RaiseRefuses DEF Commit
<1> DEFINE Log(H) == {h.turn : h \in H}
<1>1. /\ t.pc = "commit" /\ t' = NoTurn /\ turn' = turn
      /\ answer' = [code |-> "ok", rows |-> t.result, error |-> t.error, id |-> t.id]
      /\ chat' = IF tx.title = "set" THEN "titled" ELSE chat
      /\ history' = IF tx.row = "none" THEN history
                    ELSE history \union {[turn |-> turn, chat |-> t.chat, status |-> tx.row]}
  BY DEF Commit
<1>2. t.id = (tx.row # "none") /\ t.id \in BOOLEAN
  BY <1>1, Locals DEF IInv, TypeOK, Turns
<1>3. answer'.code = "ok" /\ answer'.id = t.id
  BY <1>1
<1>4. CASE tx.row = "none"
  <2>1. Log(history') = Log(history) /\ t.id = FALSE
    BY <1>1, <1>2, <1>4
  <2> QED
    BY <1>1, <1>3, <2>1 DEF Contract!Answer, NoTurn, NewTurn
<1>5. CASE tx.row # "none"
  <2>1. Log(history') = Log(history) \union {turn}
    <3> DEFINE e == [turn |-> turn, chat |-> t.chat, status |-> tx.row]
    <3>1. history' = history \union {e} /\ e.turn = turn
      BY <1>1, <1>5
    <3> HIDE DEF e
    <3> QED
      BY <3>1
  <2>2. t.id = TRUE
    BY <1>2, <1>5
  <2> QED
    BY <1>1, <1>3, <2>1, <2>2 DEF Contract!Answer, NoTurn, NewTurn
<1> QED
  BY <1>4, <1>5

\* Every step of the server maps to a step of the contract or a stutter.
LEMMA ProcessImplements == IInv /\ Process => [Contract!Next]_(Contract!contractVars)
<1> SUFFICES ASSUME IInv, Process
    PROVE  Contract!Refuse \/ Contract!Answer \/ UNCHANGED Contract!contractVars
  BY DEF Contract!Next
<1>1. CASE FindConnection
  BY <1>1, RaiseRefuses, WithinStutters, Locals DEF FindConnection, Turns
<1>2. CASE Classify
  <2>1. CASE Raise("failed")
    BY <1>2, <2>1, RaiseRefuses DEF Classify
  <2>2. CASE Within
    <3>1. \E i \in Intent \union {t.last.intent}, c \in BOOLEAN : Gate(i, c) \/ Raise("failed")
      BY <1>2, Zenon DEF Classify, KeywordRoute
    <3>2. t'.pc # "idle" \/ Raise("failed")
      BY <1>2, <3>1, Locals DEF Gate, Classify, Turns
    <3> QED
      BY <1>2, <2>1, <2>2, <3>2, WithinStutters DEF Classify
  <2> QED
    BY <1>2, <2>1, <2>2 DEF Classify
<1>3. CASE ExtractFilters
  BY <1>3, RaiseRefuses, WithinStutters, Locals DEF ExtractFilters, Turns
<1>4. CASE RunDomainTool
  BY <1>4, WithinStutters, Locals
  DEF RunDomainTool, ToolReturns, ToolRaises, AfterTool, Turns
<1>5. CASE Compose \/ Correct
  BY <1>5, RaiseRefuses, WithinStutters, Locals
  DEF Compose, Correct, GiveUp, Validated, Turns
<1>12. CASE BuildContext
  BY <1>12, RaiseRefuses, WithinStutters, Locals DEF BuildContext, Turns
<1>6. CASE Execute
  BY <1>6, RaiseRefuses, WithinStutters, Locals DEF Execute, Executed, Turns
<1>7. CASE Interpret
  BY <1>7, RaiseRefuses, WithinStutters, Locals DEF Interpret, Turns
<1>8. CASE WriteHistory
  BY <1>8, WithinStutters, Locals DEF WriteHistory, Turns
<1>9. CASE Respond
  BY <1>9, RaiseRefuses, WithinStutters, Locals DEF Respond, Turns
<1>10. CASE Retitle
  BY <1>10, RaiseRefuses, WithinStutters, Locals DEF Retitle, Turns
<1>11. CASE Commit
  BY <1>11, CommitAnswers
<1> QED
  BY <1>1, <1>2, <1>3, <1>4, <1>5, <1>6, <1>7, <1>8, <1>9, <1>10, <1>11, <1>12 DEF Process

\* So does a new question.
LEMMA AskImplements == IInv /\ Ask => Contract!Ask
<1> SUFFICES ASSUME IInv, Ask PROVE Contract!Ask
  OBVIOUS
<1>1. t'.pc = "start"
  BY DEF Ask, NewTurn
<1> QED
  BY <1>1 DEF Ask, NoAnswer, Contract!Ask

\* And what the user does to the chat.
LEMMA EditImplements ==
    ASSUME RenameChat \/ DeleteChat
    PROVE  Contract!EditChat
  BY DEF RenameChat, DeleteChat, Contract!EditChat

\* Together: every step of the pipeline is a step of the contract.
LEMMA StepImplements == IInv /\ [Next]_vars => [Contract!Next]_(Contract!contractVars)
<1> SUFFICES ASSUME IInv, [Next]_vars PROVE [Contract!Next]_(Contract!contractVars)
  OBVIOUS
<1>1. CASE UNCHANGED vars
  BY <1>1 DEF vars
<1>2. CASE Process
  BY <1>2, ProcessImplements
<1>3. CASE Ask \/ RenameChat \/ DeleteChat
  BY <1>3, AskImplements, EditImplements DEF Contract!Next
<1> QED
  BY <1>1, <1>2, <1>3 DEF Next, Finished

\* The pipeline implements the contract: seen from the application database, a
\* turn is one atomic change, whatever raises, is swallowed or rolled back in
\* it and whatever the user does to the chat meanwhile.
THEOREM ImplementsContract == Spec => TurnsAreAtomic
  BY ContractInit, StepImplements, IInvHolds, PTL DEF Spec, TurnsAreAtomic, Contract!Spec
=============================================================================
