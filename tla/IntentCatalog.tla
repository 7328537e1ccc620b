--------------------------- MODULE IntentCatalog ---------------------------
(***************************************************************************)
(* The vectors of the intent catalog (llm/graph/intent_catalog.py): the    *)
(* server embeds the catalog at startup and swallows a failure; a request  *)
(* that finds an entry without a vector embeds what is missing before it   *)
(* compares its question with the catalog.  One asyncio lock, one flag,    *)
(* one call of the embedding model per entry, any of which may fail.       *)
(***************************************************************************)
EXTENDS Naturals

CONSTANTS Entry,   \* INTENT_CATALOG
          Request, \* the requests whose question is classified by embedding
          Startup, \* the lifespan of the server
          NoTask,  \* the lock is free
          NoEntry

Task == Request \union {Startup}

ASSUME IntentCatalogAssumption ==
    /\ Startup \notin Request
    /\ NoTask \notin Task
    /\ NoEntry \notin Entry

VARIABLES
    embedded, \* the entries that have a vector
    asked,    \* how many vectors each entry has been given
    flag,     \* _catalog_embedded
    lock,     \* the task that holds _embed_lock
    at,       \* where each task is
    cur       \* the entry whose vector a task awaits

vars == <<embedded, asked, flag, lock, at, cur>>

Place == {"idle",
          "waiting",  \* for the lock
          "loop",     \* holds it, between two entries
          "asking",   \* holds it, awaits a vector
          "ready",    \* the catalog is ensured, the question is being embedded
          "done", "failed"}

TypeOK ==
    /\ embedded \subseteq Entry
    /\ asked \in [Entry -> Nat]
    /\ flag \in BOOLEAN
    /\ lock \in Task \union {NoTask}
    /\ at \in [Task -> Place]
    /\ cur \in [Task -> Entry \union {NoEntry}]

Init ==
    /\ embedded = {}
    /\ asked = [e \in Entry |-> 0]
    /\ flag = FALSE
    /\ lock = NoTask
    /\ at = [t \in Task |-> "idle"]
    /\ cur = [t \in Task |-> NoEntry]

Missing == Entry \ embedded

-----------------------------------------------------------------------------
\* The lifespan begins; requests are served when it is over.  A request looks
\* for an entry without a vector, and not at the flag.
Begin(t) ==
    /\ at[t] = "idle"
    /\ t # Startup => at[Startup] \in {"done", "failed"}
    /\ at' = [at EXCEPT ![t] = IF t = Startup \/ Missing # {} THEN "waiting" ELSE "ready"]
    /\ UNCHANGED <<embedded, asked, flag, lock, cur>>

\* After ensure_catalog_embedded the lifespan is over, and a request goes on to
\* embed its question.
Ensured(t) == IF t = Startup THEN "done" ELSE "ready"

\* Entered without the lock.
EnterUnlocked(t) ==
    /\ at[t] = "waiting"
    /\ IF flag THEN at' = [at EXCEPT ![t] = Ensured(t)] /\ UNCHANGED lock
       ELSE at' = [at EXCEPT ![t] = "loop"] /\ lock' = t
    /\ UNCHANGED <<embedded, asked, flag, cur>>

\* The lock is taken, and given back at once when the flag is set.
Enter(t) ==
    /\ at[t] = "waiting"
    /\ lock = NoTask
    /\ IF flag THEN at' = [at EXCEPT ![t] = Ensured(t)] /\ UNCHANGED lock
       ELSE at' = [at EXCEPT ![t] = "loop"] /\ lock' = t
    /\ UNCHANGED <<embedded, asked, flag, cur>>

\* The next entry without a vector (the others are passed over).
Ask(t) ==
    /\ at[t] = "loop"
    /\ \E e \in Missing : cur' = [cur EXCEPT ![t] = e]
    /\ at' = [at EXCEPT ![t] = "asking"]
    /\ UNCHANGED <<embedded, asked, flag, lock>>

Store(t) ==
    /\ at[t] = "asking"
    /\ embedded' = embedded \union {cur[t]}
    /\ asked' = [asked EXCEPT ![cur[t]] = @ + 1]
    /\ cur' = [cur EXCEPT ![t] = NoEntry]
    /\ at' = [at EXCEPT ![t] = "loop"]
    /\ UNCHANGED <<flag, lock>>

\* The lock stays taken.
AskFailsLocked(t) ==
    /\ at[t] = "asking"
    /\ cur' = [cur EXCEPT ![t] = NoEntry]
    /\ at' = [at EXCEPT ![t] = "failed"]
    /\ UNCHANGED <<embedded, asked, flag, lock>>

\* The model fails: the lock is released, the entries keep what they have, the
\* flag stays as it is.  Startup swallows it, a request fails.
AskFails(t) ==
    /\ at[t] = "asking"
    /\ lock' = NoTask
    /\ cur' = [cur EXCEPT ![t] = NoEntry]
    /\ at' = [at EXCEPT ![t] = "failed"]
    /\ UNCHANGED <<embedded, asked, flag>>

Finish(t) ==
    /\ at[t] = "loop"
    /\ Missing = {}
    /\ flag' = TRUE
    /\ lock' = NoTask
    /\ at' = [at EXCEPT ![t] = Ensured(t)]
    /\ UNCHANGED <<embedded, asked, cur>>

\* The question has a vector, and is compared with every entry's; or it has
\* none, and the request fails.
Score(t) ==
    /\ at[t] = "ready"
    /\ \E place \in {"done", "failed"} : at' = [at EXCEPT ![t] = place]
    /\ UNCHANGED <<embedded, asked, flag, lock, cur>>

Step(t) == Enter(t) \/ Ask(t) \/ Store(t) \/ AskFails(t) \/ Finish(t) \/ Score(t)

Next == \E t \in Task : Begin(t) \/ Step(t)

\* asyncio resumes every task whose await is over: the model answers or fails,
\* and the lock is handed to those who wait for it, in turn.  Requests need
\* not arrive.
Fairness == \A t \in Task : WF_vars(Step(t))

Spec == Init /\ [][Next]_vars /\ Fairness

-----------------------------------------------------------------------------
\* A question is compared with a catalog that is whole, although the vectors
\* come one by one and a request may find the catalog half-way; and however
\* many requests find it so at once, and however often the model has failed,
\* an entry is embedded once.
CatalogServes ==
    /\ \A t \in Request : at[t] = "ready" => embedded = Entry
    /\ \A e \in Entry : asked[e] <= 1

\* Every request that has arrived is answered or fails: a failure half-way neither blocks the
\* others nor keeps the catalog from being completed by the next one.
RequestsEnd == \A t \in Request : at[t] # "idle" ~> at[t] \in {"done", "failed"}
=============================================================================
