----------------------------- MODULE PromptCatalog -----------------------------
(***************************************************************************)
(* The prompts of the agents (prompting/): numbered versions of a text and *)
(* one active version per key, written by administrators (admin.py) and by *)
(* the synchronisation with the repository (sync.py), and read through a   *)
(* cache with a time to live (catalog.py).  An administrator holds the     *)
(* lock of the key, a synchronisation a lock of its own, so the two meet   *)
(* only at the unique keys of prompt_versions and at the row of a binding. *)
(*                                                                         *)
(* A key is a natural number, in the order of the catalogue.  A checksum   *)
(* is the text itself.  0 is no version.                                   *)
(***************************************************************************)
EXTENDS Integers, FiniteSets, FiniteSetsExt

CONSTANTS
    PromptKeys,     \* 1 .. the number of prompts
    Texts,          \* contents a prompt may have
    RepositoryText, \* RepositoryText[k]: content of the file of k
    Admins,         \* requests of administrators
    Syncs,          \* runs of the synchronisation
    Readers,        \* threads that build a prompt
    Ttl,            \* SHB_PROMPT_CACHE_TTL_SECONDS
    MaxClock        \* bound: the clock stops here

ASSUME PromptAssumption ==
    /\ PromptKeys \subseteq Nat \ {0} /\ 1 \in PromptKeys
    /\ Ttl \in Nat
    /\ MaxClock \in Nat

Writers == Admins \cup Syncs
FileText == "file"      \* no active prompt: the repository's file is used

VARIABLES
    clock,      \* time.monotonic()
    known,      \* prompt_definitions
    versions,   \* prompt_versions, committed: [key, number, text]
    bound,      \* prompt_bindings: the active number of a key, 0 when none
    moved,      \* when the binding of a key last changed
    writer,     \* the transactions
    cache,      \* key to [until, text], or NoEntry
    loading     \* a thread that found nothing in the cache

promptVars == <<clock, known, versions, bound, moved, writer, cache, loading>>

NoEntry  == [until |-> 0 - 1, text |-> FileText]
NoBinds  == [k \in PromptKeys |-> 0]
Closed   == [pc |-> "idle", key |-> 0, text |-> FileText, activate |-> FALSE, number |-> 0,
             new |-> {}, binds |-> NoBinds]
NotLoading == [pc |-> "idle", key |-> 0, since |-> 0, text |-> FileText]

\* What transaction w sees: the committed rows and its own.
Seen(w) == versions \cup writer[w].new
OfKey(rows, k) == {v \in rows : v.key = k}

\* The rows other open transactions have written.
Pending(w) == UNION {writer[x].new : x \in Writers \ {w}}
BindsOf(w, k) == writer[w].binds[k] # 0

ActiveText(k) ==
    IF bound[k] = 0 THEN FileText
    ELSE (CHOOSE v \in versions : v.key = k /\ v.number = bound[k]).text

-------------------------------------------------------------------------------

\* The database is empty, or it was synchronised with a repository of other
\* texts before, which the run at that time activated or not.
PromptInit ==
    /\ clock = 0
    /\ \/ known = {} /\ versions = {} /\ bound = NoBinds
       \/ /\ known = PromptKeys
          /\ \E t \in Texts :
                versions = {[key |-> k, number |-> 1, text |-> t] : k \in PromptKeys}
          /\ bound \in {NoBinds, [k \in PromptKeys |-> 1]}
    /\ moved = [k \in PromptKeys |-> 0]
    /\ writer = [w \in Writers |-> Closed]
    /\ cache = [k \in PromptKeys |-> NoEntry]
    /\ loading = [r \in Readers |-> NotLoading]

TimePasses ==
    /\ clock < MaxClock
    /\ clock' = clock + 1
    /\ UNCHANGED <<known, versions, bound, moved, writer, cache, loading>>

\* save_prompt, once its advisory lock is granted: the lock is of the key.
StartSave(w, k, text, activate) ==
    /\ writer[w].pc = "idle"
    /\ \A x \in Admins : writer[x].pc \in {"idle", "ended", "clear"} \/ writer[x].key # k
    /\ k \in known
    /\ writer' = [writer EXCEPT
                     ![w] = [Closed EXCEPT !.pc = "find", !.key = k, !.text = text,
                                           !.activate = activate]]
    /\ UNCHANGED <<clock, known, versions, bound, moved, cache, loading>>

\* 400 for an empty or too long text, 404 for a key that is not registered.
RefuseSave(w) ==
    /\ writer[w].pc = "idle"
    /\ writer' = [writer EXCEPT ![w].pc = "ended"]
    /\ UNCHANGED <<clock, known, versions, bound, moved, cache, loading>>

\* sync_repository_prompts under its lock; the keys are taken in order.
StartSync(w, activate) ==
    /\ writer[w].pc = "idle"
    /\ \A x \in Syncs : writer[x].pc \in {"idle", "ended"}
    /\ writer' = [writer EXCEPT
                     ![w] = [Closed EXCEPT !.pc = "find", !.key = 1, !.text = RepositoryText[1],
                                           !.activate = activate]]
    /\ UNCHANGED <<clock, known, versions, bound, moved, cache, loading>>

\* Is there a version with this checksum?
FindVersion(w) ==
    /\ writer[w].pc = "find"
    /\ LET same == {v \in OfKey(Seen(w), writer[w].key) : v.text = writer[w].text}
       IN writer' = [writer EXCEPT
                        ![w].number = IF same = {} THEN 0 ELSE (CHOOSE v \in same : TRUE).number,
                        ![w].pc = IF same = {} THEN "number" ELSE "look"]
    /\ UNCHANGED <<clock, known, versions, bound, moved, cache, loading>>

\* COALESCE(MAX(version), 0) + 1
NextVersion(rows, k) == Max({v.number : v \in OfKey(rows, k)} \cup {0}) + 1

NumberVersion(w) ==
    /\ writer[w].pc = "number"
    /\ writer' = [writer EXCEPT ![w].number = NextVersion(Seen(w), writer[w].key),
                                ![w].pc = "insert"]
    /\ UNCHANGED <<clock, known, versions, bound, moved, cache, loading>>

\* A faulty Collide: no unique key on the checksum.
CollideByNumber(v, x) == v.key = x.key /\ v.number = x.number

\* Two rows that a unique key of prompt_versions does not let stand together.
Collide(v, x) == v.key = x.key /\ (v.number = x.number \/ v.text = x.text)

\* INSERT: waits for an open transaction that wrote a colliding row.
InsertVersion(w) ==
    LET row == [key |-> writer[w].key, number |-> writer[w].number, text |-> writer[w].text]
    IN /\ writer[w].pc = "insert"
       /\ \A x \in Pending(w) : ~Collide(row, x)
       /\ IF \E v \in versions : Collide(row, v)
          THEN writer' = [writer EXCEPT ![w] = [Closed EXCEPT !.pc = "ended"]]
          ELSE writer' = [writer EXCEPT ![w].new = @ \cup {row}, ![w].pc = "look"]
       /\ UNCHANGED <<clock, known, versions, bound, moved, cache, loading>>

\* Will the version be activated?  An administrator says so; a
\* synchronisation that was not told to looks for a binding.
LookForBinding(w) ==
    /\ writer[w].pc = "look"
    /\ writer' = [writer EXCEPT
                     ![w].pc = IF \/ writer[w].activate
                                  \/ w \in Syncs /\ bound[writer[w].key] = 0
                               THEN "bind" ELSE "next"]
    /\ UNCHANGED <<clock, known, versions, bound, moved, cache, loading>>

\* INSERT ... ON CONFLICT DO UPDATE: waits for whoever holds the row.
Bind(w) ==
    /\ writer[w].pc = "bind"
    /\ \A x \in Writers \ {w} : ~BindsOf(x, writer[w].key)
    /\ writer' = [writer EXCEPT ![w].binds[writer[w].key] = writer[w].number, ![w].pc = "next"]
    /\ UNCHANGED <<clock, known, versions, bound, moved, cache, loading>>

\* A synchronisation goes on with the next key of the catalogue.
NextKey(w) ==
    /\ writer[w].pc = "next"
    /\ w \in Syncs
    /\ writer[w].key + 1 \in PromptKeys
    /\ writer' = [writer EXCEPT ![w].key = @ + 1, ![w].text = RepositoryText[writer[w].key + 1],
                                ![w].number = 0, ![w].pc = "find"]
    /\ UNCHANGED <<clock, known, versions, bound, moved, cache, loading>>

CommitPrompts(w) ==
    /\ writer[w].pc = "next"
    /\ w \in Syncs => writer[w].key + 1 \notin PromptKeys
    /\ known' = IF w \in Syncs THEN PromptKeys ELSE known
    /\ versions' = versions \cup writer[w].new
    /\ bound' = [k \in PromptKeys |-> IF BindsOf(w, k) THEN writer[w].binds[k] ELSE bound[k]]
    /\ moved' = [k \in PromptKeys |-> IF bound'[k] # bound[k] THEN clock ELSE moved[k]]
    /\ writer' = [writer EXCEPT ![w] = [Closed EXCEPT !.pc = IF w \in Admins THEN "clear" ELSE "ended"]]
    /\ UNCHANGED <<clock, cache, loading>>

\* A statement fails, or the process dies: the transaction is undone.
AbortPrompts(w) ==
    /\ writer[w].pc \in {"find", "number", "insert", "look", "bind", "next"}
    /\ writer' = [writer EXCEPT ![w] = [Closed EXCEPT !.pc = "ended"]]
    /\ UNCHANGED <<clock, known, versions, bound, moved, cache, loading>>

\* The administrator's request empties the cache of its own process; a
\* synchronisation runs in another one.
ClearCache(w) ==
    /\ writer[w].pc = "clear"
    /\ cache' = [k \in PromptKeys |-> NoEntry]
    /\ writer' = [writer EXCEPT ![w].pc = "ended"]
    /\ UNCHANGED <<clock, known, versions, bound, moved, loading>>

\* _active: the entry has run out, or there is none.
MissCache(r, k) ==
    /\ loading[r].pc = "idle"
    /\ cache[k].until <= clock
    /\ loading' = [loading EXCEPT ![r] = [pc |-> "read", key |-> k, since |-> clock, text |-> FileText]]
    /\ UNCHANGED <<clock, known, versions, bound, moved, writer, cache>>

\* The active version, or nothing when the database does not answer.
ReadActive(r) ==
    /\ loading[r].pc = "read"
    /\ loading' \in {[loading EXCEPT ![r].pc = "store", ![r].text = t] :
                        t \in {ActiveText(loading[r].key), FileText}}
    /\ UNCHANGED <<clock, known, versions, bound, moved, writer, cache>>

\* A faulty StoreEntry: the entry counts from its storing.
StoreEntryFromNow(r) ==
    /\ loading[r].pc = "store"
    /\ cache' = [cache EXCEPT ![loading[r].key] = [until |-> clock + Ttl, text |-> loading[r].text]]
    /\ loading' = [loading EXCEPT ![r] = NotLoading]
    /\ UNCHANGED <<clock, known, versions, bound, moved, writer>>

\* The entry counts from the moment before it was read.
StoreEntry(r) ==
    /\ loading[r].pc = "store"
    /\ cache' = [cache EXCEPT
                    ![loading[r].key] = [until |-> loading[r].since + Ttl, text |-> loading[r].text]]
    /\ loading' = [loading EXCEPT ![r] = NotLoading]
    /\ UNCHANGED <<clock, known, versions, bound, moved, writer>>

WriterStep(w) ==
    \/ FindVersion(w) \/ NumberVersion(w) \/ InsertVersion(w) \/ LookForBinding(w) \/ Bind(w)
    \/ NextKey(w) \/ CommitPrompts(w) \/ AbortPrompts(w) \/ ClearCache(w)

PromptNext ==
    \/ TimePasses
    \/ \E w \in Admins :
          \/ RefuseSave(w)
          \/ \E k \in PromptKeys, t \in Texts, activate \in BOOLEAN : StartSave(w, k, t, activate)
    \/ \E w \in Syncs, activate \in BOOLEAN : StartSync(w, activate)
    \/ \E w \in Writers : WriterStep(w)
    \/ \E r \in Readers :
          \/ \E k \in PromptKeys : MissCache(r, k)
          \/ ReadActive(r) \/ StoreEntry(r)

PromptFairness == \A w \in Writers : WF_promptVars(WriterStep(w))
PromptSpec == PromptInit /\ [][PromptNext]_promptVars /\ PromptFairness

-------------------------------------------------------------------------------

\* Whoever writes at the same time, under whichever lock, and whatever is
\* undone: the versions of a key are numbered 1, 2, ... without a gap, no text
\* has two of them, and the active one exists (save_prompt, _sync_one).
VersionsAreDense ==
    \A k \in PromptKeys :
        /\ {v.number : v \in OfKey(versions, k)} = 1 .. Cardinality(OfKey(versions, k))
        /\ \A v, x \in OfKey(versions, k) : v.text = x.text => v = x
        /\ bound[k] \in 0 .. Cardinality(OfKey(versions, k))

\* A prompt that stopped being the active one is served from the cache for no
\* longer than the time to live, also when it was read before the cache was
\* emptied and stored after (_active, clear).
CacheIsRecent ==
    \A k \in PromptKeys :
        /\ cache[k].until > clock
        /\ moved[k] < cache[k].until - Ttl
        => cache[k].text \in {ActiveText(k), FileText}
=============================================================================
