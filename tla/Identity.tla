------------------------------- MODULE Identity -------------------------------
(***************************************************************************)
(* Who a row belongs to.  Customers and businesses share one table of      *)
(* parties; a row of another table names its owner by a text that may be   *)
(* of nobody, and beside it the database keeps a reference to the party.   *)
(* Triggers keep the two in step (migration 0d7a9e4c2b11), under forms     *)
(* that mint customers, rows written by agents and sign-ups, the loading   *)
(* of the seed and the reset of the demo (app/db).                         *)
(*                                                                         *)
(* A transaction sees what is committed and what it wrote itself; what it  *)
(* wrote is in txn until it commits.  The profiles of a seed are inserted  *)
(* in one step; it locks the tables it empties, and forms lock the mint,   *)
(* so one transaction at a time makes profiles.                            *)
(***************************************************************************)
EXTENDS Naturals, FiniteSets

CONSTANTS
    People,          \* identifiers of owners
    NoOne,           \* no owner, and no reference
    SeedKind,        \* the seed's profiles: People -> {"customer", "business", "none"}
    Minted,          \* identifiers a form gives (C9xx)
    UserRows,        \* rows of users
    PaperRows,       \* rows the agents write (assessments)
    SeedRows,        \* rows of the tables the seed fills (loans)
    SeedOwner,       \* and the owner the seed gives each
    Sessions         \* connections with a transaction of their own

ASSUME IdentityAssumption ==
    /\ NoOne \notin People /\ Minted \subseteq People
    /\ SeedKind \in [People -> {"customer", "business", "none"}]
    /\ SeedOwner \in [SeedRows -> People \cup {NoOne}]

OwnedRows == UserRows \cup PaperRows \cup SeedRows

VARIABLES
    profile,  \* customers and businesses: [People -> set of kinds]
    party,    \* parties: [People -> kind or "none"]
    owned,    \* the other rows: owner, reference, and whether the row
              \* was written beside the creation of its party (history)
    txn       \* the open transaction of each session: the owners it makes or
              \* names, the rows it writes

identityVars == <<profile, party, owned, txn>>

NoTxn == [what |-> "none", step |-> "none", owners |-> {}, rows |-> {}, crossed |-> FALSE]
Gone  == [there |-> FALSE, owner |-> NoOne, ref |-> NoOne, crossed |-> FALSE]

-------------------------------------------------------------------------------
(* The migration *)

Named(o, known) == IF o \in known THEN o ELSE NoOne

\* Every profile becomes a party, every row whose owner is one refers to it;
\* an identifier with two profiles stops the migration (primary key).
UpgradeRefused(profiles) == \E o \in People : Cardinality(profiles[o]) > 1

PartiesOf(profiles) ==
    [o \in People |-> IF profiles[o] = {} THEN "none" ELSE CHOOSE k \in profiles[o] : TRUE]

Upgraded(owners, profiles) ==
    [r \in OwnedRows |->
        IF r \notin DOMAIN owners THEN Gone
        ELSE [there |-> TRUE, owner |-> owners[r], crossed |-> FALSE,
              ref |-> Named(owners[r], {o \in People : profiles[o] # {}})]]

IdentityInit ==
    /\ profile \in [People -> SUBSET {"customer", "business"}] /\ ~UpgradeRefused(profile)
    /\ party = PartiesOf(profile)
    /\ \E before \in SUBSET OwnedRows : \E owners \in [before -> People \cup {NoOne}] :
          owned = Upgraded(owners, profile)
    /\ txn = [s \in Sessions |-> NoTxn]

-------------------------------------------------------------------------------
(* The triggers *)

Known        == {o \in People : party[o] # "none"}
KindOf(t, o) == IF t.what = "form" THEN "customer" ELSE SeedKind[o]

Profiling  == {s \in Sessions : txn[s].what \in {"form", "seed", "reset"}}
Writing(r) == {s \in Sessions : r \in txn[s].rows}

\* A faulty Refresh: rows that were there before their owner stay as they are.
RefreshNone(t) == {}

\* shb_refresh_party_references: the committed rows that name one of the owners.
Refresh(t) == {r \in OwnedRows : owned[r].there /\ owned[r].owner \in t.owners}

-------------------------------------------------------------------------------
(* Transactions that make profiles *)

\* A form mints an identifier that no customer has; the trigger makes the party.
MintProfile(s, o) ==
    /\ txn[s] = NoTxn /\ Profiling = {} /\ o \in Minted /\ "customer" \notin profile[o]
    /\ txn' = [txn EXCEPT ![s] = [NoTxn EXCEPT !.what = "form", !.step = "upserted", !.owners = {o}]]
    /\ UNCHANGED <<profile, party, owned>>

\* The seed is loaded by a boot that found no data, or could not look for any;
\* or by a reset of the demo, which empties the tables of the running system first.
LoadSeed(s, why) ==
    /\ txn[s] = NoTxn /\ Profiling = {}
    /\ txn' = [txn EXCEPT ![s] = [NoTxn EXCEPT !.what = why, !.step = "upserted",
                                               !.owners = {o \in People : SeedKind[o] # "none"}]]
    /\ UNCHANGED <<profile, party>>

Boot(s) == LoadSeed(s, "seed") /\ UNCHANGED owned

Reset(s) ==
    /\ LoadSeed(s, "reset")
    /\ \A r \in PaperRows : Writing(r) = {}
    /\ owned' = [r \in OwnedRows |-> IF r \in PaperRows THEN Gone ELSE owned[r]]

\* An identifier that is a party of another kind stops the transaction.
Conflicts(s) == \E o \in txn[s].owners : party[o] \notin {"none", KindOf(txn[s], o)}

RefuseKind(s) ==
    /\ txn[s].step = "upserted" /\ Conflicts(s)
    /\ txn' = [txn EXCEPT ![s] = NoTxn]
    /\ UNCHANGED <<profile, party, owned>>

\* The rows that name the new party are updated; one that another transaction
\* has not committed is not seen.
RefreshRows(s) ==
    /\ txn[s].step = "upserted" /\ ~Conflicts(s)
    /\ txn' = [u \in Sessions |->
                  CASE u = s -> [txn[s] EXCEPT !.step = "refreshed", !.rows = Refresh(txn[s])]
                    [] txn[u].what = "row" /\ txn[u].owners \subseteq txn[s].owners -> [txn[u] EXCEPT !.crossed = TRUE]
                    [] OTHER -> txn[u]]
    /\ UNCHANGED <<profile, party, owned>>

\* The form gives the new identifier to the account of its sender.
LinkAccount(s, r) ==
    /\ txn[s].what = "form" /\ txn[s].step = "refreshed"
    /\ owned[r].there
    /\ txn' = [txn EXCEPT ![s].step = "linked", ![s].rows = @ \cup {r}]
    /\ UNCHANGED <<profile, party, owned>>

\* A row after the profiles of t: the seed's rows are new, those t wrote refer
\* to the party of their owner (of a form, t has one owner).
Settled(t, r) ==
    LET seeded == t.what # "form" /\ r \in SeedRows
        owner  == IF seeded THEN SeedOwner[r]
                  ELSE IF t.what = "form" THEN CHOOSE o \in t.owners : TRUE ELSE owned[r].owner
    IN IF seeded \/ r \in t.rows
       THEN [there |-> TRUE, owner |-> owner, ref |-> Named(owner, Known \cup t.owners), crossed |-> FALSE]
       ELSE owned[r]

CommitProfiles(s) ==
    LET t == txn[s] IN
    /\ t.step = IF t.what = "form" THEN "linked" ELSE "refreshed"
    /\ profile' = [o \in People |->
                      IF o \in t.owners THEN (IF t.what = "form" THEN profile[o] ELSE {}) \cup {KindOf(t, o)}
                      ELSE IF t.what = "form" THEN profile[o] ELSE {}]
    /\ party' = [o \in People |-> IF o \in t.owners THEN KindOf(t, o) ELSE party[o]]
    /\ owned' = [r \in OwnedRows |-> Settled(t, r)]
    /\ txn' = [txn EXCEPT ![s] = IF t.what = "reset" THEN [NoTxn EXCEPT !.step = "unlink"] ELSE NoTxn]

\* A reset ends with accounts that lose the identifiers that forms gave.
UnlinkAccounts(s) ==
    LET linked == {r \in UserRows : owned[r].owner \in Minted} IN
    /\ txn[s].step = "unlink"
    /\ \A r \in linked : Writing(r) = {}
    /\ owned' = [r \in OwnedRows |->
                    IF r \in linked THEN [owned[r] EXCEPT !.owner = NoOne, !.ref = NoOne] ELSE owned[r]]
    /\ txn' = [txn EXCEPT ![s] = NoTxn]
    /\ UNCHANGED <<profile, party>>

-------------------------------------------------------------------------------
(* Rows that name an owner *)

\* A sign-up gives an account no owner, a seeded account has one of the seed's,
\* which may come later; an agent writes about an owner that has a profile.
MayName(r) ==
    IF r \in UserRows THEN {NoOne} \cup {o \in People : SeedKind[o] # "none"}
    ELSE {o \in People : profile[o] # {}}

\* The reference is looked up as the row is written, and both become visible at
\* the commit.
WriteRow(s, r, o) ==
    /\ txn[s] = NoTxn /\ ~owned[r].there /\ Writing(r) = {} /\ o \in MayName(r)
    /\ txn' = [txn EXCEPT ![s] =
                  [what |-> "row", rows |-> {r}, owners |-> {o},
                   step |-> IF o \in Known THEN "found" ELSE "unknown",
                   crossed |-> \E u \in Profiling : o \in txn[u].owners /\ txn[u].step # "upserted"]]
    /\ UNCHANGED <<profile, party, owned>>

CommitRow(s) ==
    /\ txn[s].what = "row"
    /\ owned' = [r \in OwnedRows |->
                    IF r \notin txn[s].rows THEN owned[r]
                    ELSE LET o == CHOOSE p \in txn[s].owners : TRUE
                         IN [there |-> TRUE, owner |-> o, crossed |-> txn[s].crossed,
                             ref |-> IF txn[s].step = "found" THEN o ELSE NoOne]]
    /\ txn' = [txn EXCEPT ![s] = NoTxn]
    /\ UNCHANGED <<profile, party>>

RollBack(s) ==
    /\ txn[s].what # "none"
    /\ txn' = [txn EXCEPT ![s] = NoTxn]
    /\ UNCHANGED <<profile, party, owned>>

IdentityNext ==
    \E s \in Sessions :
        \/ \E o \in People : MintProfile(s, o)
        \/ Boot(s) \/ Reset(s)
        \/ RefuseKind(s) \/ RefreshRows(s) \/ CommitProfiles(s) \/ UnlinkAccounts(s)
        \/ \E r \in UserRows : LinkAccount(s, r)
        \/ \E r \in UserRows \cup PaperRows, o \in People \cup {NoOne} : WriteRow(s, r, o)
        \/ CommitRow(s) \/ RollBack(s)

IdentitySpec == IdentityInit /\ [][IdentityNext]_identityVars

-------------------------------------------------------------------------------

\* operational_data_issues: rows that name an owner and refer to no party.
Issues == {r \in OwnedRows : owned[r].there /\ owned[r].owner # NoOne /\ owned[r].ref = NoOne}

\* An identifier is of one kind and every profile has its party; a reference is
\* the owner's party, and the view of open issues names just the rows whose owner
\* is nobody, and those written in a transaction that crossed the one that made
\* the party: neither sees the other, and the row stays without a reference
\* (shb_sync_customer_party, shb_refresh_party_references,
\* shb_resolve_party_reference).
OwnersAreKnown ==
    /\ \A o \in People : profile[o] \subseteq {party[o]}
    /\ \A r \in OwnedRows : owned[r].ref # NoOne => owned[r].ref = owned[r].owner /\ owned[r].ref \in Known
    /\ \A r \in Issues : owned[r].owner \in Known => owned[r].crossed
=============================================================================
