------------------------------ MODULE AssetPool ------------------------------
(***************************************************************************)
(* The assets of one session: assets/store.py, its triggers, and the asset *)
(* tools.  A user's message registers uploads and archives assets in one   *)
(* transaction, and the orchestrator archives by name during a turn.  Only *)
(* names and ids go to a model, which may use them much later.             *)
(***************************************************************************)
EXTENDS Integers, Sequences, FiniteSets

CONSTANTS
    Source,       \* where uploads come from
    Wanted,       \* names uploads ask for: a base and a suffix, <<2>> for "x (2)";
                  \* nothing keeps one from having the form of an id
    MaxAssets,    \* bound: rows
    MaxChanges    \* bound: transactions

ASSUME AssetBounds == MaxAssets \in Nat /\ MaxChanges \in Nat

ASSUME NameAssumption == Wanted \subseteq [base : STRING, suffix : Seq(Nat)]

VARIABLES
    assets,   \* the rows, by id; archived is 0 or the time of archiving
    now,      \* transactions committed so far
    txn       \* the transaction that is open: its rows, and whether it archives yet

assetVars == <<assets, now, txn>>

NoTransaction == [open |-> FALSE, archives |-> FALSE, rows |-> <<>>]

\* "a_0002" is written as the base "id" with <<2>>.
IdOf(i) == [base |-> "id", suffix |-> <<i>>]

Suffixed(name, n) == [name EXCEPT !.suffix = Append(@, n)]

Is(pool, i, target) == pool[i].name = target \/ IdOf(i) = target

ActiveIn(pool) == {i \in DOMAIN pool : pool[i].archived = 0}

Matching(pool, target) == {i \in ActiveIn(pool) : Is(pool, i, target)}

\* resolve_many, for one name: of the active assets of that name or id the first
\* created; none if it is archived or unknown, which the tool reports.
Resolved(pool, target) ==
    {i \in Matching(pool, target) : \A j \in Matching(pool, target) : i <= j}

\* _find_any: the active ones, otherwise the last one archived; of several that
\* its order does not tell apart, SQLite may return any.
FindAny(pool, target) ==
    IF Matching(pool, target) # {} THEN Matching(pool, target)
    ELSE {i \in DOMAIN pool : /\ Is(pool, i, target)
                              /\ \A j \in DOMAIN pool :
                                    Is(pool, j, target) => pool[j].archived <= pool[i].archived}

Taken(pool, name) == \E i \in ActiveIn(pool) : pool[i].name = name

FreeName_OneSuffix(pool, wanted) ==
    IF Taken(pool, wanted) THEN Suffixed(wanted, 2) ELSE wanted

\* _free_name: the wanted one, or with the first free "(n)" from 2 on.
FreeName(pool, wanted) ==
    IF ~Taken(pool, wanted) THEN wanted
    ELSE Suffixed(wanted, CHOOSE n \in 2 .. Len(pool) + 2 :
                            /\ ~Taken(pool, Suffixed(wanted, n))
                            /\ \A k \in 2 .. n - 1 : Taken(pool, Suffixed(wanted, k)))

\* An active asset of the same source is updated where it is (its kind, summary
\* and ref); otherwise the upload becomes a new row.
Registered(pool, upload) ==
    IF \E i \in ActiveIn(pool) : pool[i].source = upload.source
    THEN pool
    ELSE Append(pool, [name |-> FreeName(pool, upload.wanted), source |-> upload.source,
                       archived |-> 0])

\* An asset that is archived already is only reported.
Archived(pool, i) ==
    IF pool[i].archived = 0 THEN [pool EXCEPT ![i].archived = now + 1] ELSE pool

Upload == [source : Source, wanted : Wanted]

Target == {txn.rows[i].name : i \in DOMAIN txn.rows} \cup {IdOf(i) : i \in DOMAIN txn.rows}
              \cup Wanted

-----------------------------------------------------------------------------
(* A transaction, statement by statement.  Until it commits, others read the *)
(* rows as they were, and none of them begins a second.                      *)

Begins(archives) ==
    /\ ~txn.open /\ now < MaxChanges
    /\ txn' = [open |-> TRUE, archives |-> archives, rows |-> assets]
    /\ UNCHANGED <<assets, now>>

\* The uploads of a message come first, then its archives.
ApplyTurnChanges == Begins(FALSE)

\* The stages it would refuse for never name an asset, since no contract is
\* written with one.
ArchiveSessionAssets == Begins(TRUE)

Register(upload) ==
    /\ txn.open /\ ~txn.archives
    /\ Len(Registered(txn.rows, upload)) <= MaxAssets
    /\ txn' = [txn EXCEPT !.rows = Registered(@, upload)]
    /\ UNCHANGED <<assets, now>>

Archive(target) ==
    /\ txn.open
    /\ \E i \in FindAny(txn.rows, target) :
          txn' = [txn EXCEPT !.archives = TRUE, !.rows = Archived(@, i)]
    /\ UNCHANGED <<assets, now>>

Commit ==
    /\ txn.open
    /\ assets' = txn.rows /\ now' = now + 1 /\ txn' = NoTransaction

\* A target that is unknown, or anything else that raises; or the process dies.
Rollback ==
    /\ txn.open
    /\ txn' = NoTransaction
    /\ UNCHANGED <<assets, now>>

AssetInit == assets = <<>> /\ now = 0 /\ txn = NoTransaction

AssetNext ==
    \/ ApplyTurnChanges \/ ArchiveSessionAssets \/ Commit \/ Rollback
    \/ \E upload \in Upload : Register(upload)
    \/ \E target \in Target : Archive(target)

AssetSpec == AssetInit /\ [][AssetNext]_assetVars

-----------------------------------------------------------------------------
AssetTypeOK ==
    /\ now \in 0 .. MaxChanges /\ txn.open \in BOOLEAN /\ txn.archives \in BOOLEAN
    /\ \A pool \in {assets, txn.rows} :
          /\ Len(pool) <= MaxAssets
          /\ \A i \in DOMAIN pool :
                /\ pool[i].name.base \in STRING /\ pool[i].name.suffix \in Seq(Nat)
                /\ pool[i].source \in Source /\ pool[i].archived \in 0 .. MaxChanges

\* i is active, and of it and another active asset one is named like the other's
\* id.  Nothing in store.py prevents it.
Clashes(pool, i) ==
    \E j \in ActiveIn(pool) \ {i} : pool[j].name = IdOf(i) \/ pool[i].name = IdOf(j)

\* What a name means to a model does not change under it: no two active assets
\* share a name or a source, what an asset is does not change, archiving is
\* final, and a message that uploads a second "x" and archives "x" archives the
\* one the user saw.  What a name or id stood for it stands for until that asset
\* is archived, unless a name clashes with an id: then it may stand for another.
AssetsKeepTheirIdentity ==
    /\ [](\A i, j \in ActiveIn(assets) :
             i # j => assets[i].name # assets[j].name /\ assets[i].source # assets[j].source)
    /\ [][/\ \A i \in DOMAIN assets :
                /\ [assets'[i] EXCEPT !.archived = 0] = [assets[i] EXCEPT !.archived = 0]
                /\ assets[i].archived # 0 => assets'[i] = assets[i]
          /\ \A i \in ActiveIn(assets) \cap ActiveIn(assets') : ~Clashes(assets', i) =>
                Resolved(assets', assets[i].name) = {i} /\ Resolved(assets', IdOf(i)) = {i}
          /\ \A i \in DOMAIN assets' \ DOMAIN assets :
                assets'[i].archived # 0 => ~Taken(assets, assets'[i].name)]_assets
=============================================================================
