-------------------------- MODULE Catalogue_proofs ---------------------------
(***************************************************************************)
(* Theorems about the catalogue and the operators' pages before it, for    *)
(* any models and providers, any rows of the tables and any number of      *)
(* requests under way.                                                     *)
(*                                                                         *)
(* Each request carries what it has read past several awaits.  Sound says  *)
(* what of that stays true whoever else writes: row ids are never reused,  *)
(* so a row found again under its id is the row that was read, with the    *)
(* same hand that made it; and a sync that read the removed list after a   *)
(* deletion has the deleted id on its list, unless someone lifted it.      *)
(* Lonely says what stays true as long as requests come one at a time:     *)
(* what a request has read is what is stored.                              *)
(*                                                                         *)
(* The tables and the console follow, each with an invariant of its own;   *)
(* the board of providers and the dashboard have a module of theirs.  What *)
(* a table shows is dated by the query it answers.  The console's          *)
(* invariant rests on the catalogue's: a request of the page is where the  *)
(* service has taken it, and as long as nothing else writes, the list a    *)
(* page has read is the one stored.                                        *)
(***************************************************************************)
EXTENDS Board_proofs

CatalogueTyped ==
  /\ catalogue \in Lists /\ removed \in Suppressions
  /\ configs \in [Providers -> ConfigRow \union {Null}] /\ routed \in SUBSET Custom
  /\ issued \in 0..MaxRows
  /\ call \in [Calls -> Call]
  /\ overlapped \in BOOLEAN
  /\ buried \in [Models -> Burial \union {Null}]

(* Rows the upstream made have an id of their provider's.                  *)
RowsOwned ==
  /\ \A m \in Models : Exists(m) => /\ catalogue[m].id <= issued
                                    /\ catalogue[m].manual \/ m \in Offers[catalogue[m].provider]
  /\ \A m \in Models : removed[m] # Null => m \in Offers[removed[m].provider]

(* The row m, if it is still the one with this id, was made by that hand.  *)
SameHand(m, id, manual) ==
  /\ id <= issued
  /\ Exists(m) /\ catalogue[m].id = id => catalogue[m].manual = manual

Adding == {"probe", "lift", "insert"}

(* What a request has established, whoever else writes.                    *)
Sound(r) ==
  /\ r.at \in {"chain", "save", "referenced", "remove", "unremove"} \union Adding => r.model \in Models
  /\ r.at \in Adding => r.op = "create"
  /\ r.at = "chain" => r.op \in {"create", "update"}
  /\ r.op = "create" => r.chain \in SUBSET Models /\ r.owner \in Providers
  /\ r.at = "scan" => /\ r.owner \in Providers
                      /\ r.listed \subseteq Offers[r.owner] /\ r.again \subseteq Offers[r.owner]
  /\ r.at = "scan" /\ r.rows # Null =>
       \A m \in Models : r.rows[m] # Null => SameHand(m, r.rows[m].id, r.rows[m].manual)
  /\ r.at \in {"referenced", "remove"} =>
       /\ r.owner \in Providers /\ (r.manual \/ r.model \in Offers[r.owner])
       /\ SameHand(r.model, r.id, r.manual)
  /\ r.at \in {"register", "toggle", "count", "unregister"} => r.owner \in Providers

(* r has m on its removed list, if it has read one that could name it.     *)
Warned(r, m) == r.at = "scan" /\ r.gone # Null /\ m \in Offers[r.owner] => r.gone[m] # Null

(* A synced row deleted last is suppressed, and later syncs know it.       *)
BuriedDeep ==
  \A m \in Models : buried[m] # Null /\ ~buried[m].manual =>
    /\ removed[m] # Null
    /\ \A c \in Calls \ buried[m].by : Warned(call[c], m)

(* The row's provider is compiled in or has its row.                       *)
Backed(p) == p \in Custom => configs[p] # Null

Settledness ==
  /\ routed = Enabled
  /\ \A m \in Models : Exists(m) => /\ \A n \in catalogue[m].fallbacks : Exists(n)
                                    /\ Backed(catalogue[m].provider)
                                    /\ removed[m] = Null

(* What a request has established when nobody else writes.                 *)
Lonely(r) ==
  /\ r.at = "save" /\ r.chain # Untouched => \A n \in r.chain : Exists(n)
  /\ r.at \in Adding => \A n \in r.chain : Exists(n)
  /\ r.at \in {"chain"} \union Adding /\ r.op = "create" => Backed(r.owner)
  /\ r.at = "insert" => removed[r.model] = Null
  /\ r.at = "remove" => \A m \in Models \ {r.model} : Exists(m) => r.model \notin catalogue[m].fallbacks
  /\ r.at \in {"next", "scan"} => \A p \in r.todo : Backed(p)
  /\ r.at = "scan" => Backed(r.owner)
  /\ r.at = "unregister" => OfProvider(r.owner) = {}
  /\ r.at = "scan" /\ r.rows # Null =>
       \A m \in r.listed : r.rows[m] # Null <=> Exists(m) /\ catalogue[m].provider = r.owner
  /\ r.at = "scan" /\ r.rows # Null => \A m \in r.again : r.rows[m] # Null => Exists(m)
  /\ r.at = "scan" /\ r.gone # Null =>
       \A m \in r.listed \union r.again : r.gone[m] = Null => removed[m] = Null

Alone ==
  /\ Settledness
  /\ \A c \in Calls : Lonely(call[c])
  /\ \A c, d \in UnderWay : c = d

CatalogueParts ==
  /\ CatalogueTyped /\ RowsOwned
  /\ \A c \in Calls : Sound(call[c])
  /\ BuriedDeep
  /\ ~overlapped => Alone

CatalogueInv == part = "catalogue" => CatalogueParts

-----------------------------------------------------------------------------
(* What every step of the catalogue leaves true.                           *)

TablesTyped ==
  /\ catalogue \in Lists /\ removed \in Suppressions
  /\ configs \in [Providers -> ConfigRow \union {Null}] /\ routed \in SUBSET Custom
  /\ issued \in 0..MaxRows
  /\ overlapped \in BOOLEAN
  /\ buried \in [Models -> Burial \union {Null}]

(* A row under an id issued before is the row that had it, made by the     *)
(* same hand.                                                              *)
NoIdIsReused ==
  /\ issued <= issued'
  /\ \A m \in Models : Exists(m)' /\ catalogue'[m].id <= issued =>
       Exists(m) /\ catalogue[m].id = catalogue'[m].id /\ catalogue[m].manual = catalogue'[m].manual

Places == {"idle", "next", "scan", "list", "providers", "answer", "failed", "lost", "chain", "save",
           "referenced", "remove", "unremove", "register", "toggle", "count", "unregister"}
          \union Adding

LEMMA IdleIsTyped ==
  /\ Idle \in Call /\ Idle.at = "idle" /\ Idle.op = "none" /\ Idle.rows = Null /\ Idle.gone = Null
  /\ Idle.chain = {} /\ Idle.model = Null /\ Idle.owner = Null /\ Idle.todo = {}
  /\ ~Idle.wrote
BY CatalogueAssumption DEF Idle, Call, CatalogueAssumption

LEMMA SameHandStays ==
  ASSUME TablesTyped, TablesTyped', NoIdIsReused, NEW m \in Models, NEW id \in 0..MaxRows, NEW manual,
         SameHand(m, id, manual)
  PROVE  /\ id <= issued'
         /\ catalogue'[m] # Null /\ catalogue'[m].id = id => catalogue'[m].manual = manual
BY DEF SameHand, NoIdIsReused, TablesTyped, Lists, Row, Exists

(* What a request has established stays so whatever is written.            *)
LEMMA SoundStays ==
  ASSUME CatalogueParts, TablesTyped', NoIdIsReused, NEW c, NEW r \in Call, Sound(r),
         call'[c] = r
  PROVE  Sound(call[c])'
<1>1. Sound(r) /\ r \in Call /\ TablesTyped
  BY DEF CatalogueParts, CatalogueTyped, TablesTyped
<1>2. r.at = "scan" /\ r.rows # Null =>
        \A m \in Models : r.rows[m] # Null =>
          /\ r.rows[m].id <= issued'
          /\ catalogue'[m] # Null /\ catalogue'[m].id = r.rows[m].id =>
               catalogue'[m].manual = r.rows[m].manual
  <2> SUFFICES ASSUME r.at = "scan" /\ r.rows # Null, NEW m \in Models, r.rows[m] # Null
               PROVE  /\ r.rows[m].id <= issued'
                      /\ catalogue'[m] # Null /\ catalogue'[m].id = r.rows[m].id =>
                           catalogue'[m].manual = r.rows[m].manual
    OBVIOUS
  <2>1. r.rows \in Lists
    BY <1>1 DEF Call
  <2>2. r.rows[m].id \in 0..MaxRows
    BY <2>1, CatalogueAssumption DEF Lists, Row, CatalogueAssumption
  <2>3. SameHand(m, r.rows[m].id, r.rows[m].manual)
    BY <1>1 DEF Sound
  <2> QED BY <1>1, <2>2, <2>3, SameHandStays
<1>3. r.at \in {"referenced", "remove"} =>
        /\ r.id <= issued'
        /\ catalogue'[r.model] # Null /\ catalogue'[r.model].id = r.id =>
             catalogue'[r.model].manual = r.manual
  <2> SUFFICES ASSUME r.at \in {"referenced", "remove"}
               PROVE  /\ r.id <= issued'
                      /\ catalogue'[r.model] # Null /\ catalogue'[r.model].id = r.id =>
                           catalogue'[r.model].manual = r.manual
    OBVIOUS
  <2>1. r.model \in Models /\ SameHand(r.model, r.id, r.manual)
    BY <1>1 DEF Sound
  <2>2. r.id \in 0..MaxRows
    BY <1>1 DEF Call
  <2> QED BY <1>1, <2>1, <2>2, SameHandStays
<1> QED BY <1>1, <1>2, <1>3 DEF Sound, SameHand, Exists, Adding

LEMMA OthersSound ==
  ASSUME CatalogueParts, TablesTyped', NoIdIsReused, NEW c \in Calls, call'[c] = call[c]
  PROVE  Sound(call[c])'
<1> DEFINE r == call[c]
<1>1. Sound(r) /\ r \in Call /\ call'[c] = r
  BY DEF CatalogueParts, CatalogueTyped
<1> HIDE DEF r
<1> QED BY <1>1, SoundStays

(* One request moves on.                                                   *)
LEMMA Moved ==
  ASSUME CatalogueParts, NEW c \in Calls, NEW r \in Call, call' = [call EXCEPT ![c] = r],
         NoIdIsReused, TablesTyped', RowsOwned', Sound(call[c])', BuriedDeep',
         ~overlapped' => Alone'
  PROVE  CatalogueParts'
<1>1. /\ call' \in [Calls -> Call] /\ call'[c] = r
      /\ \A d \in Calls : d # c => call'[d] = call[d]
  BY DEF CatalogueParts, CatalogueTyped
<1>2. \A d \in Calls : Sound(call[d])'
  BY <1>1, OthersSound
<1>3. CatalogueTyped'
  BY <1>1 DEF CatalogueTyped, TablesTyped
<1> QED BY <1>2, <1>3 DEF CatalogueParts

(* Whoever is alone stays alone.                                           *)
LEMMA StillAlone ==
  ASSUME CatalogueParts, NEW c \in Calls, NEW r \in Call, call' = [call EXCEPT ![c] = r],
         ~overlapped' => ~overlapped, call[c].at # "idle",
         Alone /\ ~overlapped' => Settledness' /\ Lonely(call[c])'
  PROVE  ~overlapped' => Alone'
<1> SUFFICES ASSUME ~overlapped'
             PROVE  Alone'
  OBVIOUS
<1>1. Alone
  BY DEF CatalogueParts
<1>2. /\ call'[c] = r /\ \A d \in Calls : d # c => call'[d] = call[d]
  BY DEF CatalogueParts, CatalogueTyped
<1>3. \A d \in Calls : d # c => call[d].at = "idle"
  BY <1>1 DEF Alone, UnderWay
<1>4. \A d \in Calls : Lonely(call[d])'
  BY <1>1, <1>2, <1>3 DEF Lonely, Adding
<1>5. \A d, e \in UnderWay' : d = e
  BY <1>2, <1>3 DEF UnderWay
<1> QED BY <1>1, <1>4, <1>5 DEF Alone

LEMMA StillBuried ==
  ASSUME CatalogueParts, NEW c \in Calls, NEW r \in Call, call' = [call EXCEPT ![c] = r],
         UNCHANGED <<buried, removed>>,
         \A m \in Models : buried[m] # Null /\ ~buried[m].manual /\ Warned(call[c], m) => Warned(r, m)
  PROVE  BuriedDeep'
<1>1. /\ call'[c] = r /\ \A d \in Calls : d # c => call'[d] = call[d]
  BY DEF CatalogueParts, CatalogueTyped
<1>2. \A m \in Models : buried[m] # Null /\ ~buried[m].manual =>
        removed[m] # Null /\ \A d \in Calls \ buried[m].by : Warned(call'[d], m)
  BY <1>1 DEF CatalogueParts, BuriedDeep
<1> QED BY <1>2 DEF BuriedDeep, Warned

(* A request moves on and touches no table.                                *)
LEMMA Asks ==
  ASSUME CatalogueParts, NEW c \in Calls, NEW r \in Call, call' = [call EXCEPT ![c] = r],
         UNCHANGED <<catalogue, removed, configs, routed, issued, buried, overlapped>>,
         call[c].at # "idle", Sound(r), Alone => Lonely(r),
         \A m \in Models : buried[m] # Null /\ ~buried[m].manual /\ Warned(call[c], m) => Warned(r, m)
  PROVE  CatalogueParts'
<1>1. call'[c] = r
  BY DEF CatalogueParts, CatalogueTyped
<1>2. TablesTyped' /\ TablesTyped
  BY DEF CatalogueParts, CatalogueTyped, TablesTyped
<1>3. NoIdIsReused
  BY <1>2 DEF NoIdIsReused, TablesTyped, Exists
<1>4. RowsOwned'
  BY DEF CatalogueParts, RowsOwned, Exists
<1>5. Sound(call[c])'
  BY <1>1 DEF Sound, SameHand, Exists, Adding
<1>6. Alone => Settledness' /\ Lonely(call[c])'
  <2> SUFFICES ASSUME Alone
               PROVE  Settledness' /\ Lonely(call[c])'
    OBVIOUS
  <2>1. Settledness'
    BY DEF Alone, Settledness, Exists, Backed, Enabled
  <2>2. Lonely(r)
    OBVIOUS
  <2>3. Lonely(call[c])'
    BY <1>1, <2>2 DEF Lonely, Exists, Backed, OfProvider, Adding
  <2> QED BY <2>1, <2>3
<1> QED BY <1>2, <1>3, <1>4, <1>5, <1>6, Moved, StillAlone, StillBuried
-----------------------------------------------------------------------------
(* Requests as they arrive.                                                *)

(* One arrives, and has read nothing.                                      *)
LEMMA Begins ==
  ASSUME CatalogueParts, NEW c \in Calls, NEW r \in Call, call' = [call EXCEPT ![c] = r],
         call[c].at = "idle", r.at # "scan",
         overlapped' = (overlapped \/ UnderWay # {}),
         buried' = [m \in Models |-> IF buried[m] = Null THEN Null
                                      ELSE [buried[m] EXCEPT !.by = buried[m].by \ {c}]],
         UNCHANGED <<catalogue, removed, configs, routed, issued>>,
         Sound(r), Settledness => Lonely(r)
  PROVE  CatalogueParts'
<1>1. /\ call'[c] = r /\ \A d \in Calls : d # c => call'[d] = call[d]
  BY DEF CatalogueParts, CatalogueTyped
<1>2. buried \in [Models -> Burial \union {Null}]
  BY DEF CatalogueParts, CatalogueTyped
<1>3. \A m \in Models :
        /\ buried[m] = Null => buried'[m] = Null
        /\ buried[m] # Null => /\ buried'[m] \in Burial /\ buried'[m].manual = buried[m].manual
                               /\ buried'[m].by = buried[m].by \ {c}
  BY <1>2 DEF Burial
<1>4. TablesTyped' /\ TablesTyped
  <2>1. buried' \in [Models -> Burial \union {Null}]
    BY <1>3
  <2>2. overlapped' \in BOOLEAN
    OBVIOUS
  <2> QED BY <2>1, <2>2 DEF CatalogueParts, CatalogueTyped, TablesTyped
<1>5. NoIdIsReused
  BY <1>4 DEF NoIdIsReused, TablesTyped, Exists
<1>6. RowsOwned'
  BY DEF CatalogueParts, RowsOwned, Exists
<1>7. Sound(call[c])'
  BY <1>1 DEF Sound, SameHand, Exists, Adding
<1>8. BuriedDeep'
  <2>1. \A m \in Models : buried[m] # Null /\ ~buried[m].manual =>
          removed[m] # Null /\ \A d \in Calls \ (buried[m].by \ {c}) : Warned(call'[d], m)
    BY <1>1 DEF CatalogueParts, BuriedDeep, Warned
  <2> QED BY <1>3, <2>1 DEF BuriedDeep, Warned
<1>9. ~overlapped' => Alone'
  <2> SUFFICES ASSUME ~overlapped'
               PROVE  Alone'
    OBVIOUS
  <2>1. ~overlapped /\ UnderWay = {}
    OBVIOUS
  <2>2. Settledness /\ \A d \in Calls : call[d].at = "idle"
    BY <2>1 DEF CatalogueParts, Alone, UnderWay
  <2>3. Settledness'
    BY <2>2 DEF Settledness, Exists, Backed, Enabled
  <2>4. Lonely(r)
    BY <2>2
  <2>5. Lonely(call[c])'
    BY <1>1, <2>4 DEF Lonely, Exists, Backed, OfProvider, Adding
  <2>6. \A d \in Calls : Lonely(call[d])'
    BY <1>1, <2>2, <2>5 DEF Lonely, Adding
  <2>7. \A d, e \in UnderWay' : d = e
    BY <1>1, <2>2 DEF UnderWay
  <2> QED BY <2>3, <2>6, <2>7 DEF Alone
<1> QED BY <1>4, <1>5, <1>6, <1>7, <1>8, <1>9, Moved

LEMMA Starts ==
  ASSUME CatalogueParts, NEW c \in Calls, NEW what, NEW where, NEW locals,
         Start(c, what, where, locals), UNCHANGED <<catalogue, removed, configs, routed>>,
         [locals EXCEPT !.op = what, !.at = where] \in Call,
         [locals EXCEPT !.op = what, !.at = where].at # "scan",
         Sound([locals EXCEPT !.op = what, !.at = where]),
         Settledness => Lonely([locals EXCEPT !.op = what, !.at = where])
  PROVE  CatalogueParts'
<1> DEFINE r == [locals EXCEPT !.op = what, !.at = where]
<1>1. /\ call' = [call EXCEPT ![c] = r] /\ call[c].at = "idle"
      /\ overlapped' = (overlapped \/ UnderWay # {})
      /\ buried' = [m \in Models |-> IF buried[m] = Null THEN Null
                                      ELSE [buried[m] EXCEPT !.by = buried[m].by \ {c}]]
      /\ UNCHANGED <<catalogue, removed, configs, routed, issued>>
  BY DEF Start
<1>2. r \in Call /\ r.at # "scan" /\ Sound(r) /\ (Settledness => Lonely(r))
  OBVIOUS
<1> HIDE DEF r
<1> QED BY <1>1, <1>2, Begins

LEMMA SyncBegins ==
  ASSUME CatalogueParts, NEW c \in Calls, NEW t \in Tabs, NEW what \in {"sync", "syncOne"},
         NEW ps \in SUBSET Providers, Sync(c, t, what, ps)
  PROVE  CatalogueParts'
<1> DEFINE todo == {p \in ps : Registered(p)}
           locals == [Idle EXCEPT !.tab = t, !.todo = todo]
           r == [locals EXCEPT !.op = what, !.at = "next"]
<1>1. todo \in SUBSET Providers /\ (Settledness => \A p \in todo : Backed(p))
  BY DEF Registered, Backed, Settledness, Enabled
<1>2. Start(c, what, "next", locals) /\ UNCHANGED <<catalogue, removed, configs, routed>>
  BY DEF Sync
<1> HIDE DEF todo
<1>3. r \in Call /\ r.op = what /\ r.at = "next" /\ r.todo = todo
  BY ZenonT(40), <1>1, IdleIsTyped DEF Call
<1>4. Sound(r) /\ (Settledness => Lonely(r))
  <2> HIDE DEF r
  <2> QED BY <1>1, <1>3 DEF Sound, Lonely, Adding
<1> QED BY <1>2, <1>3, <1>4, Starts

LEMMA CreateBegins ==
  ASSUME CatalogueParts, NEW c \in Calls, NEW t \in Tabs, NEW m \in Models, NEW p \in Providers,
         NEW chain \in SUBSET Models, CreateManual(c, t, m, p, chain)
  PROVE  CatalogueParts'
<1> DEFINE locals == [Idle EXCEPT !.tab = t, !.model = m, !.owner = p, !.chain = chain]
           where == IF chain = {} THEN "probe" ELSE "chain"
           r == [locals EXCEPT !.op = "create", !.at = where]
<1>1. Registered(p) /\ Start(c, "create", where, locals) /\ UNCHANGED <<catalogue, removed, configs, routed>>
  BY DEF CreateManual
<1>2. where \in {"probe", "chain"} /\ (where = "probe" => chain = {})
  OBVIOUS
<1> HIDE DEF where
<1>3. r \in Call /\ r.op = "create" /\ r.at = where /\ r.model = m /\ r.owner = p /\ r.chain = chain
  BY <1>2, IdleIsTyped DEF Call
<1>4. Sound(r) /\ (Settledness => Lonely(r))
  <2> HIDE DEF r
  <2>1. Settledness => Backed(p)
    BY <1>1 DEF Registered, Backed, Settledness, Enabled
  <2> QED BY <1>2, <1>3, <2>1 DEF Sound, Lonely, Adding
<1> QED BY <1>1, <1>2, <1>3, <1>4, Starts

LEMMA UpdateBegins ==
  ASSUME CatalogueParts, NEW c \in Calls, NEW t \in Tabs, NEW m \in Models, NEW id,
         NEW chain \in {Untouched} \union SUBSET Models, Update(c, t, m, id, chain)
  PROVE  CatalogueParts'
<1> DEFINE locals == [Idle EXCEPT !.tab = t, !.model = m, !.id = id, !.chain = chain]
           where == IF chain \in {{}, Untouched} THEN "save" ELSE "chain"
           r == [locals EXCEPT !.op = "update", !.at = where]
<1>1. id \in 0..MaxRows
  BY CatalogueAssumption
     DEF Update, CatalogueParts, CatalogueTyped, Lists, Row, Exists, CatalogueAssumption
<1>2. Start(c, "update", where, locals) /\ UNCHANGED <<catalogue, removed, configs, routed>>
  BY DEF Update
<1>3. where \in {"save", "chain"} /\ (where = "save" => chain \in {{}, Untouched})
  OBVIOUS
<1> HIDE DEF where
<1>4. r \in Call /\ r.op = "update" /\ r.at = where /\ r.model = m /\ r.chain = chain
  BY <1>1, <1>3, IdleIsTyped DEF Call
<1>5. Sound(r) /\ Lonely(r)
  <2> HIDE DEF r
  <2> QED BY <1>3, <1>4 DEF Sound, Lonely, Adding
<1> QED BY <1>2, <1>3, <1>4, <1>5, Starts

LEMMA DeleteBegins ==
  ASSUME CatalogueParts, NEW c \in Calls, NEW t \in Tabs, NEW m \in Models, NEW id,
         DeleteModel(c, t, m, id)
  PROVE  CatalogueParts'
<1> DEFINE manual == catalogue[m].manual
           owner == catalogue[m].provider
           locals == [Idle EXCEPT !.tab = t, !.model = m, !.id = id, !.manual = manual,
                                  !.owner = owner]
           r == [locals EXCEPT !.op = "delete", !.at = "referenced"]
<1>1. /\ catalogue[m] \in Row /\ Exists(m) /\ catalogue[m].id = id /\ id <= issued
      /\ manual \/ m \in Offers[owner]
  BY DEF DeleteModel, CatalogueParts, CatalogueTyped, RowsOwned, Lists, Exists
<1>2. id \in 0..MaxRows /\ manual \in BOOLEAN /\ owner \in Providers
  BY <1>1, CatalogueAssumption DEF Row, CatalogueAssumption
<1>3. SameHand(m, id, manual)
  BY <1>1 DEF SameHand
<1>4. Start(c, "delete", "referenced", locals) /\ UNCHANGED <<catalogue, removed, configs, routed>>
  BY DEF DeleteModel
<1> HIDE DEF manual, owner
<1>5. /\ r \in Call /\ r.op = "delete" /\ r.at = "referenced" /\ r.model = m /\ r.id = id
      /\ r.manual = manual /\ r.owner = owner
  BY <1>2, IdleIsTyped DEF Call
<1>6. Sound(r) /\ Lonely(r)
  <2> HIDE DEF r
  <2> QED BY <1>1, <1>2, <1>3, <1>5 DEF Sound, Lonely, Adding
<1> QED BY <1>4, <1>5, <1>6, Starts

LEMMA RestoreBegins ==
  ASSUME CatalogueParts, NEW c \in Calls, NEW t \in Tabs, NEW m \in Models, NEW id,
         Restore(c, t, m, id)
  PROVE  CatalogueParts'
<1> DEFINE locals == [Idle EXCEPT !.tab = t, !.model = m, !.id = id]
           r == [locals EXCEPT !.op = "restore", !.at = "unremove"]
<1>1. id \in 0..MaxRows
  BY CatalogueAssumption
     DEF Restore, CatalogueParts, CatalogueTyped, Suppressions, RemovedRow, CatalogueAssumption
<1>2. Start(c, "restore", "unremove", locals) /\ UNCHANGED <<catalogue, removed, configs, routed>>
  BY DEF Restore
<1>3. r \in Call /\ r.op = "restore" /\ r.at = "unremove" /\ r.model = m
  BY <1>1, IdleIsTyped DEF Call
<1>4. Sound(r) /\ Lonely(r)
  <2> HIDE DEF r
  <2> QED BY <1>3 DEF Sound, Lonely, Adding
<1> QED BY <1>2, <1>3, <1>4, Starts

(* The three requests about a provider.                                    *)
LEMMA ProviderBegins ==
  ASSUME CatalogueParts, NEW c \in Calls, NEW t \in Tabs, NEW p \in Providers, NEW id,
         NEW enable \in BOOLEAN,
         \/ AddProvider(c, t, p) \/ ToggleProvider(c, t, p, id, enable) \/ DropProvider(c, t, p, id)
  PROVE  CatalogueParts'
<1>1. configs[p] # Null /\ configs[p].id = id => id \in 0..MaxRows
  BY CatalogueAssumption DEF CatalogueParts, CatalogueTyped, ConfigRow, CatalogueAssumption
<1>2. CASE AddProvider(c, t, p)
  <2> DEFINE locals == [Idle EXCEPT !.tab = t, !.owner = p]
             r == [locals EXCEPT !.op = "register", !.at = "register"]
  <2>1. Start(c, "register", "register", locals) /\ UNCHANGED <<catalogue, removed, configs, routed>>
    BY <1>2 DEF AddProvider
  <2>2. r \in Call /\ r.op = "register" /\ r.at = "register" /\ r.owner = p
    BY IdleIsTyped DEF Call
  <2>3. Sound(r) /\ Lonely(r)
    <3> HIDE DEF r
    <3> QED BY <2>2 DEF Sound, Lonely, Adding
  <2> QED BY <2>1, <2>2, <2>3, Starts
<1>3. CASE ToggleProvider(c, t, p, id, enable)
  <2> DEFINE locals == [Idle EXCEPT !.tab = t, !.owner = p, !.id = id, !.enable = enable]
             r == [locals EXCEPT !.op = "toggle", !.at = "toggle"]
  <2>1. /\ Start(c, "toggle", "toggle", locals) /\ UNCHANGED <<catalogue, removed, configs, routed>>
        /\ id \in 0..MaxRows
    BY <1>1, <1>3 DEF ToggleProvider
  <2>2. r \in Call /\ r.op = "toggle" /\ r.at = "toggle" /\ r.owner = p
    BY ZenonT(40), <2>1, IdleIsTyped DEF Call
  <2>3. Sound(r) /\ Lonely(r)
    <3> HIDE DEF r
    <3> QED BY <2>2 DEF Sound, Lonely, Adding
  <2> QED BY <2>1, <2>2, <2>3, Starts
<1>4. CASE DropProvider(c, t, p, id)
  <2> DEFINE locals == [Idle EXCEPT !.tab = t, !.owner = p, !.id = id]
             r == [locals EXCEPT !.op = "unregister", !.at = "count"]
  <2>1. /\ Start(c, "unregister", "count", locals) /\ UNCHANGED <<catalogue, removed, configs, routed>>
        /\ id \in 0..MaxRows
    BY <1>1, <1>4 DEF DropProvider
  <2>2. r \in Call /\ r.op = "unregister" /\ r.at = "count" /\ r.owner = p
    BY <2>1, IdleIsTyped DEF Call
  <2>3. Sound(r) /\ Lonely(r)
    <3> HIDE DEF r
    <3> QED BY <2>2 DEF Sound, Lonely, Adding
  <2> QED BY <2>1, <2>2, <2>3, Starts
<1> QED BY <1>2, <1>3, <1>4
-----------------------------------------------------------------------------
(* Requests on their way.                                                  *)

(* The request c as r, with another place.                                 *)
Onward(r, c, at) ==
  /\ r \in Call /\ r.at = at /\ r.op = call[c].op /\ r.model = call[c].model /\ r.id = call[c].id
  /\ r.manual = call[c].manual /\ r.owner = call[c].owner /\ r.chain = call[c].chain
  /\ r.todo = call[c].todo

LEMMA InCall ==
  ASSUME CatalogueParts, NEW c \in Calls
  PROVE  call[c] \in Call /\ Sound(call[c]) /\ (Alone => Lonely(call[c]))
BY DEF CatalogueParts, CatalogueTyped, Alone

LEMMA GoneOn ==
  ASSUME CatalogueParts, NEW c \in Calls, NEW at \in Places, Goto(c, at)
  PROVE  /\ overlapped' = overlapped
         /\ \E r \in Call : call' = [call EXCEPT ![c] = r] /\ Onward(r, c, at)
<1> DEFINE r == [call[c] EXCEPT !.at = at]
<1>1. call[c] \in Call
  BY InCall
<1>2. r \in Call /\ Onward(r, c, at)
  BY <1>1 DEF Call, Onward, Places, Adding
<1>3. call' = [call EXCEPT ![c] = r] /\ overlapped' = overlapped
  BY DEF Goto
<1> HIDE DEF r
<1> QED BY <1>2, <1>3

LEMMA Goes ==
  ASSUME CatalogueParts, NEW c \in Calls, NEW at \in Places, Goto(c, at),
         call[c].at # "idle", at # "scan",
         UNCHANGED <<catalogue, removed, configs, routed, issued, buried>>,
         \A r \in Call : Onward(r, c, at) => Sound(r) /\ (Alone => Lonely(r))
  PROVE  CatalogueParts'
<1>1. PICK r \in Call : call' = [call EXCEPT ![c] = r] /\ Onward(r, c, at)
  BY GoneOn
<1>2. overlapped' = overlapped
  BY GoneOn
<1>3. r.at = at
  BY <1>1 DEF Onward
<1>4. \A m \in Models : Warned(r, m)
  BY <1>3 DEF Warned
<1> QED BY <1>1, <1>2, <1>4, Asks

(* Where there is nothing left to know.                                    *)
Resting == {"list", "providers", "answer", "failed", "lost"}

LEMMA AtRest ==
  ASSUME CatalogueParts, NEW c \in Calls, NEW r \in Call, NEW at \in Resting, Onward(r, c, at)
  PROVE  Sound(r) /\ Lonely(r) /\ \A m \in Models : Warned(r, m)
<1>1. r.at = at /\ r.op = call[c].op /\ r.chain = call[c].chain /\ r.owner = call[c].owner
  BY DEF Onward
<1>2. Sound(call[c])
  BY InCall
<1>3. Sound(r)
  BY <1>1, <1>2 DEF Sound, Resting, Adding
<1>4. Lonely(r) /\ \A m \in Models : Warned(r, m)
  BY <1>1 DEF Lonely, Resting, Adding, Warned
<1> QED BY <1>3, <1>4

LEMMA Rests ==
  ASSUME CatalogueParts, NEW c \in Calls, NEW at \in Resting, Goto(c, at), call[c].at # "idle",
         UNCHANGED <<catalogue, removed, configs, routed, issued, buried>>
  PROVE  CatalogueParts'
<1>1. at \in Places /\ at # "scan"
  BY DEF Resting, Places
<1>2. \A r \in Call : Onward(r, c, at) => Sound(r) /\ (Alone => Lonely(r))
  BY AtRest
<1> QED BY <1>1, <1>2, Goes

LEMMA Fails ==
  ASSUME CatalogueParts, NEW c \in Calls, Fail(c), call[c].at # "idle"
  PROVE  CatalogueParts'
BY Rests DEF Fail, Resting, tables

LEMMA GoneListingAfter ==
  ASSUME CatalogueParts, NEW c \in Calls, NEW wrote \in BOOLEAN, ListingAfter(c, wrote)
  PROVE  /\ overlapped' = overlapped
         /\ \E r \in Call : /\ call' = [call EXCEPT ![c] = r] /\ Onward(r, c, "list")
                            /\ r.wrote = wrote /\ r.tab = call[c].tab
<1> DEFINE r == [call[c] EXCEPT !.at = "list", !.rows = Null, !.gone = Null, !.wrote = wrote]
<1>1. call[c] \in Call
  BY InCall
<1>2. r \in Call /\ Onward(r, c, "list") /\ r.wrote = wrote /\ r.tab = call[c].tab
  BY ZenonT(40), <1>1 DEF Call, Onward
<1>3. call' = [call EXCEPT ![c] = r] /\ overlapped' = overlapped
  BY DEF ListingAfter
<1> HIDE DEF r
<1> QED BY <1>2, <1>3

LEMMA GoneListing ==
  ASSUME CatalogueParts, NEW c \in Calls, Listing(c)
  PROVE  /\ overlapped' = overlapped
         /\ \E r \in Call : call' = [call EXCEPT ![c] = r] /\ Onward(r, c, "list")
<1> DEFINE wrote == TRUE
<1>1. wrote \in BOOLEAN /\ ListingAfter(c, wrote)
  BY DEF Listing
<1> HIDE DEF wrote
<1> QED BY <1>1, GoneListingAfter

(* A statement that writes.                                                *)
LEMMA Writes ==
  ASSUME CatalogueParts, NEW c \in Calls, NEW r \in Call, call' = [call EXCEPT ![c] = r],
         ~overlapped' => ~overlapped, call[c].at # "idle", NoIdIsReused, TablesTyped', RowsOwned',
         Sound(r), BuriedDeep', Alone /\ ~overlapped' => Settledness' /\ Lonely(call[c])'
  PROVE  CatalogueParts'
<1>1. call'[c] = r
  BY DEF CatalogueParts, CatalogueTyped
<1>2. Sound(call[c])'
  BY <1>1, SoundStays
<1> QED BY <1>2, Moved, StillAlone

(* One that ends by reading the lists, or the providers.                   *)
LEMMA WritesLast ==
  ASSUME CatalogueParts, NEW c \in Calls, NEW at \in {"list", "providers"}, NEW r \in Call,
         call' = [call EXCEPT ![c] = r], Onward(r, c, at), ~overlapped' => ~overlapped,
         call[c].at # "idle", NoIdIsReused, TablesTyped', RowsOwned', BuriedDeep',
         Alone /\ ~overlapped' => Settledness'
  PROVE  CatalogueParts'
<1>1. Sound(r) /\ r.at = at
  BY AtRest DEF Resting, Onward
<1>2. call'[c] = r
  BY DEF CatalogueParts, CatalogueTyped
<1>3. Lonely(call[c])'
  BY <1>1, <1>2 DEF Lonely, Adding
<1> QED BY <1>1, <1>3, Writes

-----------------------------------------------------------------------------
(* The sync.                                                               *)

LEMMA NextProviderKeeps ==
  ASSUME CatalogueParts, NEW c \in Calls, NextProvider(c)
  PROVE  CatalogueParts'
<1>1. /\ call[c] \in Call /\ Sound(call[c]) /\ (Alone => Lonely(call[c]))
      /\ call[c].at \in {"next", "scan"}
  BY InCall DEF NextProvider, Free
<1>2. PICK p \in call[c].todo :
        \/ \E offered \in SUBSET Offers[p], twice \in SUBSET Offers[p] :
             call' = [call EXCEPT ![c] = [call[c] EXCEPT !.at = "scan",
                        !.todo = call[c].todo \ {p}, !.owner = p, !.listed = offered,
                        !.again = twice, !.rows = Null, !.gone = Null]]
        \/ call' = [call EXCEPT ![c] = [call[c] EXCEPT !.at = "next",
                                                       !.todo = call[c].todo \ {p}]]
  BY DEF NextProvider, tables
<1>3. p \in Providers /\ call[c].todo \in SUBSET Providers /\ Offers[p] \subseteq Models
  <2>1. call[c].todo \in SUBSET Providers
    BY <1>1 DEF Call
  <2> QED BY <2>1, CatalogueAssumption DEF CatalogueAssumption
<1>4. UNCHANGED <<catalogue, removed, configs, routed, issued, buried, overlapped>>
  BY DEF NextProvider, tables
<1>5. Alone => \A q \in call[c].todo : Backed(q)
  BY <1>1 DEF Lonely
<1>6. CASE call' = [call EXCEPT ![c] = [call[c] EXCEPT !.at = "next", !.todo = call[c].todo \ {p}]]
  <2> DEFINE todo == call[c].todo \ {p}
             r == [call[c] EXCEPT !.at = "next", !.todo = todo]
  <2>1. todo \in SUBSET Providers
    BY <1>3
  <2>2. r \in Call /\ r.at = "next" /\ r.todo = todo /\ r.op = call[c].op
        /\ r.chain = call[c].chain /\ r.owner = call[c].owner
    <3> HIDE DEF todo
    <3> QED BY ZenonT(40), <1>1, <2>1 DEF Call
  <2> HIDE DEF r
  <2>3. Sound(r) /\ (Alone => Lonely(r)) /\ \A m \in Models : Warned(r, m)
    BY <1>1, <1>5, <2>2 DEF Sound, Lonely, Warned, Adding
  <2>4. call' = [call EXCEPT ![c] = r]
    BY <1>6 DEF r
  <2> QED BY <1>1, <1>4, <2>2, <2>3, <2>4, Asks
<1>7. ASSUME NEW offered \in SUBSET Offers[p], NEW twice \in SUBSET Offers[p],
             call' = [call EXCEPT ![c] = [call[c] EXCEPT !.at = "scan",
                        !.todo = call[c].todo \ {p}, !.owner = p, !.listed = offered,
                        !.again = twice, !.rows = Null, !.gone = Null]]
      PROVE  CatalogueParts'
  <2> DEFINE todo == call[c].todo \ {p}
             r == [call[c] EXCEPT !.at = "scan", !.todo = todo, !.owner = p, !.listed = offered,
                                  !.again = twice, !.rows = Null, !.gone = Null]
  <2>1. todo \in SUBSET Providers /\ offered \in SUBSET Models /\ twice \in SUBSET Models
    BY <1>3
  <2>2. r \in Call /\ r.at = "scan" /\ r.todo = todo /\ r.op = call[c].op /\ r.owner = p
        /\ r.chain = call[c].chain /\ r.listed = offered /\ r.again = twice /\ r.rows = Null
        /\ r.gone = Null
    <3> HIDE DEF todo
    <3> QED BY <1>1, <1>3, <2>1 DEF Call
  <2> HIDE DEF r
  <2>3. Sound(r) /\ \A m \in Models : Warned(r, m)
    BY <1>1, <1>3, <2>2 DEF Sound, Warned, Adding
  <2>4. Alone => Lonely(r)
    BY <1>5, <2>2 DEF Lonely, Adding
  <2>5. call' = [call EXCEPT ![c] = r]
    BY <1>7 DEF r
  <2> QED BY <1>1, <1>4, <2>2, <2>3, <2>4, <2>5, Asks
<1> QED BY <1>2, <1>6, <1>7

LEMMA EndSyncKeeps ==
  ASSUME CatalogueParts, NEW c \in Calls, EndSync(c)
  PROVE  CatalogueParts'
<1>1. /\ call[c].at \in {"next", "scan"} /\ call[c] \in Call
      /\ Goto(c, "providers") \/ ListingAfter(c, call[c].wrote)
      /\ UNCHANGED <<catalogue, removed, configs, routed, issued, buried>>
  BY InCall DEF EndSync, Free, tables
<1>2. CASE Goto(c, "providers")
  BY <1>1, <1>2, Rests DEF Resting
<1>3. CASE ListingAfter(c, call[c].wrote)
  <2> DEFINE wrote == call[c].wrote
  <2>0. wrote \in BOOLEAN /\ ListingAfter(c, wrote)
    BY <1>1, <1>3 DEF Call
  <2> HIDE DEF wrote
  <2>1. PICK r \in Call : call' = [call EXCEPT ![c] = r] /\ Onward(r, c, "list")
    BY <2>0, GoneListingAfter
  <2>2. Sound(r) /\ Lonely(r) /\ \A m \in Models : Warned(r, m)
    BY <2>1, AtRest DEF Resting
  <2>3. overlapped' = overlapped
    BY <2>0, GoneListingAfter
  <2> QED BY <1>1, <2>1, <2>2, <2>3, Asks
<1> QED BY <1>1, <1>2, <1>3

(* What the sync c sees of a table.                                        *)
LEMMA WithinTable ==
  ASSUME NEW c, NEW table, NEW m \in Models
  PROVE  /\ Within(c, table)[m] # Null =>
              /\ Within(c, table)[m] = table[m]
              /\ call[c].at = "scan" => table[m].provider = call[c].owner
         /\ table[m] # Null /\ (call[c].at = "scan" => table[m].provider = call[c].owner) =>
              Within(c, table)[m] = table[m]
BY DEF Within

LEMMA ReadRowsKeeps ==
  ASSUME CatalogueParts, NEW c \in Calls, ReadRows(c)
  PROVE  CatalogueParts'
<1> DEFINE seen == Within(c, catalogue)
           r == [call[c] EXCEPT !.rows = seen]
<1>1. /\ call[c] \in Call /\ Sound(call[c]) /\ (Alone => Lonely(call[c]))
      /\ call[c].at \in {"scan", "list"} /\ catalogue \in Lists
      /\ \A m \in Models : Exists(m) => catalogue[m].id <= issued
  BY InCall DEF ReadRows, tables, CatalogueParts, CatalogueTyped, RowsOwned
<1>2. seen \in Lists
  BY <1>1 DEF Within, Lists
<1>3. \A m \in Models : seen[m] # Null => seen[m] = catalogue[m] /\ Exists(m)
  BY WithinTable DEF Exists
<1>4. call[c].at = "scan" => \A m \in Models :
        seen[m] # Null <=> Exists(m) /\ catalogue[m].provider = call[c].owner
  BY WithinTable DEF Exists
<1>5. call' = [call EXCEPT ![c] = r] /\ UNCHANGED <<catalogue, removed, configs, routed, issued, buried, overlapped>>
  BY DEF ReadRows, tables
<1> HIDE DEF seen
<1>6. /\ r \in Call /\ r.at = call[c].at /\ r.rows = seen /\ r.op = call[c].op
      /\ r.owner = call[c].owner /\ r.listed = call[c].listed /\ r.chain = call[c].chain
      /\ r.todo = call[c].todo /\ r.gone = call[c].gone /\ r.again = call[c].again
  BY <1>1, <1>2 DEF Call
<1> HIDE DEF r
<1>7. \A m \in Models : seen[m] # Null => SameHand(m, seen[m].id, seen[m].manual)
  BY <1>1, <1>3 DEF SameHand
<1>8. Sound(r)
  BY <1>1, <1>6, <1>7 DEF Sound, Adding
<1>9. Alone => Lonely(r)
  <2> SUFFICES ASSUME Alone
               PROVE  Lonely(r)
    OBVIOUS
  <2>1. Lonely(call[c])
    BY <1>1
  <2>2. call[c].at = "scan" => call[c].listed \subseteq Models /\ call[c].again \subseteq Models
    BY <1>1 DEF Call
  <2> QED BY <1>1, <1>4, <1>6, <2>1, <2>2 DEF Lonely, Adding
<1>10. \A m \in Models : Warned(call[c], m) => Warned(r, m)
  BY <1>6 DEF Warned
<1> QED BY <1>1, <1>5, <1>6, <1>8, <1>9, <1>10, Asks

LEMMA ReadGoneKeeps ==
  ASSUME CatalogueParts, NEW c \in Calls, ReadGone(c)
  PROVE  CatalogueParts'
<1> DEFINE seen == Within(c, removed)
           r == [call[c] EXCEPT !.gone = seen]
<1>1. /\ call[c] \in Call /\ Sound(call[c]) /\ (Alone => Lonely(call[c]))
      /\ call[c].at \in {"scan", "list"} /\ removed \in Suppressions
      /\ \A m \in Models : removed[m] # Null => m \in Offers[removed[m].provider]
  BY InCall DEF ReadGone, tables, CatalogueParts, CatalogueTyped, RowsOwned
<1>2. seen \in Suppressions
  BY <1>1 DEF Within, Suppressions
<1>3. call[c].at = "scan" => \A m \in Offers[call[c].owner] :
        m \in Models /\ (removed[m] # Null => seen[m] = removed[m])
  <2> SUFFICES ASSUME call[c].at = "scan", NEW m \in Offers[call[c].owner]
               PROVE  m \in Models /\ (removed[m] # Null => seen[m] = removed[m])
    OBVIOUS
  <2>1. call[c].owner \in Providers
    BY <1>1 DEF Sound
  <2>2. m \in Models
    BY <2>1, CatalogueAssumption DEF CatalogueAssumption
  <2>3. removed[m] # Null => removed[m].provider = call[c].owner
    <3>1. removed[m] # Null => removed[m].provider \in Providers /\ m \in Offers[removed[m].provider]
      BY <1>1, <2>2 DEF Suppressions, RemovedRow
    <3> QED BY <2>1, <3>1, OffersAssumption DEF OffersAssumption
  <2> QED BY <2>2, <2>3, WithinTable
<1>4. call' = [call EXCEPT ![c] = r] /\ UNCHANGED <<catalogue, removed, configs, routed, issued, buried, overlapped>>
  BY DEF ReadGone, tables
<1> HIDE DEF seen
<1>5. /\ r \in Call /\ r.at = call[c].at /\ r.gone = seen /\ r.op = call[c].op
      /\ r.owner = call[c].owner /\ r.listed = call[c].listed /\ r.chain = call[c].chain
      /\ r.todo = call[c].todo /\ r.rows = call[c].rows /\ r.again = call[c].again
  BY <1>1, <1>2 DEF Call
<1> HIDE DEF r
<1>6. Sound(r)
  BY <1>1, <1>5 DEF Sound, Adding
<1>7. Alone => Lonely(r)
  <2> SUFFICES ASSUME Alone
               PROVE  Lonely(r)
    OBVIOUS
  <2>1. Lonely(call[c])
    BY <1>1
  <2>2. call[c].at = "scan" => /\ call[c].listed \subseteq Offers[call[c].owner]
                               /\ call[c].again \subseteq Offers[call[c].owner]
    BY <1>1 DEF Sound
  <2> QED BY <1>1, <1>3, <1>5, <2>1, <2>2 DEF Lonely, Adding
<1>8. \A m \in Models : buried[m] # Null /\ ~buried[m].manual /\ Warned(call[c], m) => Warned(r, m)
  <2>1. \A m \in Models : buried[m] # Null /\ ~buried[m].manual => removed[m] # Null
    BY DEF CatalogueParts, BuriedDeep
  <2> QED BY <1>3, <1>5, <2>1 DEF Warned
<1> QED BY <1>1, <1>4, <1>5, <1>6, <1>7, <1>8, Asks

(* What a sync is about to write: an id of its provider's.                 *)
LEMMA ToWriteFacts ==
  ASSUME CatalogueParts, NEW c \in Calls, NEW m \in ToWrite(c), call[c].at = "scan", Scanned(c)
  PROVE  /\ m \in Models /\ call[c].owner \in Providers /\ m \in Offers[call[c].owner]
         /\ m \in call[c].listed \union call[c].again /\ call[c].gone[m] = Null
         /\ call[c].rows # Null /\ call[c].gone # Null
         /\ call[c].rows[m] # Null => ~call[c].rows[m].manual
<1>1. call[c] \in Call /\ Sound(call[c])
  BY InCall
<1> QED BY <1>1 DEF ToWrite, ToCome, Scanned, Sound, Call

(* A sync that has written m: what it knows of the other rows.             *)
LEMMA WrittenOff ==
  ASSUME CatalogueParts, NEW c \in Calls, NEW m \in Models, call[c].at = "scan",
         call' = [call EXCEPT ![c] = Past(c, m)], catalogue'[m] # Null,
         UNCHANGED <<removed, configs, routed, buried>>,
         \A n \in Models : n # m => catalogue'[n] = catalogue[n]
  PROVE  \E r \in Call : /\ call' = [call EXCEPT ![c] = r] /\ Sound(r)
                         /\ \A n \in Models : Warned(call[c], n) => Warned(r, n)
                         /\ Alone => Lonely(call[c])'
<1> DEFINE listed == call[c].listed \ {m}
           again == IF m \in call[c].listed THEN call[c].again ELSE call[c].again \ {m}
           r == [call[c] EXCEPT !.listed = listed, !.wrote = TRUE, !.again = again]
<1>1. call[c] \in Call /\ Sound(call[c]) /\ (Alone => Lonely(call[c]))
  BY InCall
<1>2. listed \in SUBSET Models /\ listed \subseteq call[c].listed /\ (\A n \in listed : n # m)
      /\ again \in SUBSET Models /\ again \subseteq call[c].again
  BY <1>1 DEF Call
<1>3. call' = [call EXCEPT ![c] = r]
  BY DEF Past
<1> HIDE DEF listed, again
<1>4. /\ r \in Call /\ r.at = call[c].at /\ r.gone = call[c].gone /\ r.op = call[c].op
      /\ r.owner = call[c].owner /\ r.listed = listed /\ r.chain = call[c].chain
      /\ r.todo = call[c].todo /\ r.rows = call[c].rows /\ r.again = again
  BY <1>1, <1>2 DEF Call
<1> HIDE DEF r
<1>5. call'[c] = r
  BY <1>3 DEF CatalogueParts, CatalogueTyped
<1>6. Sound(r)
  BY <1>1, <1>2, <1>4 DEF Sound, Adding
<1>7. Alone => Lonely(call[c])'
  <2> SUFFICES ASSUME Alone
               PROVE  Lonely(call[c])'
    OBVIOUS
  <2>1. Lonely(call[c])
    BY <1>1
  <2>2. /\ \A p \in r.todo : p \in Custom => configs'[p] # Null
        /\ r.owner \in Custom => configs'[r.owner] # Null
    BY <1>4, <2>1 DEF Lonely, Backed
  <2>3. r.rows # Null =>
          \A n \in r.listed : r.rows[n] # Null <=> catalogue'[n] # Null /\ catalogue'[n].provider = r.owner
    BY <1>2, <1>4, <2>1 DEF Lonely, Exists
  <2>6. r.rows # Null => \A n \in r.again : r.rows[n] # Null => catalogue'[n] # Null
    BY <1>2, <1>4, <2>1 DEF Lonely, Exists
  <2>4. r.gone # Null => \A n \in r.listed \union r.again : r.gone[n] = Null => removed'[n] = Null
    BY <1>2, <1>4, <2>1 DEF Lonely
  <2>5. r.at = "scan"
    BY <1>4
  <2> QED BY <1>5, <2>2, <2>3, <2>4, <2>5, <2>6 DEF Lonely, Exists, Backed, Adding
<1>8. \A n \in Models : Warned(call[c], n) => Warned(r, n)
  BY <1>4 DEF Warned
<1> QED BY <1>3, <1>4, <1>6, <1>7, <1>8

LEMMA RefreshKeeps ==
  ASSUME CatalogueParts, NEW c \in Calls, NEW m \in Models, Refresh(c, m)
  PROVE  CatalogueParts'
<1>1. call[c].at = "scan" /\ Scanned(c) /\ m \in ToWrite(c)
  BY DEF Refresh
<1>2. CASE ~Exists(m)
  BY <1>1, <1>2, Fails DEF Refresh
<1>3. CASE Exists(m)
  <2> DEFINE owner == call[c].owner
             new == [catalogue[m] EXCEPT !.provider = owner, !.source = "upstream"]
  <2>1. owner \in Providers /\ m \in Offers[owner]
    BY <1>1, ToWriteFacts
  <2>2. catalogue \in Lists /\ catalogue[m] \in Row
    BY <1>3 DEF CatalogueParts, CatalogueTyped, Lists, Exists
  <2>3. /\ catalogue' = [catalogue EXCEPT ![m] = new]
        /\ call' = [call EXCEPT ![c] = Past(c, m)]
        /\ UNCHANGED <<removed, configs, routed, issued, overlapped, buried, menu>>
    BY <1>3 DEF Refresh
  <2> HIDE DEF owner
  <2>4. /\ new \in Row /\ new.id = catalogue[m].id /\ new.manual = catalogue[m].manual
        /\ new.provider = owner /\ new.fallbacks = catalogue[m].fallbacks
    BY <2>1, <2>2 DEF Row
  <2>5. new # Null
    BY <2>4, CatalogueAssumption DEF CatalogueAssumption
  <2> HIDE DEF new
  <2>6. /\ catalogue' \in Lists /\ catalogue'[m] = new
        /\ \A n \in Models : n # m => catalogue'[n] = catalogue[n]
    BY <2>2, <2>3, <2>4 DEF Lists
  <2>13. catalogue'[m] # Null
    BY <2>5, <2>6
  <2>7. PICK r \in Call : /\ call' = [call EXCEPT ![c] = r] /\ Sound(r)
                          /\ \A n \in Models : Warned(call[c], n) => Warned(r, n)
                          /\ Alone => Lonely(call[c])'
    BY <1>1, <2>3, <2>6, <2>13, WrittenOff
  <2>8. TablesTyped'
    BY <2>3, <2>6 DEF CatalogueParts, CatalogueTyped, TablesTyped
  <2>9. NoIdIsReused
    BY <1>3, <2>3, <2>4, <2>6 DEF NoIdIsReused, Exists, CatalogueParts, CatalogueTyped
  <2>10. RowsOwned'
    BY <1>3, <2>1, <2>3, <2>4, <2>6 DEF RowsOwned, Exists, CatalogueParts
  <2>11. BuriedDeep'
    BY <2>3, <2>7, StillBuried
  <2>12. Alone => Settledness'
    <3> SUFFICES ASSUME Alone
                 PROVE  Settledness'
      OBVIOUS
    <3>1. Settledness /\ Backed(owner)
      BY <1>1, InCall DEF Alone, Lonely, owner
    <3> QED BY <1>3, <2>3, <2>4, <2>5, <2>6, <3>1 DEF Settledness, Exists, Backed, Enabled
  <2> QED BY <1>1, <2>3, <2>7, <2>8, <2>9, <2>10, <2>11, <2>12, Writes
<1> QED BY <1>2, <1>3

(* A new row, under an id never issued.                                    *)
LEMMA NewRow ==
  ASSUME CatalogueParts, NEW m \in Models, NEW new \in Row, catalogue' = [catalogue EXCEPT ![m] = new],
         Issue, new.id = NewRowId, new.manual \/ m \in Offers[new.provider], ~Exists(m),
         UNCHANGED <<removed, configs, routed, overlapped, buried>>
  PROVE  /\ NoIdIsReused /\ TablesTyped' /\ RowsOwned'
         /\ \A n \in Models : n # m => catalogue'[n] = catalogue[n]
         /\ Settledness /\ (\A n \in new.fallbacks : Exists(n)) /\ Backed(new.provider)
              /\ removed[m] = Null => Settledness'
<1>1. catalogue \in Lists /\ issued \in 0..MaxRows /\ MaxRows \in Nat
  BY CatalogueAssumption DEF CatalogueParts, CatalogueTyped, CatalogueAssumption
<1>2. issued < MaxRows /\ issued' = issued + 1 /\ new.id = issued + 1
  BY DEF Issue, NewRowId
<1>3. new # Null
  BY CatalogueAssumption DEF CatalogueAssumption
<1>4. /\ catalogue' \in Lists /\ catalogue'[m] = new
      /\ \A n \in Models : n # m => catalogue'[n] = catalogue[n]
  BY <1>1 DEF Lists
<1>5. issued' \in 0..MaxRows /\ issued <= issued' /\ ~(new.id <= issued) /\ new.id <= issued'
  BY <1>1, <1>2
<1>6. TablesTyped'
  BY <1>4, <1>5 DEF CatalogueParts, CatalogueTyped, TablesTyped
<1>7. NoIdIsReused
  BY <1>4, <1>5 DEF NoIdIsReused, Exists
<1>8. RowsOwned'
  <2>1. \A n \in Models : Exists(n) => catalogue[n].id <= issued'
    <3>1. \A n \in Models : Exists(n) => catalogue[n].id \in Nat /\ catalogue[n].id <= issued
      BY <1>1 DEF CatalogueParts, RowsOwned, Exists, Lists, Row
    <3> QED BY <1>1, <1>2, <3>1
  <2> QED BY <1>3, <1>4, <1>5, <2>1 DEF RowsOwned, Exists, CatalogueParts
<1>9. Settledness /\ (\A n \in new.fallbacks : Exists(n)) /\ Backed(new.provider)
        /\ removed[m] = Null => Settledness'
  BY <1>3, <1>4 DEF Settledness, Exists, Backed, Enabled
<1> QED BY <1>4, <1>6, <1>7, <1>8, <1>9

LEMMA ImportKeeps ==
  ASSUME CatalogueParts, NEW c \in Calls, NEW m \in Models, Import(c, m)
  PROVE  CatalogueParts'
<1>1. call[c].at = "scan" /\ Scanned(c) /\ m \in ToWrite(c)
  BY DEF Import
<1>2. CASE Exists(m)
  BY <1>1, <1>2, Fails DEF Import
<1>3. CASE ~Exists(m)
  <2> DEFINE owner == call[c].owner
             new == [id |-> NewRowId, provider |-> owner, manual |-> FALSE,
                     source |-> "upstream", fallbacks |-> {}]
  <2>1. owner \in Providers /\ m \in Offers[owner] /\ m \in call[c].listed \union call[c].again
        /\ call[c].gone # Null
        /\ call[c].gone[m] = Null
    BY <1>1, ToWriteFacts
  <2>2. /\ Issue /\ catalogue' = [catalogue EXCEPT ![m] = new]
        /\ call' = [call EXCEPT ![c] = Past(c, m)]
        /\ UNCHANGED <<removed, configs, routed, overlapped, buried>>
    BY <1>3 DEF Import
  <2>3. NewRowId \in 1..MaxRows
    BY <2>2, CatalogueAssumption
       DEF Issue, NewRowId, CatalogueParts, CatalogueTyped, CatalogueAssumption
  <2> HIDE DEF owner
  <2>4. /\ new \in Row /\ new.id = NewRowId /\ new.provider = owner /\ new.fallbacks = {}
    BY <2>1, <2>3 DEF Row
  <2>9. new # Null /\ catalogue \in Lists
    BY <2>4, CatalogueAssumption DEF CatalogueAssumption, CatalogueParts, CatalogueTyped
  <2> HIDE DEF new
  <2>10. catalogue'[m] # Null
    BY <2>2, <2>9 DEF Lists
  <2>5. /\ NoIdIsReused /\ TablesTyped' /\ RowsOwned'
        /\ \A n \in Models : n # m => catalogue'[n] = catalogue[n]
        /\ Settledness /\ (\A n \in new.fallbacks : Exists(n)) /\ Backed(new.provider)
              /\ removed[m] = Null => Settledness'
    BY <1>3, <2>1, <2>2, <2>4, NewRow
  <2>6. PICK r \in Call : /\ call' = [call EXCEPT ![c] = r] /\ Sound(r)
                          /\ \A n \in Models : Warned(call[c], n) => Warned(r, n)
                          /\ Alone => Lonely(call[c])'
    BY <1>1, <2>2, <2>5, <2>10, WrittenOff
  <2>7. BuriedDeep'
    BY <2>2, <2>6, StillBuried
  <2>8. Alone => Settledness'
    <3> SUFFICES ASSUME Alone
                 PROVE  Settledness'
      OBVIOUS
    <3>1. Settledness /\ Backed(owner) /\ removed[m] = Null
      BY <1>1, <2>1, InCall DEF Alone, Lonely, owner
    <3> QED BY <2>4, <2>5, <3>1
  <2> QED BY <1>1, <2>2, <2>5, <2>6, <2>7, <2>8, Writes
<1> QED BY <1>2, <1>3
-----------------------------------------------------------------------------
(* Creating and saving a row.                                              *)

LEMMA ChainKeeps ==
  ASSUME CatalogueParts, NEW c \in Calls, Chain(c)
  PROVE  CatalogueParts'
<1>1. /\ call[c] \in Call /\ Sound(call[c]) /\ (Alone => Lonely(call[c])) /\ call[c].at = "chain"
      /\ UNCHANGED <<catalogue, removed, configs, routed, issued, buried>>
  BY InCall DEF Chain, tables
<1>2. CASE Goto(c, "failed")
  BY <1>1, <1>2, Rests DEF Resting
<1>3. ASSUME NEW at \in {"probe", "save"}, Goto(c, at), at = "probe" <=> call[c].op = "create",
             \A m \in call[c].chain : Exists(m)
      PROVE  CatalogueParts'
  <2>1. ASSUME NEW r \in Call, Onward(r, c, at)
        PROVE  Sound(r) /\ (Alone => Lonely(r))
    <3>1. /\ r.at = at /\ r.op = call[c].op /\ r.model = call[c].model
          /\ r.owner = call[c].owner /\ r.chain = call[c].chain
      BY <2>1 DEF Onward
    <3>2. Sound(r)
      BY <1>1, <1>3, <3>1 DEF Sound, Adding
    <3>3. Alone => Lonely(r)
      BY <1>1, <1>3, <3>1 DEF Lonely, Adding
    <3> QED BY <3>2, <3>3
  <2>2. at \in Places /\ at # "scan" /\ call[c].at # "idle"
    BY <1>1, <1>3 DEF Places, Adding
  <2> QED BY <1>1, <1>3, <2>1, <2>2, Goes
<1> QED BY <1>2, <1>3 DEF Chain

LEMMA ProbeKeeps ==
  ASSUME CatalogueParts, NEW c \in Calls, Probe(c)
  PROVE  CatalogueParts'
<1>1. /\ call[c] \in Call /\ Sound(call[c]) /\ (Alone => Lonely(call[c])) /\ call[c].at = "probe"
      /\ UNCHANGED <<catalogue, removed, configs, routed, issued, buried>>
  BY InCall DEF Probe, tables
<1>2. CASE Goto(c, "failed")
  BY <1>1, <1>2, Rests DEF Resting
<1>3. CASE Goto(c, "lift")
  <2>1. ASSUME NEW r \in Call, Onward(r, c, "lift")
        PROVE  Sound(r) /\ (Alone => Lonely(r))
    <3>1. /\ r.at = "lift" /\ r.op = call[c].op /\ r.model = call[c].model
          /\ r.owner = call[c].owner /\ r.chain = call[c].chain
      BY <2>1 DEF Onward
    <3> QED BY <1>1, <3>1 DEF Sound, Lonely, Adding
  <2>2. "lift" \in Places
    BY DEF Places, Adding
  <2> QED BY <1>1, <1>3, <2>1, <2>2, Goes
<1> QED BY <1>2, <1>3 DEF Probe

(* A suppression goes, and with it the memory of the deletion.             *)
LEMMA LiftedUp ==
  ASSUME CatalogueParts, NEW c \in Calls, NEW r \in Call, NEW m \in Models,
         call' = [call EXCEPT ![c] = r], r.at # "scan",
         removed' = [removed EXCEPT ![m] = Null], buried' = [buried EXCEPT ![m] = Null],
         UNCHANGED <<catalogue, configs, routed, issued, overlapped>>
  PROVE  /\ NoIdIsReused /\ TablesTyped' /\ RowsOwned' /\ BuriedDeep'
         /\ Settledness => Settledness'
<1>1. /\ removed \in Suppressions /\ buried \in [Models -> Burial \union {Null}]
      /\ TablesTyped /\ RowsOwned
  BY DEF CatalogueParts, CatalogueTyped, TablesTyped
<1>2. /\ removed' \in Suppressions /\ buried' \in [Models -> Burial \union {Null}]
      /\ \A n \in Models : removed'[n] = IF n = m THEN Null ELSE removed[n]
      /\ \A n \in Models : buried'[n] = IF n = m THEN Null ELSE buried[n]
  BY <1>1 DEF Suppressions
<1>3. /\ call'[c] = r /\ \A d \in Calls : d # c => call'[d] = call[d]
  BY DEF CatalogueParts, CatalogueTyped
<1>4. TablesTyped'
  BY <1>1, <1>2 DEF TablesTyped
<1>5. NoIdIsReused
  BY <1>1 DEF NoIdIsReused, TablesTyped, Exists
<1>6. RowsOwned'
  BY <1>1, <1>2 DEF RowsOwned, Exists
<1>7. BuriedDeep'
  <2>1. \A n \in Models : buried'[n] # Null /\ ~buried'[n].manual =>
          /\ removed'[n] # Null
          /\ \A d \in Calls \ buried'[n].by : Warned(call'[d], n)
    BY <1>2, <1>3 DEF CatalogueParts, BuriedDeep, Warned
  <2> QED BY <2>1 DEF BuriedDeep, Warned
<1>8. Settledness => Settledness'
  BY <1>2 DEF Settledness, Exists, Backed, Enabled
<1> QED BY <1>4, <1>5, <1>6, <1>7, <1>8

LEMMA LiftKeeps ==
  ASSUME CatalogueParts, NEW c \in Calls, Lift(c)
  PROVE  CatalogueParts'
<1> DEFINE m == call[c].model
<1>1. /\ Sound(call[c]) /\ (Alone => Lonely(call[c])) /\ call[c].at = "lift"
      /\ removed' = [removed EXCEPT ![m] = Null] /\ buried' = [buried EXCEPT ![m] = Null]
      /\ UNCHANGED <<catalogue, configs, routed, issued, overlapped>>
  BY InCall DEF Lift
<1>2. m \in Models
  BY <1>1 DEF Sound, Adding
<1>3. PICK r \in Call : call' = [call EXCEPT ![c] = r] /\ Onward(r, c, "insert")
  <2> DEFINE wrote == removed[m] # Null
             r == [call[c] EXCEPT !.at = "insert", !.wrote = wrote]
  <2>1. call' = [call EXCEPT ![c] = r]
    BY DEF Lift
  <2>2. wrote \in BOOLEAN /\ call[c] \in Call
    BY InCall
  <2> HIDE DEF wrote
  <2>3. r \in Call /\ Onward(r, c, "insert")
    BY ZenonT(40), <2>2 DEF Call, Onward
  <2> HIDE DEF r
  <2> QED BY <2>1, <2>3
<1>4. overlapped' = overlapped
  BY <1>1
<1>5. /\ r.at = "insert" /\ r.op = call[c].op /\ r.model = m /\ r.owner = call[c].owner
      /\ r.chain = call[c].chain
  BY <1>3 DEF Onward
<1> HIDE DEF m
<1>6. /\ NoIdIsReused /\ TablesTyped' /\ RowsOwned' /\ BuriedDeep'
      /\ Settledness => Settledness'
  BY <1>1, <1>2, <1>3, <1>4, <1>5, LiftedUp
<1>7. Sound(r)
  BY <1>1, <1>2, <1>5 DEF Sound, Adding
<1>8. removed'[m] = Null
  BY <1>1, <1>2 DEF CatalogueParts, CatalogueTyped, Suppressions
<1>9. call'[c] = r
  BY <1>3 DEF CatalogueParts, CatalogueTyped
<1>10. Alone => Settledness' /\ Lonely(call[c])'
  <2> SUFFICES ASSUME Alone
               PROVE  Settledness' /\ Lonely(call[c])'
    OBVIOUS
  <2>1. Settledness /\ Lonely(call[c])
    BY <1>1 DEF Alone
  <2>2. \A n \in r.chain : Exists(n)'
    BY <1>1, <1>5, <2>1 DEF Lonely, Adding, Exists
  <2>3. r.op = "create" => (r.owner \in Custom => configs'[r.owner] # Null)
    BY <1>1, <1>5, <2>1 DEF Lonely, Adding, Backed
  <2>4. Lonely(call[c])'
    BY <1>5, <1>8, <1>9, <2>2, <2>3 DEF Lonely, Adding, Exists, Backed
  <2> QED BY <1>6, <2>1, <2>4
<1>11. call[c].at # "idle" /\ (~overlapped' => ~overlapped)
  BY <1>1, <1>4
<1>12. Alone /\ ~overlapped' => Settledness' /\ Lonely(call[c])'
  BY <1>10
<1> QED BY <1>3, <1>6, <1>7, <1>11, <1>12, Writes

LEMMA InsertKeeps ==
  ASSUME CatalogueParts, NEW c \in Calls, Insert(c)
  PROVE  CatalogueParts'
<1> DEFINE m == call[c].model
           owner == call[c].owner
           chain == call[c].chain
           new == [id |-> NewRowId, provider |-> owner, manual |-> TRUE, source |-> "typed",
                   fallbacks |-> chain]
<1>1. /\ Sound(call[c]) /\ (Alone => Lonely(call[c])) /\ call[c].at = "insert"
  BY InCall DEF Insert
<1>2. m \in Models /\ owner \in Providers /\ chain \in SUBSET Models /\ call[c].op = "create"
  BY <1>1 DEF Sound, Adding
<1>3. CASE Exists(m)
  BY <1>1, <1>3, Fails DEF Insert
<1>4. CASE ~Exists(m)
  <2>1. /\ Issue /\ catalogue' = [catalogue EXCEPT ![m] = new] /\ Listing(c)
        /\ UNCHANGED <<removed, configs, routed, buried>>
    BY <1>4 DEF Insert
  <2>2. PICK r \in Call : call' = [call EXCEPT ![c] = r] /\ Onward(r, c, "list")
    BY <2>1, GoneListing
  <2>3. overlapped' = overlapped
    BY <2>1, GoneListing
  <2>4. NewRowId \in 1..MaxRows
    BY <2>1, CatalogueAssumption
       DEF Issue, NewRowId, CatalogueParts, CatalogueTyped, CatalogueAssumption
  <2>5. Alone => Settledness /\ Backed(owner) /\ removed[m] = Null /\ \A n \in chain : Exists(n)
    BY <1>1, <1>2 DEF Alone, Lonely, Adding
  <2> HIDE DEF m, owner, chain
  <2>6. new \in Row /\ new.id = NewRowId /\ new.provider = owner /\ new.manual /\ new.fallbacks = chain
    BY <1>2, <2>4 DEF Row
  <2> HIDE DEF new
  <2>7. /\ NoIdIsReused /\ TablesTyped' /\ RowsOwned'
        /\ Settledness /\ (\A n \in new.fallbacks : Exists(n)) /\ Backed(new.provider)
              /\ removed[m] = Null => Settledness'
    BY <1>2, <1>4, <2>1, <2>3, <2>6, NewRow
  <2>8. BuriedDeep'
    <3>1. \A n \in Models : Warned(r, n)
      BY <2>2, AtRest DEF Resting
    <3> QED BY <2>1, <2>2, <3>1, StillBuried
  <2>9. Alone => Settledness'
    BY <2>5, <2>6, <2>7
  <2> QED BY <1>1, <2>2, <2>3, <2>7, <2>8, <2>9, WritesLast
<1> QED BY <1>3, <1>4

LEMMA SaveKeeps ==
  ASSUME CatalogueParts, NEW c \in Calls, Save(c)
  PROVE  CatalogueParts'
<1> DEFINE m == call[c].model
           chain == IF call[c].chain = Untouched THEN catalogue[m].fallbacks ELSE call[c].chain
           new == [catalogue[m] EXCEPT !.fallbacks = chain]
<1>1. call[c] \in Call /\ Sound(call[c]) /\ (Alone => Lonely(call[c])) /\ call[c].at = "save"
  BY InCall DEF Save
<1>2. m \in Models
  BY <1>1 DEF Sound
<1>3. CASE Fail(c)
  BY <1>1, <1>3, Fails
<1>4. CASE Exists(m) /\ ~Fail(c)
  <2>1. catalogue \in Lists /\ catalogue[m] \in Row
    BY <1>2, <1>4 DEF CatalogueParts, CatalogueTyped, Lists, Exists
  <2>2. /\ catalogue' = [catalogue EXCEPT ![m] = new] /\ Listing(c)
        /\ UNCHANGED <<removed, configs, routed, issued, buried>>
    BY <1>2, <1>4, <2>1 DEF Save, Lists
  <2>3. chain \in SUBSET Models
    BY <1>1, <2>1 DEF Call, Row
  <2>4. Alone => Settledness /\ \A n \in chain : Exists(n)
    BY <1>1, <1>2, <1>4 DEF Alone, Lonely, Settledness, Adding
  <2> HIDE DEF chain, m
  <2>5. /\ new \in Row /\ new.id = catalogue[m].id /\ new.manual = catalogue[m].manual
        /\ new.provider = catalogue[m].provider /\ new.fallbacks = chain
    BY <2>1, <2>3 DEF Row
  <2>6. new # Null
    BY <2>5, CatalogueAssumption DEF CatalogueAssumption
  <2> HIDE DEF new
  <2>7. /\ catalogue' \in Lists /\ catalogue'[m] = new
        /\ \A n \in Models : n # m => catalogue'[n] = catalogue[n]
    BY <1>2, <2>1, <2>2, <2>5 DEF Lists
  <2>8. PICK r \in Call : call' = [call EXCEPT ![c] = r] /\ Onward(r, c, "list")
    BY <2>2, GoneListing
  <2>9. overlapped' = overlapped
    BY <2>2, GoneListing
  <2>10. TablesTyped'
    BY <2>2, <2>7, <2>9 DEF CatalogueParts, CatalogueTyped, TablesTyped
  <2>11. NoIdIsReused
    BY <1>2, <1>4, <2>2, <2>5, <2>7 DEF NoIdIsReused, Exists, CatalogueParts, CatalogueTyped
  <2>12. RowsOwned'
    BY <1>2, <1>4, <2>2, <2>5, <2>7 DEF RowsOwned, Exists, CatalogueParts
  <2>13. BuriedDeep'
    <3>1. \A n \in Models : Warned(r, n)
      BY <2>8, AtRest DEF Resting
    <3> QED BY <2>2, <2>8, <3>1, StillBuried
  <2>14. Alone => Settledness'
    BY <1>2, <1>4, <2>2, <2>4, <2>5, <2>6, <2>7 DEF Settledness, Exists, Backed, Enabled
  <2> QED BY <1>1, <2>8, <2>9, <2>10, <2>11, <2>12, <2>13, <2>14, WritesLast
<1> QED BY <1>3, <1>4 DEF Save
-----------------------------------------------------------------------------
(* Deleting a row and lifting a suppression.                               *)

LEMMA ReferencedKeeps ==
  ASSUME CatalogueParts, NEW c \in Calls, Referenced(c)
  PROVE  CatalogueParts'
<1>1. /\ call[c] \in Call /\ Sound(call[c]) /\ call[c].at = "referenced"
      /\ UNCHANGED <<catalogue, removed, configs, routed, issued, buried>>
  BY InCall DEF Referenced, tables
<1>2. CASE Goto(c, "failed")
  BY <1>1, <1>2, Rests DEF Resting
<1>3. CASE /\ Goto(c, "remove")
           /\ \A m \in Models \ {call[c].model} : Exists(m) => call[c].model \notin catalogue[m].fallbacks
  <2>1. ASSUME NEW r \in Call, Onward(r, c, "remove")
        PROVE  Sound(r) /\ (Alone => Lonely(r))
    <3>1. /\ r.at = "remove" /\ r.op = call[c].op /\ r.model = call[c].model /\ r.id = call[c].id
          /\ r.owner = call[c].owner /\ r.chain = call[c].chain /\ r.manual = call[c].manual
      BY <2>1 DEF Onward
    <3>2. Sound(r)
      BY <1>1, <3>1 DEF Sound, Adding
    <3>3. Lonely(r)
      BY <1>3, <3>1 DEF Lonely, Adding
    <3> QED BY <3>2, <3>3
  <2>2. "remove" \in Places
    BY DEF Places
  <2> QED BY <1>1, <1>3, <2>1, <2>2, Goes
<1> QED BY <1>2, <1>3 DEF Referenced

LEMMA RemoveKeeps ==
  ASSUME CatalogueParts, NEW c \in Calls, Remove(c)
  PROVE  CatalogueParts'
<1> DEFINE m == call[c].model
           manual == call[c].manual
           owner == call[c].owner
           grave == [manual |-> manual, by |-> SyncsThatRead]
           stone == [id |-> NewRowId, provider |-> owner]
<1>1. call[c] \in Call /\ Sound(call[c]) /\ (Alone => Lonely(call[c])) /\ call[c].at = "remove"
  BY InCall DEF Remove
<1>2. m \in Models /\ owner \in Providers /\ manual \in BOOLEAN /\ (manual \/ m \in Offers[owner])
  BY <1>1 DEF Sound, Call
<1>3. CASE Fail(c)
  BY <1>1, <1>3, Fails
<1>4. CASE ~Fail(c)
  <2>1. /\ catalogue' = [catalogue EXCEPT ![m] = Null]
        /\ buried' = [buried EXCEPT ![m] = grave]
        /\ \/ (manual \/ removed[m] # Null) /\ UNCHANGED <<removed, issued>>
           \/ ~manual /\ removed[m] = Null /\ Issue /\ removed' = [removed EXCEPT ![m] = stone]
        /\ Listing(c) /\ UNCHANGED <<configs, routed>>
    BY <1>4 DEF Remove
  <2>2. Alone => /\ Settledness
                 /\ \A n \in Models \ {m} : Exists(n) => m \notin catalogue[n].fallbacks
    BY <1>1 DEF Alone, Lonely, Adding
  <2> HIDE DEF m, manual, owner
  <2>3. /\ TablesTyped /\ RowsOwned /\ BuriedDeep /\ MaxRows \in Nat
        /\ catalogue \in Lists /\ removed \in Suppressions /\ issued \in 0..MaxRows
        /\ buried \in [Models -> Burial \union {Null}]
    BY CatalogueAssumption DEF CatalogueParts, CatalogueTyped, TablesTyped, CatalogueAssumption
  <2>4. grave \in Burial /\ grave.manual = manual /\ grave.by = SyncsThatRead
    BY <1>2 DEF Burial, SyncsThatRead
  <2>5. /\ \A n \in Models : catalogue'[n] = IF n = m THEN Null ELSE catalogue[n]
        /\ catalogue' \in Lists
    BY <1>2, <2>1, <2>3 DEF Lists
  <2>6. \A n \in Models : buried'[n] = IF n = m THEN grave ELSE buried[n]
    BY <1>2, <2>1, <2>3
  <2>7. buried' \in [Models -> Burial \union {Null}]
    BY <1>2, <2>1, <2>3, <2>4
  <2>8. /\ \A n \in Models : n # m => removed'[n] = removed[n]
        /\ removed' \in Suppressions /\ issued' \in 0..MaxRows /\ issued <= issued'
        /\ manual \/ removed'[m] # Null
        /\ removed'[m] = removed[m] \/ (~manual /\ removed'[m].provider = owner)
    <3>1. CASE (manual \/ removed[m] # Null) /\ UNCHANGED <<removed, issued>>
      BY <2>3, <3>1
    <3>2. CASE ~manual /\ removed[m] = Null /\ Issue /\ removed' = [removed EXCEPT ![m] = stone]
      <4>1. issued' \in 0..MaxRows /\ issued <= issued' /\ NewRowId \in 1..MaxRows
        BY <2>3, <3>2 DEF Issue, NewRowId
      <4>2. stone \in RemovedRow /\ stone.provider = owner
        BY <1>2, <4>1 DEF RemovedRow
      <4>3. stone # Null
        BY <4>2, CatalogueAssumption DEF CatalogueAssumption
      <4> HIDE DEF stone
      <4>4. /\ removed' \in Suppressions /\ removed'[m] = stone
            /\ \A n \in Models : n # m => removed'[n] = removed[n]
        BY <1>2, <2>3, <3>2, <4>2 DEF Suppressions
      <4> QED BY <3>2, <4>1, <4>2, <4>3, <4>4
    <3> QED BY <2>1, <3>1, <3>2
  <2> HIDE DEF grave, stone
  <2>9. PICK r \in Call : call' = [call EXCEPT ![c] = r] /\ Onward(r, c, "list")
    BY <2>1, GoneListing
  <2>10. overlapped' = overlapped
    BY <2>1, GoneListing
  <2>11. TablesTyped'
    BY <2>1, <2>3, <2>5, <2>7, <2>8, <2>10 DEF TablesTyped
  <2>12. NoIdIsReused
    BY <2>5, <2>8 DEF NoIdIsReused, Exists
  <2>13. RowsOwned'
    <3>1. \A n \in Models : catalogue'[n] # Null =>
            /\ catalogue'[n].id <= issued'
            /\ catalogue'[n].manual \/ n \in Offers[catalogue'[n].provider]
      <4>1. \A n \in Models : catalogue'[n] # Null =>
              /\ catalogue'[n] = catalogue[n] /\ catalogue[n] \in Row /\ catalogue[n].id <= issued
              /\ catalogue[n].manual \/ n \in Offers[catalogue[n].provider]
        BY <2>3, <2>5 DEF RowsOwned, Exists, Lists
      <4>2. \A n \in Models : catalogue'[n] # Null => catalogue[n].id \in Nat
        BY <4>1 DEF Row
      <4>3. issued \in Nat /\ issued' \in Nat /\ issued <= issued'
        BY <2>3, <2>8
      <4> QED BY <4>1, <4>2, <4>3
    <3>2. \A n \in Models : removed'[n] # Null => n \in Offers[removed'[n].provider]
      BY <1>2, <2>3, <2>8 DEF RowsOwned
    <3> QED BY <3>1, <3>2 DEF RowsOwned, Exists
  <2>14. BuriedDeep'
    <3>1. call'[c] = r /\ \A d \in Calls : d # c => call'[d] = call[d]
      BY <2>9 DEF CatalogueParts, CatalogueTyped
    <3>2. \A n \in Models : Warned(r, n)
      BY <2>9, AtRest DEF Resting
    <3>3. \A n \in Models : n # m /\ buried[n] # Null /\ ~buried[n].manual =>
            /\ removed'[n] # Null
            /\ \A d \in Calls \ buried[n].by : Warned(call'[d], n)
      BY <2>3, <2>8, <3>1, <3>2 DEF BuriedDeep
    <3>4. ~manual => removed'[m] # Null /\ \A d \in Calls \ SyncsThatRead : Warned(call'[d], m)
      <4>1. \A d \in Calls \ SyncsThatRead : Warned(call[d], m)
        BY DEF Warned, SyncsThatRead
      <4> QED BY <1>2, <2>8, <3>1, <3>2, <4>1
    <3>5. \A n \in Models : buried'[n] # Null /\ ~buried'[n].manual =>
            /\ removed'[n] # Null
            /\ \A d \in Calls \ buried'[n].by : Warned(call'[d], n)
      BY <2>4, <2>6, <3>3, <3>4
    <3> QED BY <3>5 DEF BuriedDeep, Warned
  <2>15. Alone => Settledness'
    <3> SUFFICES ASSUME Alone
                 PROVE  Settledness'
      OBVIOUS
    <3>1. \A n \in Models : catalogue'[n] # Null =>
            /\ catalogue'[n] = catalogue[n] /\ n # m /\ m \notin catalogue[n].fallbacks
            /\ catalogue[n].fallbacks \subseteq Models
            /\ \A k \in catalogue[n].fallbacks : catalogue[k] # Null
            /\ Backed(catalogue[n].provider) /\ removed[n] = Null
      BY <2>2, <2>3, <2>5 DEF Settledness, Exists, Lists, Row
    <3>2. \A n \in Models : catalogue'[n] # Null =>
            /\ \A k \in catalogue'[n].fallbacks : catalogue'[k] # Null
            /\ removed'[n] = Null
      BY <2>5, <2>8, <3>1
    <3>3. UNCHANGED <<configs, routed>>
      BY <2>1
    <3>4. routed = Enabled
      BY <2>2 DEF Settledness
    <3> QED BY <3>1, <3>2, <3>3, <3>4 DEF Settledness, Exists, Backed, Enabled
  <2> QED BY <1>1, <2>9, <2>10, <2>11, <2>12, <2>13, <2>14, <2>15, WritesLast
<1> QED BY <1>3, <1>4

LEMMA UnremoveKeeps ==
  ASSUME CatalogueParts, NEW c \in Calls, Unremove(c)
  PROVE  CatalogueParts'
<1> DEFINE m == call[c].model
<1>1. Sound(call[c]) /\ call[c].at = "unremove"
  BY InCall DEF Unremove
<1>2. m \in Models
  BY <1>1 DEF Sound
<1>3. CASE Fail(c)
  BY <1>1, <1>3, Fails
<1>4. CASE ~Fail(c)
  <2>1. /\ removed' = [removed EXCEPT ![m] = Null] /\ buried' = [buried EXCEPT ![m] = Null]
        /\ Listing(c) /\ UNCHANGED <<catalogue, configs, routed, issued>>
    BY <1>4 DEF Unremove
  <2>2. PICK r \in Call : call' = [call EXCEPT ![c] = r] /\ Onward(r, c, "list")
    BY <2>1, GoneListing
  <2>3. overlapped' = overlapped
    BY <2>1, GoneListing
  <2>4. r.at # "scan"
    BY <2>2 DEF Onward
  <2> HIDE DEF m
  <2>5. /\ NoIdIsReused /\ TablesTyped' /\ RowsOwned' /\ BuriedDeep'
        /\ Settledness => Settledness'
    BY <1>2, <2>1, <2>2, <2>3, <2>4, LiftedUp
  <2>6. Alone => Settledness
    BY DEF Alone
  <2> QED BY <1>1, <2>2, <2>3, <2>5, <2>6, WritesLast
<1> QED BY <1>3, <1>4
-----------------------------------------------------------------------------
(* The providers.                                                          *)

(* The call goes on to list the providers.                                 *)
LEMMA ToProviders ==
  ASSUME CatalogueParts, NEW c \in Calls, call' = [call EXCEPT ![c].at = "providers"]
  PROVE  \E r \in Call : call' = [call EXCEPT ![c] = r] /\ Onward(r, c, "providers")
<1> DEFINE r == [call[c] EXCEPT !.at = "providers"]
<1>1. call[c] \in Call
  BY InCall
<1>2. r \in Call /\ Onward(r, c, "providers")
  BY <1>1 DEF Call, Onward
<1>3. call' = [call EXCEPT ![c] = r]
  OBVIOUS
<1> HIDE DEF r
<1> QED BY <1>2, <1>3

(* A statement that writes configs only: whoever is backed stays backed,   *)
(* or is nobody's provider.                                                *)
LEMMA ConfigsOnly ==
  ASSUME CatalogueParts, NEW c \in Calls, NEW r \in Call, call' = [call EXCEPT ![c] = r],
         NEW p \in Providers, NEW row \in ConfigRow \union {Null},
         configs' = [configs EXCEPT ![p] = row],
         row # Null \/ OfProvider(p) = {} \/ ~Alone,
         issued' \in 0..MaxRows, issued <= issued', \A m \in Models : Warned(r, m),
         UNCHANGED <<catalogue, removed, buried>>, Invalidate
  PROVE  /\ NoIdIsReused /\ TablesTyped' /\ RowsOwned' /\ BuriedDeep'
         /\ ~overlapped' => ~overlapped
         /\ Alone /\ ~overlapped' => Settledness'
<1>1. /\ configs \in [Providers -> ConfigRow \union {Null}] /\ TablesTyped /\ RowsOwned
      /\ catalogue \in Lists /\ issued \in 0..MaxRows /\ MaxRows \in Nat
  BY CatalogueAssumption DEF CatalogueParts, CatalogueTyped, TablesTyped, CatalogueAssumption
<1>2. /\ configs' \in [Providers -> ConfigRow \union {Null}] /\ configs'[p] = row
      /\ \A q \in Providers : q # p => configs'[q] = configs[q]
  BY <1>1
<1>8. /\ routed' \in SUBSET Custom /\ overlapped' \in BOOLEAN
      /\ ~overlapped' => ~overlapped /\ routed' = Enabled'
  BY <1>1 DEF Invalidate, Enabled, TablesTyped
<1>3. TablesTyped'
  BY <1>1, <1>2, <1>8 DEF TablesTyped
<1>4. NoIdIsReused
  BY <1>1 DEF NoIdIsReused, Exists
<1>5. RowsOwned'
  <2>1. \A n \in Models : Exists(n) => catalogue[n].id \in Nat /\ catalogue[n].id <= issued
    BY <1>1 DEF RowsOwned, Exists, Lists, Row
  <2>2. \A n \in Models : Exists(n) => catalogue[n].id <= issued'
    BY <1>1, <2>1
  <2> QED BY <1>1, <2>2 DEF RowsOwned, Exists
<1>6. BuriedDeep'
  BY StillBuried
<1>7. Alone /\ ~overlapped' => Settledness'
  <2> SUFFICES ASSUME Alone, ~overlapped'
               PROVE  Settledness'
    OBVIOUS
  <2>1. Settledness
    BY DEF Alone
  <2>2. \A n \in Models : Exists(n) => /\ catalogue[n].provider \in Providers
                                       /\ Backed(catalogue[n].provider)
                                       /\ catalogue[n].provider = p => row # Null
    BY <1>1, <2>1 DEF Settledness, Lists, Row, Exists, OfProvider
  <2>3. \A n \in Models : Exists(n) => Backed(catalogue[n].provider)'
    BY <1>2, <2>2 DEF Backed
  <2> QED BY <1>8, <2>1, <2>3 DEF Settledness, Exists
<1> QED BY <1>3, <1>4, <1>5, <1>6, <1>7, <1>8

LEMMA RegisterKeeps ==
  ASSUME CatalogueParts, NEW c \in Calls, Register(c)
  PROVE  CatalogueParts'
<1> DEFINE p == call[c].owner
           row == [id |-> NewRowId, enabled |-> TRUE]
<1>1. call[c] \in Call /\ Sound(call[c]) /\ call[c].at = "register"
  BY InCall DEF Register
<1>2. p \in Providers
  BY <1>1 DEF Sound
<1>3. CASE Fail(c)
  BY <1>1, <1>3, Fails
<1>4. CASE ~Fail(c)
  <2>1. /\ Issue /\ configs' = [configs EXCEPT ![p] = row]
        /\ UNCHANGED <<catalogue, removed, buried>> /\ Invalidate
        /\ \/ call' = [call EXCEPT ![c].at = "providers"]
           \/ call' = [call EXCEPT ![c] = [call[c] EXCEPT !.at = "next",
                                                          !.todo = {p} \intersect routed']]
    BY <1>4 DEF Register
  <2>2. NewRowId \in 1..MaxRows /\ issued' \in 0..MaxRows /\ issued <= issued'
    BY <2>1, CatalogueAssumption
       DEF Issue, NewRowId, CatalogueParts, CatalogueTyped, CatalogueAssumption
  <2>3. row \in ConfigRow /\ row # Null
    <3>1. row \in ConfigRow
      BY <2>2 DEF ConfigRow
    <3> QED BY <3>1, CatalogueAssumption DEF CatalogueAssumption
  <2> HIDE DEF row
  <2>4. configs'[p] = row
    BY <1>2, <2>1 DEF CatalogueParts, CatalogueTyped
  <2>5. CASE call' = [call EXCEPT ![c].at = "providers"]
    <3>1. PICK r \in Call : call' = [call EXCEPT ![c] = r] /\ Onward(r, c, "providers")
      BY <2>5, ToProviders
    <3>3. \A m \in Models : Warned(r, m)
      BY <3>1, AtRest DEF Resting
    <3> HIDE DEF p
    <3>4. /\ NoIdIsReused /\ TablesTyped' /\ RowsOwned' /\ BuriedDeep'
          /\ ~overlapped' => ~overlapped
          /\ Alone /\ ~overlapped' => Settledness'
      BY <1>2, <2>1, <2>2, <2>3, <3>1, <3>3, ConfigsOnly
    <3> QED BY <1>1, <3>1, <3>4, WritesLast
  <2>6. CASE call' = [call EXCEPT ![c] = [call[c] EXCEPT !.at = "next",
                                                         !.todo = {p} \intersect routed']]
    <3> DEFINE todo == {p} \intersect routed'
               r == [call[c] EXCEPT !.at = "next", !.todo = todo]
    <3>0. todo \in SUBSET Providers /\ todo \subseteq {p}
      BY <1>2
    <3> HIDE DEF todo
    <3>1. /\ r \in Call /\ r.at = "next" /\ r.todo = todo /\ r.op = call[c].op
          /\ r.owner = call[c].owner /\ r.chain = call[c].chain
      BY ZenonT(40), <1>1, <3>0 DEF Call
    <3>2. call' = [call EXCEPT ![c] = r]
      BY <2>6 DEF todo
    <3> HIDE DEF r
    <3>3. Sound(r) /\ \A m \in Models : Warned(r, m)
      BY <1>1, <3>1 DEF Sound, Warned, Adding
    <3>4. call'[c] = r
      BY <3>2 DEF CatalogueParts, CatalogueTyped
    <3> HIDE DEF p
    <3>5. /\ NoIdIsReused /\ TablesTyped' /\ RowsOwned' /\ BuriedDeep'
          /\ ~overlapped' => ~overlapped
          /\ Alone /\ ~overlapped' => Settledness'
      BY <1>2, <2>1, <2>2, <2>3, <3>1, <3>2, <3>3, ConfigsOnly
    <3>6. Lonely(call[c])'
      <4>1. \A q \in r.todo : configs'[q] # Null
        BY <2>3, <2>4, <3>0, <3>1
      <4> QED BY <3>1, <3>4, <4>1 DEF Lonely, Backed, Adding
    <3> QED BY <1>1, <3>1, <3>2, <3>3, <3>5, <3>6, Writes
  <2> QED BY <2>1, <2>5, <2>6
<1> QED BY <1>3, <1>4

(* The switch and the removal.                                             *)
LEMMA RowWritten ==
  ASSUME CatalogueParts, NEW c \in Calls, NEW p \in Providers, NEW row \in ConfigRow \union {Null},
         configs' = [configs EXCEPT ![p] = row], call' = [call EXCEPT ![c].at = "providers"],
         call[c].at # "idle", row # Null \/ OfProvider(p) = {} \/ ~Alone,
         UNCHANGED <<catalogue, removed, issued, buried>>, Invalidate
  PROVE  CatalogueParts'
<1>1. PICK r \in Call : call' = [call EXCEPT ![c] = r] /\ Onward(r, c, "providers")
  BY ToProviders
<1>3. \A m \in Models : Warned(r, m)
  BY <1>1, AtRest DEF Resting
<1>4. issued' \in 0..MaxRows /\ issued <= issued'
  BY CatalogueAssumption DEF CatalogueParts, CatalogueTyped, CatalogueAssumption
<1>5. /\ NoIdIsReused /\ TablesTyped' /\ RowsOwned' /\ BuriedDeep'
      /\ ~overlapped' => ~overlapped
      /\ Alone /\ ~overlapped' => Settledness'
  BY <1>1, <1>3, <1>4, ConfigsOnly
<1> QED BY <1>1, <1>5, WritesLast

LEMMA ToggleKeeps ==
  ASSUME CatalogueParts, NEW c \in Calls, Toggle(c)
  PROVE  CatalogueParts'
<1> DEFINE p == call[c].owner
           row == [configs[p] EXCEPT !.enabled = call[c].enable]
<1>1. call[c] \in Call /\ Sound(call[c]) /\ call[c].at = "toggle"
  BY InCall DEF Toggle
<1>2. p \in Providers /\ call[c].enable \in BOOLEAN
  BY <1>1 DEF Sound, Call
<1>3. CASE Fail(c)
  BY <1>1, <1>3, Fails
<1>4. CASE ~Fail(c)
  <2>1. /\ configs[p] # Null /\ call' = [call EXCEPT ![c].at = "providers"]
        /\ UNCHANGED <<catalogue, removed, issued, buried>> /\ Invalidate
    BY <1>4 DEF Toggle
  <2>2. configs \in [Providers -> ConfigRow \union {Null}]
    BY DEF CatalogueParts, CatalogueTyped
  <2>3. configs' = [configs EXCEPT ![p] = row]
    BY <1>2, <1>4, <2>1, <2>2 DEF Toggle
  <2>4. row \in ConfigRow
    BY <1>2, <2>1, <2>2 DEF ConfigRow
  <2>5. row # Null
    BY <2>4, CatalogueAssumption DEF CatalogueAssumption
  <2> HIDE DEF p, row
  <2> QED BY <1>1, <1>2, <2>1, <2>3, <2>4, <2>5, RowWritten
<1> QED BY <1>3, <1>4

LEMMA CountModelsKeeps ==
  ASSUME CatalogueParts, NEW c \in Calls, CountModels(c)
  PROVE  CatalogueParts'
<1>1. /\ call[c] \in Call /\ Sound(call[c]) /\ call[c].at = "count"
      /\ UNCHANGED <<catalogue, removed, configs, routed, issued, buried>>
  BY InCall DEF CountModels, tables
<1>2. CASE Goto(c, "failed")
  BY <1>1, <1>2, Rests DEF Resting
<1>3. CASE Goto(c, "unregister") /\ OfProvider(call[c].owner) = {}
  <2>1. ASSUME NEW r \in Call, Onward(r, c, "unregister")
        PROVE  Sound(r) /\ (Alone => Lonely(r))
    <3>1. /\ r.at = "unregister" /\ r.op = call[c].op
          /\ r.owner = call[c].owner /\ r.chain = call[c].chain
      BY <2>1 DEF Onward
    <3>2. Sound(r)
      BY <1>1, <3>1 DEF Sound, Adding
    <3>3. Lonely(r)
      BY <1>3, <3>1 DEF Lonely, Adding
    <3> QED BY <3>2, <3>3
  <2>2. "unregister" \in Places
    BY DEF Places
  <2> QED BY <1>1, <1>3, <2>1, <2>2, Goes
<1> QED BY <1>2, <1>3 DEF CountModels

LEMMA UnregisterKeeps ==
  ASSUME CatalogueParts, NEW c \in Calls, Unregister(c)
  PROVE  CatalogueParts'
<1> DEFINE p == call[c].owner
<1>1. Sound(call[c]) /\ (Alone => Lonely(call[c])) /\ call[c].at = "unregister"
  BY InCall DEF Unregister
<1>2. p \in Providers
  BY <1>1 DEF Sound
<1>3. CASE Fail(c)
  BY <1>1, <1>3, Fails
<1>4. CASE ~Fail(c)
  <2>1. /\ configs' = [configs EXCEPT ![p] = Null] /\ Invalidate
        /\ call' = [call EXCEPT ![c].at = "providers"]
        /\ UNCHANGED <<catalogue, removed, issued, buried>>
    BY <1>4 DEF Unregister
  <2>2. OfProvider(p) = {} \/ ~Alone
    BY <1>1 DEF Lonely
  <2> HIDE DEF p
  <2> QED BY <1>1, <1>2, <2>1, <2>2, RowWritten
<1> QED BY <1>3, <1>4
-----------------------------------------------------------------------------
(* Every step.                                                             *)

LEMMA EndKeeps ==
  ASSUME CatalogueParts, NEW c \in Calls, End(c), call[c].at # "idle"
  PROVE  CatalogueParts'
<1>1. Idle \in Call /\ call' = [call EXCEPT ![c] = Idle]
      /\ UNCHANGED <<catalogue, removed, configs, routed, issued, buried, overlapped>>
  BY IdleIsTyped DEF End, tables
<1>2. Sound(Idle) /\ Lonely(Idle) /\ \A m \in Models : Warned(Idle, m)
  BY IdleIsTyped DEF Sound, Lonely, Warned, Adding
<1> QED BY <1>1, <1>2, Asks

(* Where a request stands, whoever waits for it.                           *)
LEMMA ReloadKeeps ==
  ASSUME CatalogueParts, NEW t \in Tabs, Reload(t)
  PROVE  CatalogueParts'
<1>1. call \in [Calls -> Call] /\ UNCHANGED <<catalogue, removed, configs, routed, issued, overlapped, buried>>
  BY DEF Reload, tables, CatalogueParts, CatalogueTyped
<1>2. ASSUME NEW c \in Calls
      PROVE  /\ call'[c] \in Call /\ call'[c].op = call[c].op /\ call'[c].at = call[c].at
             /\ call'[c].model = call[c].model /\ call'[c].id = call[c].id
             /\ call'[c].manual = call[c].manual /\ call'[c].owner = call[c].owner
             /\ call'[c].chain = call[c].chain /\ call'[c].todo = call[c].todo
             /\ call'[c].listed = call[c].listed /\ call'[c].rows = call[c].rows
             /\ call'[c].gone = call[c].gone /\ call'[c].again = call[c].again
  <2>1. call[c] \in Call
    BY <1>1
  <2>2. call'[c] = IF call[c].tab = t THEN [call[c] EXCEPT !.tab = Null] ELSE call[c]
    BY DEF Reload
  <2> QED BY <2>1, <2>2 DEF Call
<1>3. CatalogueTyped' /\ RowsOwned'
  <2>1. call' \in [Calls -> Call]
    BY <1>2 DEF Reload
  <2>2. RowsOwned'
    BY <1>1 DEF RowsOwned, Exists, CatalogueParts
  <2> QED BY <1>1, <2>1, <2>2 DEF CatalogueTyped, CatalogueParts
<1>4. ASSUME NEW c \in Calls
      PROVE  Sound(call[c])'
  BY <1>1, <1>2, InCall DEF Sound, SameHand, Exists, Adding
<1>5. BuriedDeep'
  <2>1. \A m \in Models : buried[m] # Null /\ ~buried[m].manual =>
          removed[m] # Null /\ \A d \in Calls \ buried[m].by : Warned(call'[d], m)
    BY <1>2 DEF BuriedDeep, CatalogueParts, Warned
  <2> QED BY <1>1, <2>1 DEF BuriedDeep, Warned
<1>6. ~overlapped' => Alone'
  <2> SUFFICES ASSUME ~overlapped
               PROVE  Alone'
    BY <1>1
  <2>1. Alone
    BY DEF CatalogueParts
  <2>2. Settledness'
    BY <1>1, <2>1 DEF Alone, Settledness, Exists, Backed, Enabled
  <2>3. ASSUME NEW c \in Calls
        PROVE  Lonely(call[c])'
    <3>1. Lonely(call[c])
      BY <2>1 DEF Alone
    <3> QED BY <1>1, <1>2, <3>1 DEF Lonely, Exists, Backed, OfProvider, Adding
  <2>4. \A c, d \in UnderWay' : c = d
    BY <1>2, <2>1 DEF UnderWay, Alone
  <2> QED BY <2>2, <2>3, <2>4 DEF Alone
<1> QED BY <1>3, <1>4, <1>5, <1>6 DEF CatalogueParts

LEMMA NothingHappens ==
  ASSUME CatalogueParts, UNCHANGED catalogueVars
  PROVE  CatalogueParts'
BY DEF catalogueVars, tables, CatalogueParts, CatalogueTyped, RowsOwned, Sound, SameHand, BuriedDeep, Warned,
       Alone, Settledness, Lonely, UnderWay, Exists, Backed, Enabled, OfProvider, Adding

(* The snapshot is rebuilt: it was not that of the rows, so that someone   *)
(* was not alone.                                                          *)
LEMMA RebuildKeeps ==
  ASSUME CatalogueParts, Rebuild
  PROVE  CatalogueParts'
<1>1. /\ UNCHANGED <<catalogue, removed, configs, issued, call, overlapped, buried>>
      /\ routed' = Enabled /\ routed # Enabled
  BY DEF Rebuild
<1>2. overlapped
  BY <1>1 DEF CatalogueParts, Alone, Settledness
<1>3. CatalogueTyped'
  BY <1>1 DEF CatalogueParts, CatalogueTyped, Enabled
<1> QED BY <1>1, <1>2, <1>3
       DEF CatalogueParts, RowsOwned, Sound, SameHand, BuriedDeep, Warned, Exists, Adding

LEMMA CallIsLost ==
  ASSUME CatalogueParts, NEW c \in Calls, Lose(c)
  PROVE  CatalogueParts'
<1>1. /\ Goto(c, "lost") /\ call[c].at # "idle"
      /\ UNCHANGED <<catalogue, removed, configs, routed, issued, buried>>
  BY DEF Lose, tables
<1> QED BY <1>1, Rests DEF Resting

LEMMA ServeKeeps ==
  ASSUME CatalogueParts, ServeNext
  PROVE  CatalogueParts'
<1>1. CASE Rebuild
  BY <1>1, RebuildKeeps
<1>2. ASSUME NEW c \in Calls,
             \/ NextProvider(c) \/ EndSync(c) \/ ReadRows(c) \/ ReadGone(c)
             \/ \E m \in Models : Refresh(c, m) \/ Import(c, m)
      PROVE  CatalogueParts'
  BY <1>2, NextProviderKeeps, EndSyncKeeps, ReadRowsKeeps, ReadGoneKeeps, RefreshKeeps, ImportKeeps
<1>3. ASSUME NEW c \in Calls, Chain(c) \/ Probe(c) \/ Lift(c) \/ Insert(c) \/ Save(c)
      PROVE  CatalogueParts'
  BY <1>3, ChainKeeps, ProbeKeeps, LiftKeeps, InsertKeeps, SaveKeeps
<1>4. ASSUME NEW c \in Calls, Referenced(c) \/ Remove(c) \/ Unremove(c) \/ Lose(c)
      PROVE  CatalogueParts'
  BY <1>4, ReferencedKeeps, RemoveKeeps, UnremoveKeeps, CallIsLost
<1>5. ASSUME NEW c \in Calls, Register(c) \/ Toggle(c) \/ CountModels(c) \/ Unregister(c)
      PROVE  CatalogueParts'
  BY <1>5, RegisterKeeps, ToggleKeeps, CountModelsKeeps, UnregisterKeeps
<1> QED BY <1>1, <1>2, <1>3, <1>4, <1>5 DEF ServeNext

(* What an operator may click.                                             *)
Clicked(t) ==
  \E c \in Calls :
    \/ ClickSync(c, t)
    \/ \E m \in Models :
         \/ \E p \in Providers, chain \in SUBSET Models : ClickCreate(c, t, m, p, chain)
         \/ \E chain \in {Untouched} \union SUBSET Models : ClickSave(c, t, m, chain)
         \/ ClickDelete(c, t, m) \/ ClickRestore(c, t, m)
    \/ \E p \in Providers : \/ ClickSyncOne(c, t, p) \/ ClickAdd(c, t, p)
                            \/ ClickToggle(c, t, p) \/ ClickRemove(c, t, p)

Answered(c) == Listed(c) \/ Answer(c) \/ AnswerProviders(c) \/ AnswerError(c)

LEMMA ConsoleSteps ==
  ConsoleNext => \/ ServeNext
                 \/ \E t \in Tabs : Reload(t) \/ UNCHANGED catalogueVars \/ Clicked(t)
                 \/ \E c \in Calls : Answered(c)
BY DEF ConsoleNext, Clicked, Answered, CloseEditor, OpenEditor

LEMMA ClicksKeep ==
  ASSUME CatalogueParts, NEW t \in Tabs, Clicked(t)
  PROVE  CatalogueParts'
<1>1. PICK c \in Calls :
        \/ ClickSync(c, t)
        \/ \E m \in Models :
             \/ \E p \in Providers, chain \in SUBSET Models : ClickCreate(c, t, m, p, chain)
             \/ \E chain \in {Untouched} \union SUBSET Models : ClickSave(c, t, m, chain)
             \/ ClickDelete(c, t, m) \/ ClickRestore(c, t, m)
        \/ \E p \in Providers : \/ ClickSyncOne(c, t, p) \/ ClickAdd(c, t, p)
                                \/ ClickToggle(c, t, p) \/ ClickRemove(c, t, p)
  BY DEF Clicked
<1>2. CASE ClickSync(c, t)
  BY <1>2, SyncBegins DEF ClickSync
<1>3. ASSUME NEW m \in Models, NEW p \in Providers, NEW chain \in SUBSET Models,
             ClickCreate(c, t, m, p, chain)
      PROVE  CatalogueParts'
  BY <1>3, CreateBegins DEF ClickCreate
<1>4. ASSUME NEW m \in Models, NEW chain \in {Untouched} \union SUBSET Models, ClickSave(c, t, m, chain)
      PROVE  CatalogueParts'
  <2>1. Update(c, t, m, RowOf(t, m), chain)
    BY <1>4 DEF ClickSave
  <2> QED BY <2>1, UpdateBegins
<1>5. ASSUME NEW m \in Models, ClickDelete(c, t, m) \/ ClickRestore(c, t, m)
      PROVE  CatalogueParts'
  <2>1. DeleteModel(c, t, m, RowOf(t, m)) \/ Restore(c, t, m, page[t].gone[m].id)
    BY <1>5 DEF ClickDelete, ClickRestore
  <2> QED BY <2>1, DeleteBegins, RestoreBegins
<1>6. ASSUME NEW p \in Providers, ClickSyncOne(c, t, p)
      PROVE  CatalogueParts'
  BY <1>6, SyncBegins DEF ClickSyncOne
<1>7. ASSUME NEW p \in Providers, ClickAdd(c, t, p) \/ ClickToggle(c, t, p) \/ ClickRemove(c, t, p)
      PROVE  CatalogueParts'
  <2>1. CASE ClickAdd(c, t, p)
    BY <2>1, ProviderBegins DEF ClickAdd
  <2>2. CASE ClickToggle(c, t, p)
    <3> DEFINE id == page[t].configs[p].id
               enable == ~page[t].configs[p].enabled
    <3>1. enable \in BOOLEAN /\ ToggleProvider(c, t, p, id, enable)
      BY <2>2 DEF ClickToggle
    <3> HIDE DEF id, enable
    <3> QED BY <3>1, ProviderBegins
  <2>3. CASE ClickRemove(c, t, p)
    <3> DEFINE id == page[t].configs[p].id
    <3>1. DropProvider(c, t, p, id)
      BY <2>3 DEF ClickRemove
    <3> HIDE DEF id
    <3> QED BY <3>1, ProviderBegins
  <2> QED BY <1>7, <2>1, <2>2, <2>3
<1> QED BY <1>1, <1>2, <1>3, <1>4, <1>5, <1>6, <1>7

LEMMA ConsoleKeeps ==
  ASSUME CatalogueParts, ConsoleNext
  PROVE  CatalogueParts'
<1>1. CASE ServeNext
  BY <1>1, ServeKeeps
<1>2. ASSUME NEW t \in Tabs, Reload(t) \/ UNCHANGED catalogueVars \/ Clicked(t)
      PROVE  CatalogueParts'
  BY <1>2, ReloadKeeps, NothingHappens, ClicksKeep
<1>3. ASSUME NEW c \in Calls, Answered(c)
      PROVE  CatalogueParts'
  <2>1. CASE Listed(c)
    <3>1. PICK at \in {"providers", "answer"} : Goto(c, at)
      BY <2>1 DEF Listed, tables
    <3>2. call[c].at = "list" /\ UNCHANGED <<catalogue, removed, configs, routed, issued, buried>>
      BY <2>1 DEF Listed, tables
    <3> QED BY <3>1, <3>2, Rests DEF Resting
  <2>2. CASE Answer(c)
    BY <2>2, EndKeeps DEF Answer
  <2>3. CASE AnswerProviders(c)
    BY <2>3, EndKeeps DEF AnswerProviders
  <2>4. CASE AnswerError(c)
    BY <2>4, EndKeeps DEF AnswerError
  <2> QED BY <1>3, <2>1, <2>2, <2>3, <2>4 DEF Answered
<1> QED BY <1>1, <1>2, <1>3, ConsoleSteps

LEMMA CatalogueBegins == Init => CatalogueInv
<1> SUFFICES ASSUME ConsoleInit
             PROVE  CatalogueParts
  BY DEF Init, CatalogueInv
<1>1. PICK s \in Scenarios : /\ catalogue = s.catalogue /\ configs = s.configs
                             /\ issued = s.issued /\ menu = s.menu
  BY DEF ConsoleInit, CatalogueInit
<1>2. /\ removed = [m \in Models |-> Null] /\ call = [c \in Calls |-> Idle]
      /\ overlapped = FALSE /\ buried = [m \in Models |-> Null] /\ routed = Enabled
  BY DEF ConsoleInit, CatalogueInit
<1>3. /\ catalogue \in Lists /\ configs \in [Providers -> ConfigRow \union {Null}]
      /\ issued \in 0..MaxRows
      /\ \A m \in Models : catalogue[m] # Null =>
           /\ catalogue[m].id <= issued
           /\ catalogue[m].manual \/ m \in Offers[catalogue[m].provider]
           /\ catalogue[m].provider \in Custom => configs[catalogue[m].provider] # Null
           /\ \A n \in catalogue[m].fallbacks : catalogue[n] # Null
  BY <1>1, ScenarioAssumption DEF ScenarioAssumption, Seeded
<1>4. CatalogueTyped
  <2>1. call \in [Calls -> Call]
    BY <1>2, IdleIsTyped
  <2>2. removed \in Suppressions /\ buried \in [Models -> Burial \union {Null}]
    BY <1>2 DEF Suppressions
  <2> QED BY <1>2, <1>3, <2>1, <2>2 DEF CatalogueTyped, Enabled
<1>5. RowsOwned
  BY <1>2, <1>3 DEF RowsOwned, Exists
<1>6. \A c \in Calls : call[c] = Idle
  BY <1>2
<1>7. \A c \in Calls : Sound(call[c])
  <2>1. Sound(Idle)
    BY IdleIsTyped DEF Sound, Adding
  <2> QED BY <1>6, <2>1
<1>8. BuriedDeep
  BY <1>2 DEF BuriedDeep
<1>9. Alone
  <2>1. Lonely(Idle)
    BY IdleIsTyped DEF Lonely, Adding
  <2>2. UnderWay = {}
    BY <1>6, IdleIsTyped DEF UnderWay
  <2>3. Settledness
    BY <1>2, <1>3 DEF Settledness, Exists, Backed, Enabled
  <2> QED BY <1>6, <2>1, <2>2, <2>3 DEF Alone
<1> QED BY <1>4, <1>5, <1>7, <1>8, <1>9 DEF CatalogueParts

LEMMA CatalogueStep == CatalogueInv /\ [Next]_vars => CatalogueInv'
<1> SUFFICES ASSUME CatalogueInv, [Next]_vars
             PROVE  CatalogueInv'
  OBVIOUS
<1>1. CASE Next
  <2>1. CASE part = "catalogue" /\ ConsoleNext
    BY <1>1, <2>1, ConsoleKeeps DEF Next, CatalogueInv
  <2>2. CASE part # "catalogue"
    BY <1>1, <2>2 DEF Next, CatalogueInv
  <2> QED BY <1>1, <2>1, <2>2 DEF Next
<1>2. CASE UNCHANGED vars
  <2>1. UNCHANGED catalogueVars /\ UNCHANGED part
    BY <1>2 DEF vars, consoleVars, catalogueVars, tables
  <2> QED BY <2>1, NothingHappens DEF CatalogueInv
<1> QED BY <1>1, <1>2
-----------------------------------------------------------------------------
(* What is promised.                                                       *)

(* What the administrators' requests and the syncs know of the catalogue,  *)
(* and what the catalogue is when they come one at a time, holds in every  *)
(* reachable state.                                                        *)
THEOREM CatalogueInvariance == Spec => []CatalogueInv
BY CatalogueBegins, CatalogueStep, PTL DEF Spec

(* As long as requests come one at a time, no chain names a model that is  *)
(* gone, no model a provider that is gone, and no id is live and removed   *)
(* at once.                                                                *)
THEOREM CatalogueIsConsistent == Spec => []ConsistentWhenAlone
<1>1. CatalogueInv => ConsistentWhenAlone
  <2> SUFFICES ASSUME CatalogueInv, part = "catalogue", ~overlapped
               PROVE  Dangling = {} /\ Orphans = {} /\ Contradicted = {}
    BY DEF ConsistentWhenAlone
  <2>1. Settledness
    BY DEF CatalogueInv, CatalogueParts, Alone
  <2> QED BY <2>1 DEF Settledness, Dangling, Orphans, Contradicted, Backed
<1> QED BY <1>1, CatalogueInvariance, PTL

(* Who writes the row of m.                                                *)
LEMMA Authors ==
  ASSUME CatalogueParts, ConsoleNext, NEW m \in Models, catalogue'[m] # catalogue[m], Exists(m)'
  PROVE  \E c \in Calls : \/ Refresh(c, m) /\ Exists(m)
                          \/ Import(c, m) /\ ~Exists(m)
                          \/ /\ call[c].at = "insert" /\ ~Exists(m) /\ catalogue'[m].manual
                          \/ /\ Exists(m) /\ catalogue'[m].source = catalogue[m].source
<1>1. catalogue \in Lists /\ catalogue' # catalogue
  BY DEF CatalogueParts, CatalogueTyped
<1>2. ServeNext
  <2>1. ASSUME NEW t \in Tabs, Reload(t) \/ UNCHANGED catalogueVars \/ Clicked(t)
        PROVE  UNCHANGED catalogue
    BY ZenonT(40), <2>1 DEF Reload, catalogueVars, tables, Clicked, ClickSync, ClickCreate, ClickSave, ClickDelete,
                ClickRestore, ClickSyncOne, ClickAdd, ClickToggle, ClickRemove,
                Sync, CreateManual, Update, DeleteModel, Restore, AddProvider, ToggleProvider,
                DropProvider
  <2>2. ASSUME NEW c \in Calls, Answered(c)
        PROVE  UNCHANGED catalogue
    BY <2>2 DEF Answered, Listed, Answer, AnswerProviders, AnswerError, End, tables
  <2> QED BY <1>1, <2>1, <2>2, ConsoleSteps
<1>3. PICK c \in Calls :
        \/ \E n \in Models : Refresh(c, n) \/ Import(c, n)
        \/ Insert(c) \/ Save(c) \/ Remove(c)
  <2>1. ASSUME NEW c \in Calls,
               \/ NextProvider(c) \/ EndSync(c) \/ ReadRows(c) \/ ReadGone(c)
               \/ Chain(c) \/ Probe(c) \/ Lift(c) \/ Referenced(c) \/ Unremove(c)
               \/ Register(c) \/ Toggle(c) \/ CountModels(c) \/ Unregister(c) \/ Lose(c)
        PROVE  UNCHANGED catalogue
    BY <2>1 DEF NextProvider, EndSync, ReadRows, ReadGone, Chain, Probe, Lift, Referenced, Unremove,
                Register, Toggle, CountModels, Unregister, Lose, Fail, tables
  <2>2. ~Rebuild
    BY <1>1 DEF Rebuild
  <2> QED BY <1>1, <1>2, <2>1, <2>2 DEF ServeNext
<1>4. ASSUME NEW n \in Models, Refresh(c, n) \/ Import(c, n)
      PROVE  n = m /\ ((Refresh(c, m) /\ Exists(m)) \/ (Import(c, m) /\ ~Exists(m)))
  <2>1. /\ \E row : catalogue' = [catalogue EXCEPT ![n] = row]
        /\ Refresh(c, n) => Exists(n)
        /\ Import(c, n) => ~Exists(n)
    BY <1>1, <1>4 DEF Refresh, Import, Fail, tables
  <2>2. n = m
    BY <1>1, <2>1 DEF Lists
  <2> QED BY <1>4, <2>1, <2>2
<1>5. CASE Insert(c)
  <2>1. /\ call[c].at = "insert" /\ ~Exists(call[c].model)
        /\ catalogue' = [catalogue EXCEPT ![call[c].model] = [id |-> NewRowId,
               provider |-> call[c].owner, manual |-> TRUE, source |-> "typed",
               fallbacks |-> call[c].chain]]
    BY <1>1, <1>5 DEF Insert, Fail, tables
  <2>2. call[c].model = m
    BY <1>1, <2>1 DEF Lists
  <2>3. catalogue'[m].manual
    BY <1>1, <2>1, <2>2 DEF Lists
  <2> QED BY <2>1, <2>2, <2>3
<1>6. CASE Save(c)
  <2> DEFINE chain == IF call[c].chain = Untouched THEN catalogue[m].fallbacks ELSE call[c].chain
  <2>1. /\ Exists(call[c].model)
        /\ catalogue' = [catalogue EXCEPT ![call[c].model].fallbacks =
             IF call[c].chain = Untouched THEN catalogue[call[c].model].fallbacks ELSE call[c].chain]
    BY <1>1, <1>6 DEF Save, Fail, tables
  <2>2. call[c].model = m
    BY <1>1, <2>1 DEF Lists
  <2>3. Exists(m) /\ catalogue'[m] = [catalogue[m] EXCEPT !.fallbacks = chain]
    BY <1>1, <2>1, <2>2 DEF Lists
  <2>4. catalogue[m] \in Row
    BY <1>1, <2>3 DEF Lists, Exists
  <2> HIDE DEF chain
  <2>5. catalogue'[m].source = catalogue[m].source
    BY <2>3, <2>4 DEF Row
  <2> QED BY <2>3, <2>5
<1>7. CASE Remove(c)
  <2>1. catalogue' = [catalogue EXCEPT ![call[c].model] = Null]
    BY <1>1, <1>7 DEF Remove, Fail, tables
  <2> QED BY <1>1, <2>1 DEF Lists, Exists
<1> QED BY <1>3, <1>4, <1>5, <1>6, <1>7

(* "That is what makes this button mean what it says": the id of a synced  *)
(* row that was deleted, and not restored since, comes back only by a sync *)
(* that had read the removed list before, or by hand.                      *)
THEOREM DeletionsStick == Spec => DeletionSticks
<1>1. ASSUME CatalogueInv, [Next]_vars, part = "catalogue", NEW m \in Models,
             buried[m] # Null, ~buried[m].manual, ~Exists(m), Exists(m)'
      PROVE  \/ \E c \in buried[m].by : call'[c] # call[c]
             \/ catalogue'[m].manual /\ \E c \in Calls : call[c].at = "insert"
  <2>1. CatalogueParts /\ catalogue'[m] # catalogue[m]
    BY <1>1 DEF CatalogueInv, Exists
  <2>2. ConsoleNext
    BY <1>1, <2>1 DEF Next, vars, consoleVars
  <2>3. PICK c \in Calls : \/ Import(c, m)
                           \/ call[c].at = "insert" /\ catalogue'[m].manual
    BY <1>1, <2>1, <2>2, Authors
  <2>4. ASSUME Import(c, m)
        PROVE  c \in buried[m].by /\ call'[c] # call[c]
    <3>1. /\ call[c].at = "scan" /\ call[c].gone # Null /\ call[c].gone[m] = Null
          /\ m \in Offers[call[c].owner] /\ m \in call[c].listed \union call[c].again
      BY <2>1, <2>4, ToWriteFacts DEF Import
    <3>2. ~Warned(call[c], m)
      BY <3>1 DEF Warned
    <3>3. c \in buried[m].by
      BY <1>1, <2>1, <3>2 DEF CatalogueParts, BuriedDeep
    <3>4. call \in [Calls -> Call] /\ call' = [call EXCEPT ![c] = Past(c, m)]
      BY <1>1, <2>1, <2>4 DEF Import, CatalogueParts, CatalogueTyped
    <3>5. /\ call'[c].listed = call[c].listed \ {m}
          /\ m \notin call[c].listed => call'[c].again = call[c].again \ {m}
      BY <3>4 DEF Call, Past
    <3> QED BY <3>1, <3>3, <3>5
  <2> QED BY <2>3, <2>4
<1>2. CatalogueInv /\ [Next]_vars =>
        [part = "catalogue" => \A m \in Models :
           /\ buried[m] # Null /\ ~buried[m].manual
           /\ ~Exists(m) /\ Exists(m)'
           => \/ \E c \in buried[m].by : call'[c] # call[c]
              \/ catalogue'[m].manual /\ \E c \in Calls : call[c].at = "insert"]_vars
  BY <1>1
<1> QED BY <1>2, CatalogueInvariance, PTL DEF Spec, DeletionSticks

(* When a request stops being a sync and fails, it is at a write.          *)
LEMMA Aborts ==
  ASSUME CatalogueParts, ConsoleNext, NEW c \in Calls, call[c].at = "scan", call'[c].at = "failed"
  PROVE  \E m \in Models : (Refresh(c, m) /\ ~Exists(m)) \/ (Import(c, m) /\ Exists(m))
<1>1. call \in [Calls -> Call] /\ call[c] \in Call
  BY DEF CatalogueParts, CatalogueTyped
<1>2. ASSUME NEW d \in Calls, d # c, NEW r, call' = [call EXCEPT ![d] = r]
      PROVE  FALSE
  BY <1>1, <1>2
<1>3. ServeNext
  <2>1. ASSUME NEW t \in Tabs, Reload(t) \/ UNCHANGED catalogueVars
        PROVE  FALSE
    <3>1. call'[c].at = call[c].at
      BY <1>1, <2>1 DEF Reload, catalogueVars, tables, Call
    <3> QED BY <3>1
  <2>2. ASSUME NEW t \in Tabs, Clicked(t)
        PROVE  FALSE
    <3>1. PICK d \in Calls :
            \/ \E w, ps : Sync(d, t, w, ps)
            \/ \E m, p, chain : CreateManual(d, t, m, p, chain)
            \/ \E m, id, chain : Update(d, t, m, id, chain)
            \/ \E m, id : DeleteModel(d, t, m, id) \/ Restore(d, t, m, id)
            \/ \E p : AddProvider(d, t, p)
            \/ \E p, id, enable : ToggleProvider(d, t, p, id, enable) \/ DropProvider(d, t, p, id)
      BY <2>2 DEF Clicked, ClickSync, ClickCreate, ClickSave, ClickDelete, ClickRestore,
                  ClickSyncOne, ClickAdd, ClickToggle, ClickRemove
    <3>2. call[d].at = "idle" /\ (d # c => call'[c] = call[c])
      BY <1>1, <3>1 DEF Sync, CreateManual, Update, DeleteModel, Restore, AddProvider,
                        ToggleProvider, DropProvider, Start
    <3> QED BY <3>2
  <2>3. ASSUME NEW d \in Calls, Answered(d)
        PROVE  FALSE
    <3>1. call[d].at # "scan" /\ \E r : call' = [call EXCEPT ![d] = r]
      BY <2>3 DEF Answered, Listed, Answer, AnswerProviders, AnswerError, End, Goto
    <3> QED BY <1>2, <3>1
  <2> QED BY <2>1, <2>2, <2>3, ConsoleSteps
<1>4. ASSUME NEW d \in Calls,
             \/ Chain(d) \/ Probe(d) \/ Lift(d) \/ Insert(d) \/ Save(d)
             \/ Referenced(d) \/ Remove(d) \/ Unremove(d)
             \/ Register(d) \/ Toggle(d) \/ CountModels(d) \/ Unregister(d)
      PROVE  FALSE
  <2>1. call[d].at # "scan" /\ \E r : call' = [call EXCEPT ![d] = r]
    BY <1>4 DEF Chain, Probe, Lift, Insert, Save, Referenced, Remove, Unremove, Register, Toggle,
                CountModels, Unregister, Goto, Fail, Listing, ListingAfter
  <2> QED BY <1>2, <2>1
<1>5. ASSUME NEW d \in Calls,
             NextProvider(d) \/ EndSync(d) \/ ReadRows(d) \/ ReadGone(d) \/ Lose(d)
      PROVE  FALSE
  <2>1. \E r : call' = [call EXCEPT ![d] = r]
    BY <1>5 DEF NextProvider, EndSync, ReadRows, ReadGone, Lose, Goto, ListingAfter
  <2>2. d = c
    BY <1>2, <2>1
  <2>3. CASE NextProvider(c)
    <3>1. PICK p \in call[c].todo :
            \/ \E offered, twice \in SUBSET Offers[p] :
                 call' = [call EXCEPT ![c] = [call[c] EXCEPT !.at = "scan",
                            !.todo = call[c].todo \ {p}, !.owner = p, !.listed = offered,
                            !.again = twice, !.rows = Null, !.gone = Null]]
            \/ call' = [call EXCEPT ![c] = [call[c] EXCEPT !.at = "next",
                                                           !.todo = call[c].todo \ {p}]]
      BY <2>3 DEF NextProvider
    <3>2. ASSUME NEW offered \in SUBSET Offers[p], NEW twice \in SUBSET Offers[p],
                 call' = [call EXCEPT ![c] = [call[c] EXCEPT !.at = "scan",
                            !.todo = call[c].todo \ {p}, !.owner = p, !.listed = offered,
                            !.again = twice, !.rows = Null, !.gone = Null]]
          PROVE  call'[c].at = "scan"
      BY <1>1, <3>2 DEF Call
    <3>3. ASSUME call' = [call EXCEPT ![c] = [call[c] EXCEPT !.at = "next",
                                                             !.todo = call[c].todo \ {p}]]
          PROVE  call'[c].at = "next"
      BY <1>1, <3>3 DEF Call
    <3> QED BY <3>1, <3>2, <3>3
  <2>4. CASE EndSync(c)
    <3> DEFINE wrote == call[c].wrote
    <3>1. wrote \in BOOLEAN /\ (Goto(c, "providers") \/ ListingAfter(c, wrote))
      BY <1>1, <2>4 DEF EndSync, Call
    <3> HIDE DEF wrote
    <3>2. PICK at \in {"providers", "list"}, r \in Call : call' = [call EXCEPT ![c] = r] /\ Onward(r, c, at)
      BY <3>1, GoneOn, GoneListingAfter DEF Places
    <3>3. call'[c].at = at
      BY <1>1, <3>2 DEF Onward
    <3> QED BY <3>3
  <2>5. CASE ReadRows(c) \/ ReadGone(c)
    <3>1. call'[c].at = call[c].at
      BY <1>1, <2>5 DEF ReadRows, ReadGone, Call
    <3> QED BY <3>1
  <2>6. CASE Lose(c)
    <3>1. call'[c].at = "lost"
      BY <1>1, <2>6 DEF Lose, Goto, Call
    <3> QED BY <3>1
  <2> QED BY <1>5, <2>2, <2>3, <2>4, <2>5, <2>6
<1>6. PICK d \in Calls, m \in Models : Refresh(d, m) \/ Import(d, m)
  <2>1. ~Rebuild
    BY <1>1 DEF Rebuild
  <2> QED BY <1>3, <1>4, <1>5, <2>1 DEF ServeNext
<1>7. d = c
  <2>1. \E r : call' = [call EXCEPT ![d] = r]
    BY <1>6 DEF Refresh, Import, Fail, Goto
  <2> QED BY <1>2, <2>1
<1>8. call' = [call EXCEPT ![c] = Past(c, m)] => call'[c].at = "scan"
  BY <1>1 DEF Call, Past
<1>9. /\ Refresh(c, m) /\ Exists(m) => call' = [call EXCEPT ![c] = Past(c, m)]
      /\ Import(c, m) /\ ~Exists(m) => call' = [call EXCEPT ![c] = Past(c, m)]
  BY DEF Refresh, Import
<1> QED BY <1>6, <1>7, <1>8, <1>9

(* Only a race makes a sync rewrite what someone typed in; and only a      *)
(* race, a row of another provider's or an id its upstream names twice     *)
(* makes it leave the providers after it unread.                           *)
THEOREM SyncsHarmByRaceOnly == Spec => SyncHarmsByRaceOnly
<1>1. ASSUME CatalogueInv, [Next]_vars, part = "catalogue", NEW m \in Models,
             Exists(m), catalogue[m].manual, catalogue[m].source = "typed",
             Exists(m)', catalogue'[m].source = "upstream"
      PROVE  \E c \in Calls : /\ call[c].at = "scan" /\ call[c].rows # Null
                              /\ call[c].rows[m] # Null /\ call[c].rows[m].id # catalogue[m].id
  <2>1. CatalogueParts /\ catalogue'[m] # catalogue[m]
    BY <1>1 DEF CatalogueInv
  <2>2. ConsoleNext
    BY <1>1, <2>1 DEF Next, vars, consoleVars
  <2>3. PICK c \in Calls : Refresh(c, m)
    BY <1>1, <2>1, <2>2, Authors
  <2>4. /\ call[c].at = "scan" /\ call[c].rows # Null /\ call[c].rows[m] # Null
        /\ ~call[c].rows[m].manual
    BY <2>1, <2>3, ToWriteFacts DEF Refresh
  <2>5. SameHand(m, call[c].rows[m].id, call[c].rows[m].manual)
    BY <2>1, <2>4, InCall DEF Sound
  <2> QED BY <1>1, <2>4, <2>5 DEF SameHand
<1>2. ASSUME CatalogueInv, [Next]_vars, part = "catalogue", NEW c \in Calls,
             call[c].at = "scan", call'[c].at = "failed", ~overlapped
      PROVE  \/ Squatted(call[c].owner)
             \/ \E m \in call[c].again \ call[c].listed : Exists(m) /\ call[c].rows[m] = Null
  <2>1. CatalogueParts /\ Lonely(call[c]) /\ call' # call
    BY <1>2 DEF CatalogueInv, CatalogueParts, Alone
  <2>2. ConsoleNext
    BY <1>2, <2>1 DEF Next, vars, consoleVars
  <2>3. PICK m \in Models : (Refresh(c, m) /\ ~Exists(m)) \/ (Import(c, m) /\ Exists(m))
    BY <1>2, <2>1, <2>2, Aborts
  <2>4. /\ m \in Offers[call[c].owner] /\ m \in call[c].listed \union call[c].again
        /\ call[c].at = "scan" /\ call[c].rows # Null
        /\ call[c].rows[m] = Null <=> Import(c, m)
    BY <2>1, <2>3, ToWriteFacts DEF Refresh, Import
  <2>5. CASE m \in call[c].listed
    <3>1. call[c].rows[m] # Null <=> Exists(m) /\ catalogue[m].provider = call[c].owner
      BY <1>2, <2>1, <2>4, <2>5 DEF Lonely
    <3> QED BY <2>3, <2>4, <3>1 DEF Squatted, Refresh
  <2>6. CASE m \in call[c].again \ call[c].listed
    <3>1. call[c].rows[m] # Null => Exists(m)
      BY <1>2, <2>1, <2>4, <2>6 DEF Lonely
    <3> QED BY <2>3, <2>4, <2>6, <3>1 DEF Refresh
  <2> QED BY <2>4, <2>5, <2>6
<1>3. CatalogueInv /\ [Next]_vars =>
        [part = "catalogue" => \A m \in Models :
           /\ Exists(m) /\ catalogue[m].manual /\ catalogue[m].source = "typed"
           /\ Exists(m)' /\ catalogue'[m].source = "upstream"
           => \E c \in Calls : /\ call[c].at = "scan" /\ call[c].rows # Null
                               /\ call[c].rows[m] # Null /\ call[c].rows[m].id # catalogue[m].id]_vars
  BY <1>1
<1>4. CatalogueInv /\ [Next]_vars =>
        [part = "catalogue" => \A c \in Calls :
           call[c].at = "scan" /\ call'[c].at = "failed" =>
             \/ overlapped \/ Squatted(call[c].owner)
             \/ \E m \in call[c].again \ call[c].listed : Exists(m) /\ call[c].rows[m] = Null]_vars
  BY <1>2
<1> QED BY <1>3, <1>4, CatalogueInvariance, PTL
       DEF Spec, SyncHarmsByRaceOnly, TypedRowsAreRewrittenByRace, SyncAbortsByClash

-----------------------------------------------------------------------------
(* The inductive invariant of the paged tables.                            *)

TableTyped ==
  /\ stored \in [TableRows -> Table!Statuses \union {Null}]
  /\ loads \in [Calls -> Table!Load \union {Null}]
  /\ tasks \in [Calls -> Table!Task \union {Null}]
  /\ list \in Table!Screen

(* The load of the last effect; what a load begun by hand asks is its own  *)
(* affair.                                                                 *)
Effective(l) == loads[l] # Null /\ loads[l].fresh /\ loads[l].by = "effect"

SaysItsQuery == IF list.error = Null THEN list.data.query = list.query ELSE list.error = list.query

LoadsOfQuery ==
  /\ \A l \in Calls : loads[l] # Null =>
       /\ loads[l].by = "hand" => loads[l].fresh
       /\ loads[l].releases => loads[l].by = "hand"
       /\ Effective(l) => loads[l].query = list.query
  /\ \A k, l \in Calls : Effective(k) /\ Effective(l) => k = l
  /\ list.by = "effect" /\ (\A l \in Calls : loads[l] # Null => ~loads[l].fresh) => SaysItsQuery

(* The rows of rs that a query names, and whether they reach its page.     *)
Fits(rs, q) == {r \in TableRows : /\ rs[r] # Null
                                  /\ q.select = "any" \/ rs[r] = q.select
                                  /\ q.search => r \in Found}
Reaches(rs, q) == q.page = 1 \/ q.page <= Cardinality(Fits(rs, q))

PagesReached ==
  ~list.shrunk =>
    /\ list.data.total <= Cardinality(Fits(stored, list.data.query))
    /\ ~list.hasty =>
         /\ list.data.rows = {} => list.data.total = 0
         /\ Reaches(stored, list.query)
         /\ \A l \in Calls : loads[l] # Null => Reaches(stored, loads[l].query)
         /\ \A t \in Calls : tasks[t] # Null => Reaches(stored, tasks[t].query)

(* An action and the reload it awaits hold the page's `busy'.              *)
Acts(t) == tasks[t] # Null /\ tasks[t].kind = "action"
Reloads(l) == loads[l] # Null /\ loads[l].releases

ActsOnce ==
  /\ \A t \in Calls : Acts(t) => list.busy
  /\ \A l \in Calls : Reloads(l) => list.busy
  /\ \A t, u \in Calls : Acts(t) /\ Acts(u) => t = u
  /\ \A k, l \in Calls : Reloads(k) /\ Reloads(l) => k = l
  /\ \A t, l \in Calls : ~(Acts(t) /\ Reloads(l))

(* Whose request a dialog waits for.                                       *)
DialogsWait ==
  /\ ~({"act", "detail"} \subseteq list.menu)
  /\ list.dialog # Null /\ list.dialog.kind = "detail" => "detail" \in list.menu
  /\ ~list.dismissed /\ ~list.crashed =>
       /\ \A t \in Calls : tasks[t] # Null =>
            /\ list.dialog # Null /\ list.dialog.row = tasks[t].row
            /\ list.dialog.kind = tasks[t].kind
            /\ tasks[t].kind = "plan" => list.dialog.task = t
       /\ \A t, u \in Calls : tasks[t] # Null /\ tasks[u] # Null => t = u

TableParts == TableTyped /\ LoadsOfQuery /\ PagesReached /\ ActsOnce /\ DialogsWait

TableInv == part = "tables" => TableParts

LEMMA TableFacts ==
  ASSUME TableTyped
  PROVE  /\ list \in Table!Screen /\ list.query \in Table!Query /\ list.data \in Table!Answer
         /\ list.data.query \in Table!Query /\ list.data.total \in Nat
         /\ list.data.rows \in SUBSET TableRows
         /\ list.error \in Table!Query \union {Null}
         /\ list.dialog \in Table!Dialog \union {Null} /\ list.busy \in BOOLEAN
         /\ list.crashed \in BOOLEAN /\ list.hasty \in BOOLEAN /\ list.shrunk \in BOOLEAN
         /\ list.dismissed \in BOOLEAN /\ list.moves \in Int /\ list.draft \in BOOLEAN
         /\ list.expanded \in TableRows \union {Null}
         /\ \A l \in Calls : loads[l] # Null => loads[l] \in Table!Load
         /\ \A t \in Calls : tasks[t] # Null => tasks[t] \in Table!Task
BY DEF TableTyped, Table!Screen, Table!Answer

(* The rows that match.                                                    *)
LEMMA FitsAre ==
  ASSUME NEW rs, NEW q
  PROVE  /\ Fits(rs, q) \in SUBSET TableRows /\ IsFiniteSet(Fits(rs, q))
         /\ Cardinality(Fits(rs, q)) \in Nat
<1>1. Fits(rs, q) \in SUBSET TableRows
  BY DEF Fits
<1>2. IsFiniteSet(Fits(rs, q))
  BY <1>1, TableAssumption, FS_Subset
<1> QED BY <1>1, <1>2, FS_CardinalityType

LEMMA MatchesFit ==
  \A q : Table!BuildWhere(q) = Fits(stored, q)
BY DEF Table!BuildWhere, Fits

LEMMA FitsGrow ==
  ASSUME NEW rs, NEW rt, \A r \in TableRows : rs[r] # Null => rt[r] = rs[r], NEW q \in Table!Query
  PROVE  /\ Cardinality(Fits(rs, q)) <= Cardinality(Fits(rt, q))
         /\ Reaches(rs, q) => Reaches(rt, q)
<1>1. Fits(rs, q) \in SUBSET Fits(rt, q)
  BY DEF Fits
<1>2. Cardinality(Fits(rs, q)) <= Cardinality(Fits(rt, q))
  BY <1>1, FitsAre, FS_Subset
<1>3. /\ Cardinality(Fits(rs, q)) \in Nat /\ Cardinality(Fits(rt, q)) \in Nat
      /\ q.page \in Nat
  BY FitsAre DEF Table!Query
<1>4. ASSUME NEW i \in Nat, NEW j \in Nat, NEW k \in Nat, i <= j, k <= i
      PROVE  k <= j
  BY <1>4
<1> QED BY <1>2, <1>3, <1>4 DEF Reaches

(* Every place in the order of a finite set is some element's.             *)
Beyond(S, r, down) == {s \in S : IF down THEN s > r ELSE s < r}

LEMMA RanksAreTaken ==
  ASSUME NEW S \in SUBSET Nat, IsFiniteSet(S), NEW k \in Nat, k < Cardinality(S),
         NEW down \in BOOLEAN
  PROVE  \E r \in S : Cardinality(Beyond(S, r, down)) = k
<1> DEFINE n == Cardinality(S)
           rank == [r \in S |-> Cardinality(Beyond(S, r, down))]
           T == (0 .. n - 1) \ {k}
<1>1. n \in Nat /\ n > 0
  BY FS_CardinalityType
<1>2. ASSUME NEW r \in S
      PROVE  /\ Beyond(S, r, down) \in SUBSET (S \ {r}) /\ IsFiniteSet(Beyond(S, r, down))
             /\ Cardinality(Beyond(S, r, down)) \in Nat
             /\ Cardinality(Beyond(S, r, down)) <= n - 1
  <2>1. Beyond(S, r, down) \in SUBSET (S \ {r})
    BY DEF Beyond
  <2>2. IsFiniteSet(S \ {r}) /\ Cardinality(S \ {r}) = n - 1
    BY FS_RemoveElement
  <2>3. /\ IsFiniteSet(Beyond(S, r, down))
        /\ Cardinality(Beyond(S, r, down)) <= Cardinality(S \ {r})
    BY <2>1, <2>2, FS_Subset
  <2> QED BY <2>1, <2>2, <2>3, FS_CardinalityType
<1>3. ASSUME NEW r \in S, NEW s \in S, r \in Beyond(S, s, down)
      PROVE  Cardinality(Beyond(S, r, down)) < Cardinality(Beyond(S, s, down))
  <2> DEFINE A == Beyond(S, s, down)
  <2>1. Beyond(S, r, down) \in SUBSET (A \ {r})
    <3> SUFFICES ASSUME NEW e \in Beyond(S, r, down)
                 PROVE  e \in A /\ e # r
      OBVIOUS
    <3>1. e \in Nat /\ r \in Nat /\ s \in Nat /\ e \in S
      BY DEF Beyond
    <3>2. CASE down
      BY <1>3, <3>1, <3>2 DEF Beyond
    <3>3. CASE ~down
      BY <1>3, <3>1, <3>3 DEF Beyond
    <3> QED BY <3>2, <3>3
  <2>2. IsFiniteSet(A \ {r}) /\ Cardinality(A \ {r}) = Cardinality(A) - 1
    BY <1>2, <1>3, FS_RemoveElement
  <2>3. Cardinality(Beyond(S, r, down)) <= Cardinality(A \ {r})
    BY <2>1, <2>2, FS_Subset
  <2>4. Cardinality(A) \in Nat /\ Cardinality(Beyond(S, r, down)) \in Nat
    BY <1>2
  <2> QED BY <2>2, <2>3, <2>4
<1>4. ASSUME NEW r \in S, NEW s \in S, r # s
      PROVE  rank[r] # rank[s]
  <2>1. r \in Nat /\ s \in Nat
    OBVIOUS
  <2>2. r \in Beyond(S, s, down) \/ s \in Beyond(S, r, down)
    BY <1>4, <2>1 DEF Beyond
  <2>3. /\ Cardinality(Beyond(S, r, down)) \in Nat /\ Cardinality(Beyond(S, s, down)) \in Nat
    BY <1>2
  <2> QED BY <1>3, <2>2, <2>3
<1> SUFFICES ASSUME \A r \in S : Cardinality(Beyond(S, r, down)) # k
             PROVE  FALSE
  OBVIOUS
<1>5. rank \in [S -> T]
  BY <1>1, <1>2
<1>6. IsFiniteSet(0 .. n - 1) /\ Cardinality(0 .. n - 1) = n
  <2> DEFINE m == n - 1
  <2>1. m \in Int /\ m >= 0 /\ m - 0 + 1 = n
    BY <1>1
  <2> HIDE DEF m
  <2>2. IsFiniteSet(0 .. m) /\ Cardinality(0 .. m) = n
    <3> DEFINE z == 0
    <3>1. z \in Int /\ z = 0
      OBVIOUS
    <3> HIDE DEF z
    <3>2. /\ IsFiniteSet(z .. m)
          /\ Cardinality(z .. m) = IF z > m THEN 0 ELSE m - z + 1
      BY <2>1, <3>1, FS_Interval
    <3> QED BY <2>1, <3>1, <3>2
  <2> QED BY <2>2 DEF m
<1>7. k \in 0 .. n - 1
  BY <1>1
<1>8. IsFiniteSet(T) /\ Cardinality(T) = n - 1
  BY <1>6, <1>7, FS_RemoveElement
<1> HIDE DEF rank, T
<1>9. Cardinality(T) < Cardinality(S)
  BY <1>1, <1>8
<1>10. PICK r \in S, s \in S : r # s /\ rank[r] = rank[s]
  BY <1>5, <1>8, <1>9, FS_PigeonHole
<1> QED BY <1>4, <1>10

(* A page that is reached has rows, if any row matches.                    *)
LEMMA ReachedIsShown ==
  ASSUME NEW q \in Table!Query, Reaches(stored, q), Table!Slice(q) = {}
  PROVE  Cardinality(Fits(stored, q)) = 0
<1> DEFINE S == Fits(stored, q)
           k == q.page - 1
           down == q.sort = "desc"
<1>1. /\ S \in SUBSET TableRows /\ IsFiniteSet(S) /\ Cardinality(S) \in Nat
      /\ q.page \in Nat \ {0} /\ TableRows \subseteq Nat
  BY FitsAre, TableAssumption DEF Table!Query
<1> SUFFICES ASSUME Cardinality(S) # 0
             PROVE  FALSE
  OBVIOUS
<1>2. k \in Nat /\ k < Cardinality(S)
  BY <1>1 DEF Reaches
<1>3. S \in SUBSET Nat /\ down \in BOOLEAN
  BY <1>1
<1> HIDE DEF S, k, down
<1>4. PICK r \in S : Cardinality(Beyond(S, r, down)) = k
  BY <1>1, <1>2, <1>3, RanksAreTaken
<1>5. Table!Rank(r, q) = k
  <2>1. Beyond(S, r, down) = {s \in Table!BuildWhere(q) : IF q.sort = "desc" THEN s > r ELSE s < r}
    BY MatchesFit DEF Beyond, S, down
  <2> QED BY <1>4, <2>1 DEF Table!Rank, Table!Cardinality, Cardinality
<1>6. k \div 1 = k
  BY <1>2
<1>7. r \in Table!Slice(q)
  BY <1>5, <1>6, MatchesFit DEF Table!Slice, Table!PageSize, S, k
<1> QED BY <1>7

LEMMA ServedIs ==
  ASSUME NEW q \in Table!Query, NEW data, data = Table!Served(q)
  PROVE  /\ data \in Table!Answer /\ data.query = q
         /\ data.total = Cardinality(Fits(stored, q))
         /\ Reaches(stored, q) /\ data.rows = {} => data.total = 0
<1> DEFINE n == Cardinality(Fits(stored, q))
           shown == Table!Slice(q)
<1>1. n \in Nat /\ shown \in SUBSET TableRows
  BY FitsAre, MatchesFit DEF Table!Slice
<1>2. data = [query |-> q, rows |-> shown, total |-> n]
  BY MatchesFit DEF Table!Served, Table!Cardinality, Cardinality
<1>3. Reaches(stored, q) /\ shown = {} => n = 0
  BY ReachedIsShown
<1> HIDE DEF n, shown
<1>4. data \in Table!Answer /\ data.query = q /\ data.total = n /\ data.rows = shown
  BY <1>1, <1>2 DEF Table!Answer
<1> QED BY <1>3, <1>4 DEF n

(* A control is set.                                                       *)
LEMMA TableShows ==
  ASSUME TableParts, NEW p \in Table!Screen, Table!Show(p), UNCHANGED <<stored, tasks>>,
         p.menu = list.menu, p.data = list.data, p.error = list.error, p.by = list.by,
         p.dialog = list.dialog, p.busy = list.busy, p.crashed = list.crashed,
         p.shrunk = list.shrunk, p.dismissed = list.dismissed, list.hasty => p.hasty,
         ~p.shrunk /\ ~p.hasty => Reaches(stored, p.query)
  PROVE  TableParts'
<1>1. /\ loads \in [Calls -> Table!Load \union {Null}] /\ tasks \in [Calls -> Table!Task \union {Null}]
      /\ stored \in [TableRows -> Table!Statuses \union {Null}]
      /\ p.moves \in Int /\ p.query \in Table!Query /\ p.error \in Table!Query \union {Null}
  BY DEF TableParts, TableTyped, Table!Screen
<1>2. CASE p.query = list.query
  <2> DEFINE moves == p.moves + 1
  <2>1. list' = [p EXCEPT !.moves = moves] /\ loads' = loads
    BY <1>2 DEF Table!Show
  <2>2. moves \in Int
    BY <1>1
  <2> HIDE DEF moves
  <2>3. /\ list' \in Table!Screen /\ list'.query = list.query /\ list'.menu = list.menu
        /\ list'.data = list.data /\ list'.error = list.error /\ list'.by = list.by
        /\ list'.dialog = list.dialog /\ list'.busy = list.busy /\ list'.crashed = list.crashed
        /\ list'.shrunk = list.shrunk /\ list'.dismissed = list.dismissed /\ list'.hasty = p.hasty
    BY <1>2, <2>1, <2>2 DEF Table!Screen
  <2>4. TableTyped'
    BY <1>1, <2>1, <2>3 DEF TableTyped
  <2>5. LoadsOfQuery'
    BY <2>1, <2>3 DEF TableParts, LoadsOfQuery, Effective, SaysItsQuery
  <2>6. PagesReached'
    BY <2>1, <2>3 DEF TableParts, PagesReached
  <2>7. ActsOnce' /\ DialogsWait'
    BY <2>1, <2>3 DEF TableParts, ActsOnce, Acts, Reloads, DialogsWait
  <2> QED BY <2>4, <2>5, <2>6, <2>7 DEF TableParts
<1>3. CASE p.query # list.query
  <2> DEFINE error == IF p.kind = "usage" THEN Null ELSE p.error
             started == [p EXCEPT !.loading = TRUE, !.error = error]
             moves == started.moves + 1
             new == [query |-> p.query, by |-> "effect", fresh |-> TRUE, releases |-> FALSE]
  <2>1. PICK l \in DOMAIN loads : /\ loads[l] = Null /\ list' = [started EXCEPT !.moves = moves]
                                  /\ loads' = [Table!Aborted EXCEPT ![l] = new]
    BY <1>3 DEF Table!Show, Table!Starting, Table!Idle, Table!Begin
  <2>2. l \in Calls /\ error \in Table!Query \union {Null}
    BY <1>1, <2>1
  <2> HIDE DEF error
  <2>3. /\ started \in Table!Screen /\ started.query = p.query /\ started.menu = list.menu
        /\ started.data = list.data /\ started.by = list.by
        /\ started.dialog = list.dialog /\ started.busy = list.busy /\ started.crashed = list.crashed
        /\ started.shrunk = list.shrunk /\ started.dismissed = list.dismissed
        /\ started.hasty = p.hasty /\ started.moves = p.moves
    BY <2>2 DEF Table!Screen
  <2>4. moves \in Int
    BY <1>1, <2>3
  <2> HIDE DEF started, moves
  <2>5. /\ list' \in Table!Screen /\ list'.query = p.query /\ list'.menu = list.menu
        /\ list'.data = list.data /\ list'.by = list.by
        /\ list'.dialog = list.dialog /\ list'.busy = list.busy /\ list'.crashed = list.crashed
        /\ list'.shrunk = list.shrunk /\ list'.dismissed = list.dismissed /\ list'.hasty = p.hasty
    BY <2>1, <2>3, <2>4 DEF Table!Screen
  <2>6. /\ new \in Table!Load /\ new.query = p.query /\ new.by = "effect" /\ new.fresh = TRUE
        /\ new.releases = FALSE /\ new # Null
    <3>1. /\ new \in Table!Load /\ new.query = p.query /\ new.by = "effect" /\ new.fresh = TRUE
          /\ new.releases = FALSE
      BY <1>1 DEF Table!Load
    <3> HIDE DEF new
    <3> QED BY <3>1, TableAssumption
  <2> HIDE DEF new
  <2>7. \A k \in Calls : /\ Table!Aborted[k] \in Table!Load \union {Null}
                         /\ Table!Aborted[k] = Null <=> loads[k] = Null
                         /\ loads[k] # Null =>
                              /\ Table!Aborted[k].query = loads[k].query
                              /\ Table!Aborted[k].by = loads[k].by
                              /\ Table!Aborted[k].releases = loads[k].releases
                              /\ loads[k].by = "hand" => Table!Aborted[k] = loads[k]
                              /\ loads[k].by = "effect" => ~Table!Aborted[k].fresh
    <3> SUFFICES ASSUME NEW k \in Calls
                 PROVE  /\ Table!Aborted[k] \in Table!Load \union {Null}
                        /\ Table!Aborted[k] = Null <=> loads[k] = Null
                        /\ loads[k] # Null =>
                             /\ Table!Aborted[k].query = loads[k].query
                             /\ Table!Aborted[k].by = loads[k].by
                             /\ Table!Aborted[k].releases = loads[k].releases
                             /\ loads[k].by = "hand" => Table!Aborted[k] = loads[k]
                             /\ loads[k].by = "effect" => ~Table!Aborted[k].fresh
      OBVIOUS
    <3>1. CASE loads[k] # Null /\ loads[k].by = "effect"
      <4>1. Table!Aborted[k] = [loads[k] EXCEPT !.fresh = FALSE]
        BY <3>1 DEF Table!Aborted
      <4>2. loads[k] \in Table!Load
        BY <1>1, <3>1
      <4>3. /\ Table!Aborted[k] \in Table!Load /\ Table!Aborted[k].query = loads[k].query
            /\ Table!Aborted[k].by = loads[k].by /\ Table!Aborted[k].releases = loads[k].releases
            /\ Table!Aborted[k].fresh = FALSE
        BY <4>1, <4>2 DEF Table!Load
      <4>4. Table!Aborted[k] # Null
        BY <4>3, TableAssumption
      <4> QED BY <3>1, <4>3, <4>4
    <3>2. CASE ~(loads[k] # Null /\ loads[k].by = "effect")
      <4>1. Table!Aborted[k] = loads[k]
        BY <3>2 DEF Table!Aborted
      <4> QED BY <1>1, <3>2, <4>1
    <3> QED BY <3>1, <3>2
  <2>8. \A k \in Calls : loads'[k] = IF k = l THEN new ELSE Table!Aborted[k]
    BY <2>1, <2>2 DEF Table!Aborted
  <2>9. loads' \in [Calls -> Table!Load \union {Null}]
    <3>1. loads' = [k \in Calls |-> loads'[k]]
      BY <2>1 DEF Table!Aborted
    <3> QED BY <2>6, <2>7, <2>8, <3>1
  <2>10. TableTyped'
    BY <1>1, <2>5, <2>9 DEF TableTyped
  <2>11. \A k \in Calls : Effective(k)' => k = l
    <3> SUFFICES ASSUME NEW k \in Calls, k # l, loads'[k] # Null, loads'[k].by = "effect"
                 PROVE  ~loads'[k].fresh
      BY DEF Effective
    <3>1. loads[k] # Null /\ loads'[k] = Table!Aborted[k] /\ loads[k].by = "effect"
      BY <2>7, <2>8
    <3> QED BY <2>7, <3>1
  <2>12. LoadsOfQuery'
    <3>1. loads'[l] = new /\ loads'[l] # Null
      BY <2>2, <2>6, <2>8
    <3>2. ASSUME NEW k \in Calls, loads'[k] # Null
          PROVE  /\ loads'[k].by = "hand" => loads'[k].fresh
                 /\ loads'[k].releases => loads'[k].by = "hand"
                 /\ Effective(k)' => loads'[k].query = list'.query
      <4>1. CASE k = l
        BY <2>5, <2>6, <3>1, <4>1
      <4>2. CASE k # l
        <5>1. loads'[k] = Table!Aborted[k] /\ loads[k] # Null
          BY <2>7, <2>8, <3>2, <4>2
        <5>2. /\ loads[k].by = "hand" => loads[k].fresh
              /\ loads[k].releases => loads[k].by = "hand"
          BY <5>1 DEF TableParts, LoadsOfQuery
        <5> QED BY <2>7, <2>11, <4>2, <5>1, <5>2
      <4> QED BY <4>1, <4>2
    <3>3. ~(\A k \in Calls : loads'[k] # Null => ~loads'[k].fresh)
      BY <2>2, <2>6, <3>1
    <3> QED BY <2>11, <3>2, <3>3 DEF LoadsOfQuery
  <2>13. PagesReached'
    <3>1. \A k \in Calls : loads'[k] # Null =>
            \/ loads'[k].query = p.query
            \/ loads[k] # Null /\ loads'[k].query = loads[k].query
      BY <2>6, <2>7, <2>8
    <3> QED BY <2>5, <3>1 DEF TableParts, PagesReached
  <2>14. ActsOnce'
    <3>1. \A k \in Calls : Reloads(k)' => Reloads(k)
      <4> SUFFICES ASSUME NEW k \in Calls, loads'[k] # Null, loads'[k].releases
                   PROVE  loads[k] # Null /\ loads[k].releases
        BY DEF Reloads
      <4>1. k # l
        BY <2>6, <2>8
      <4> QED BY <2>7, <2>8, <4>1
    <3>2. \A t \in Calls : Acts(t)' <=> Acts(t)
      BY DEF Acts
    <3> QED BY <2>5, <3>1, <3>2 DEF TableParts, ActsOnce
  <2>15. DialogsWait'
    BY <2>5 DEF TableParts, DialogsWait
  <2> QED BY <2>10, <2>12, <2>13, <2>14, <2>15 DEF TableParts
<1> QED BY <1>2, <1>3

LEMMA TablePatches ==
  ASSUME TableParts, NEW value \in {"any", "on"}, Table!Patch(value)
  PROVE  TableParts'
<1> DEFINE chosen == [list.query EXCEPT !.select = value]
           q == [chosen EXCEPT !.page = 1]
           asked == [list EXCEPT !.query = q, !.expanded = Null]
<1>1. Table!Show(asked) /\ UNCHANGED <<stored, tasks>>
  BY DEF Table!Patch
<1>2. list \in Table!Screen /\ list.query \in Table!Query
  BY TableFacts DEF TableParts
<1>3. value \in Table!Statuses \union {"any"}
  BY DEF Table!Statuses
<1>4. chosen \in Table!Query
  BY <1>2, <1>3 DEF Table!Query
<1> HIDE DEF chosen
<1>5. q \in Table!Query /\ q.page = 1
  BY <1>4 DEF Table!Query
<1> HIDE DEF q
<1>6. /\ asked \in Table!Screen /\ asked.query = q /\ asked.menu = list.menu /\ asked.data = list.data
      /\ asked.error = list.error /\ asked.by = list.by /\ asked.dialog = list.dialog
      /\ asked.busy = list.busy /\ asked.crashed = list.crashed /\ asked.shrunk = list.shrunk
      /\ asked.dismissed = list.dismissed /\ asked.hasty = list.hasty
  BY <1>2, <1>5 DEF Table!Screen
<1> HIDE DEF asked
<1>7. Reaches(stored, asked.query)
  BY <1>5, <1>6 DEF Reaches
<1> QED BY <1>1, <1>6, <1>7, TableShows

LEMMA TableDebounces ==
  ASSUME TableParts, Table!DebounceFires
  PROVE  TableParts'
<1> DEFINE draft == list.draft
           moves == list.moves - 1
           chosen == [list.query EXCEPT !.search = draft]
           q == [chosen EXCEPT !.page = 1]
           asked == [list EXCEPT !.query = q, !.moves = moves]
<1>1. Table!Show(asked) /\ UNCHANGED <<stored, tasks>>
  BY DEF Table!DebounceFires
<1>2. list \in Table!Screen /\ list.query \in Table!Query /\ draft \in BOOLEAN /\ list.moves \in Int
  BY TableFacts DEF TableParts
<1>3. moves \in Int
  BY <1>2
<1>4. chosen \in Table!Query
  BY <1>2 DEF Table!Query
<1> HIDE DEF chosen
<1>5. q \in Table!Query /\ q.page = 1
  BY <1>4 DEF Table!Query
<1> HIDE DEF q, moves
<1>6. /\ asked \in Table!Screen /\ asked.query = q /\ asked.menu = list.menu /\ asked.data = list.data
      /\ asked.error = list.error /\ asked.by = list.by /\ asked.dialog = list.dialog
      /\ asked.busy = list.busy /\ asked.crashed = list.crashed /\ asked.shrunk = list.shrunk
      /\ asked.dismissed = list.dismissed /\ asked.hasty = list.hasty
  BY <1>2, <1>3, <1>5 DEF Table!Screen
<1> HIDE DEF asked
<1>7. Reaches(stored, asked.query)
  BY <1>5, <1>6 DEF Reaches
<1> QED BY <1>1, <1>6, <1>7, TableShows

LEMMA TableSorts ==
  ASSUME TableParts, Table!ToggleSort
  PROVE  TableParts'
<1> DEFINE sort == IF list.query.sort = "asc" THEN "desc" ELSE "asc"
           chosen == [list.query EXCEPT !.sort = sort]
           q == [chosen EXCEPT !.page = 1]
           asked == [list EXCEPT !.query = q]
<1>1. Table!Show(asked) /\ UNCHANGED <<stored, tasks>>
  BY DEF Table!ToggleSort
<1>2. list \in Table!Screen /\ list.query \in Table!Query
  BY TableFacts DEF TableParts
<1>3. sort \in {"desc", "asc"}
  OBVIOUS
<1> HIDE DEF sort
<1>4. chosen \in Table!Query
  BY <1>2, <1>3 DEF Table!Query
<1> HIDE DEF chosen
<1>5. q \in Table!Query /\ q.page = 1
  BY <1>4 DEF Table!Query
<1> HIDE DEF q
<1>6. /\ asked \in Table!Screen /\ asked.query = q /\ asked.menu = list.menu /\ asked.data = list.data
      /\ asked.error = list.error /\ asked.by = list.by /\ asked.dialog = list.dialog
      /\ asked.busy = list.busy /\ asked.crashed = list.crashed /\ asked.shrunk = list.shrunk
      /\ asked.dismissed = list.dismissed /\ asked.hasty = list.hasty
  BY <1>2, <1>5 DEF Table!Screen
<1> HIDE DEF asked
<1>7. Reaches(stored, asked.query)
  BY <1>5, <1>6 DEF Reaches
<1> QED BY <1>1, <1>6, <1>7, TableShows

LEMMA TableResets ==
  ASSUME TableParts, Table!Reset
  PROVE  TableParts'
<1> DEFINE q == Table!First
           asked == [list EXCEPT !.query = q, !.draft = FALSE]
<1>1. Table!Show(asked) /\ UNCHANGED <<stored, tasks>>
  BY DEF Table!Reset
<1>2. list \in Table!Screen
  BY TableFacts DEF TableParts
<1>3. q \in Table!Query /\ q.page = 1
  BY DEF Table!First, Table!Query
<1> HIDE DEF q
<1>4. /\ asked \in Table!Screen /\ asked.query = q /\ asked.menu = list.menu /\ asked.data = list.data
      /\ asked.error = list.error /\ asked.by = list.by /\ asked.dialog = list.dialog
      /\ asked.busy = list.busy /\ asked.crashed = list.crashed /\ asked.shrunk = list.shrunk
      /\ asked.dismissed = list.dismissed /\ asked.hasty = list.hasty
  BY <1>2, <1>3 DEF Table!Screen
<1> HIDE DEF asked
<1>5. Reaches(stored, asked.query)
  BY <1>3, <1>4 DEF Reaches
<1> QED BY <1>1, <1>4, <1>5, TableShows

(* A page that was counted from the rows shown is still there.             *)
LEMMA TableTurns ==
  ASSUME TableParts, NEW step \in {-1, 1}, Table!Turn(step)
  PROVE  TableParts'
<1> DEFINE n == list.data.query.page + step
           hasty == list.hasty \/ Table!InFlight # {} \/ list.data.query # list.query
           q == [list.query EXCEPT !.page = n]
           asked == [list EXCEPT !.query = q, !.hasty = hasty]
<1>1. list \in Table!Screen /\ list.query \in Table!Query /\ list.data.total \in Nat
      /\ list.data.query \in Table!Query /\ list.hasty \in BOOLEAN
  BY TableFacts DEF TableParts
<1>2. asked = [list EXCEPT !.query.page = n, !.hasty = hasty]
  BY <1>1 DEF Table!Screen, Table!Query
<1>3. Table!Show(asked) /\ UNCHANGED <<stored, tasks>> /\ n \in 1 .. Table!Pages
  BY <1>2 DEF Table!Turn
<1>4. n \in Nat \ {0} /\ n <= list.data.total
  <2>1. Table!Pages = list.data.total
    BY <1>1 DEF Table!Pages, Table!PageSize
  <2>2. n \in Int
    BY <1>1 DEF Table!Query
  <2> QED BY <1>1, <1>3, <2>1, <2>2
<1>5. hasty \in BOOLEAN /\ (list.hasty => hasty) /\ (~hasty => list.data.query = list.query)
  BY <1>1
<1> HIDE DEF n, hasty
<1>6. /\ q \in Table!Query /\ q.page = n /\ q.select = list.query.select
      /\ q.search = list.query.search
  BY <1>1, <1>4 DEF Table!Query
<1> HIDE DEF q
<1>7. /\ asked \in Table!Screen /\ asked.query = q /\ asked.menu = list.menu /\ asked.data = list.data
      /\ asked.error = list.error /\ asked.by = list.by /\ asked.dialog = list.dialog
      /\ asked.busy = list.busy /\ asked.crashed = list.crashed /\ asked.shrunk = list.shrunk
      /\ asked.dismissed = list.dismissed /\ asked.hasty = hasty
  BY <1>1, <1>5, <1>6 DEF Table!Screen
<1> HIDE DEF asked
<1>8. ASSUME ~list.shrunk, ~hasty
      PROVE  Reaches(stored, q)
  <2>1. Fits(stored, q) = Fits(stored, list.data.query)
    BY <1>5, <1>6, <1>8 DEF Fits
  <2>2. list.data.total <= Cardinality(Fits(stored, q))
    BY <1>8, <2>1 DEF TableParts, PagesReached
  <2>3. Cardinality(Fits(stored, q)) \in Nat
    BY FitsAre
  <2> QED BY <1>1, <1>4, <1>6, <2>2, <2>3 DEF Reaches
<1> QED BY <1>3, <1>5, <1>7, <1>8, TableShows

(* What touches neither loads nor requests, nor what the invariant reads.  *)
LEMMA TableStays ==
  ASSUME TableParts, UNCHANGED <<stored, loads, tasks>>, list' \in Table!Screen,
         list'.query = list.query, list'.menu = list.menu, list'.data = list.data,
         list'.error = list.error, list'.by = list.by, list'.dialog = list.dialog,
         list'.busy = list.busy, list'.crashed = list.crashed, list'.shrunk = list.shrunk,
         list'.dismissed = list.dismissed, list'.hasty = list.hasty
  PROVE  TableParts'
<1>1. TableTyped'
  BY DEF TableParts, TableTyped
<1>2. LoadsOfQuery' /\ PagesReached'
  BY DEF TableParts, LoadsOfQuery, Effective, SaysItsQuery, PagesReached
<1>3. ActsOnce' /\ DialogsWait'
  BY DEF TableParts, ActsOnce, Acts, Reloads, DialogsWait
<1> QED BY <1>1, <1>2, <1>3 DEF TableParts

LEMMA TableTypes ==
  ASSUME TableParts, Table!TypeSearch \/ \E r \in TableRows : Table!Expand(r)
  PROVE  TableParts'
<1> DEFINE moves == list.moves + 1
           draft == ~list.draft
<1>1. list \in Table!Screen /\ moves \in Int /\ draft \in BOOLEAN
  BY TableFacts DEF TableParts
<1>2. CASE Table!TypeSearch
  <2>1. list' = [list EXCEPT !.draft = draft, !.moves = moves] /\ UNCHANGED <<stored, loads, tasks>>
    BY <1>2 DEF Table!TypeSearch
  <2> HIDE DEF draft, moves
  <2> QED BY <1>1, <2>1, TableStays DEF Table!Screen
<1>3. CASE \E r \in TableRows : Table!Expand(r)
  <2>1. PICK r \in TableRows : Table!Expand(r)
    BY <1>3
  <2> DEFINE open == IF list.expanded = r THEN Null ELSE r
  <2>2. list' = [list EXCEPT !.expanded = open, !.moves = moves] /\ UNCHANGED <<stored, loads, tasks>>
    BY <2>1 DEF Table!Expand
  <2>3. open \in TableRows \union {Null}
    OBVIOUS
  <2> HIDE DEF open, moves
  <2> QED BY <1>1, <2>2, <2>3, TableStays DEF Table!Screen
<1> QED BY <1>2, <1>3

(* A load ends: it answers, it fails, or it was aborted.                   *)
LEMMA TableLands ==
  ASSUME TableParts, NEW l \in Calls, loads[l] # Null, loads' = [loads EXCEPT ![l] = Null],
         UNCHANGED <<stored, tasks>>, list' \in Table!Screen,
         list'.query = list.query, list'.menu = list.menu, list'.dialog = list.dialog,
         list'.crashed = list.crashed, list'.shrunk = list.shrunk,
         list'.dismissed = list.dismissed, list'.hasty = list.hasty,
         list'.busy = (list.busy /\ ~loads[l].releases),
         list'.by = "effect" /\ (\A k \in Calls : loads'[k] # Null => ~loads'[k].fresh)
           => SaysItsQuery',
         list'.data = list.data
           \/ /\ list'.data.total = Cardinality(Fits(stored, list'.data.query))
              /\ Reaches(stored, loads[l].query) /\ list'.data.rows = {} => list'.data.total = 0
  PROVE  TableParts'
<1>1. /\ loads \in [Calls -> Table!Load \union {Null}] /\ tasks \in [Calls -> Table!Task \union {Null}]
      /\ stored \in [TableRows -> Table!Statuses \union {Null}]
  BY DEF TableParts, TableTyped
<1>2. /\ loads' \in [Calls -> Table!Load \union {Null}]
      /\ \A k \in Calls : loads'[k] # Null => k # l /\ loads'[k] = loads[k] /\ loads[k] # Null
  BY <1>1
<1>3. TableTyped'
  BY <1>1, <1>2 DEF TableTyped
<1>4. \A k \in Calls : Effective(k)' => Effective(k)
  BY <1>2 DEF Effective
<1>5. LoadsOfQuery'
  BY <1>2, <1>4 DEF TableParts, LoadsOfQuery
<1>6. PagesReached'
  <2> SUFFICES ASSUME ~list.shrunk
               PROVE  /\ list'.data.total <= Cardinality(Fits(stored, list'.data.query))
                      /\ ~list.hasty =>
                           /\ list'.data.rows = {} => list'.data.total = 0
                           /\ Reaches(stored, list.query)
                           /\ \A k \in Calls : loads'[k] # Null => Reaches(stored, loads'[k].query)
                           /\ \A t \in Calls : tasks[t] # Null => Reaches(stored, tasks[t].query)
    BY DEF PagesReached
  <2>1. list'.data.total <= Cardinality(Fits(stored, list'.data.query))
    <3>1. CASE list'.data = list.data
      BY <3>1 DEF TableParts, PagesReached
    <3>2. CASE list'.data.total = Cardinality(Fits(stored, list'.data.query))
      <4>1. Cardinality(Fits(stored, list'.data.query)) \in Nat
        BY FitsAre
      <4> QED BY <3>2, <4>1
    <3> QED BY <3>1, <3>2
  <2>2. ASSUME ~list.hasty
        PROVE  list'.data.rows = {} => list'.data.total = 0
    BY <2>2 DEF TableParts, PagesReached
  <2> QED BY <1>2, <2>1, <2>2 DEF TableParts, PagesReached
<1>7. ActsOnce'
  <2>1. \A k \in Calls : Reloads(k)' => Reloads(k) /\ k # l
    BY <1>2 DEF Reloads
  <2>2. \A t \in Calls : Acts(t)' <=> Acts(t)
    BY DEF Acts
  <2>3. list'.busy <=> list.busy /\ ~Reloads(l)
    BY DEF Reloads
  <2> QED BY <2>1, <2>2, <2>3 DEF TableParts, ActsOnce
<1>8. DialogsWait'
  BY DEF TableParts, DialogsWait
<1> QED BY <1>3, <1>5, <1>6, <1>7, <1>8 DEF TableParts

LEMMA TableAborts ==
  ASSUME TableParts, NEW l \in Calls, Table!LoadAborted(l)
  PROVE  TableParts'
<1>1. /\ loads[l] # Null /\ ~loads[l].fresh /\ list' = [list EXCEPT !.loading = FALSE]
      /\ loads' = [loads EXCEPT ![l] = Null] /\ UNCHANGED <<stored, tasks>>
  BY DEF Table!LoadAborted
<1>2. /\ list \in Table!Screen /\ loads \in [Calls -> Table!Load \union {Null}]
      /\ loads[l] \in Table!Load
  BY <1>1, TableFacts DEF TableParts, TableTyped
<1>3. /\ list' \in Table!Screen /\ list'.query = list.query /\ list'.menu = list.menu
      /\ list'.dialog = list.dialog /\ list'.crashed = list.crashed /\ list'.shrunk = list.shrunk
      /\ list'.dismissed = list.dismissed /\ list'.hasty = list.hasty /\ list'.busy = list.busy
      /\ list'.by = list.by /\ list'.data = list.data /\ list'.error = list.error
  BY <1>1, <1>2 DEF Table!Screen
<1>4. ~loads[l].releases /\ list.busy \in BOOLEAN
  BY <1>1, <1>2 DEF TableParts, LoadsOfQuery, Table!Load, Table!Screen
<1>5. list'.busy = (list.busy /\ ~loads[l].releases)
  BY <1>3, <1>4
<1>6. ASSUME list'.by = "effect", \A k \in Calls : loads'[k] # Null => ~loads'[k].fresh
      PROVE  SaysItsQuery'
  <2>1. \A k \in Calls : loads[k] # Null => ~loads[k].fresh
    BY <1>1, <1>2, <1>6
  <2> QED BY <1>3, <1>6, <2>1 DEF TableParts, LoadsOfQuery, SaysItsQuery
<1> QED BY <1>1, <1>3, <1>5, <1>6, TableLands

LEMMA TableAnswers ==
  ASSUME TableParts, NEW l \in Calls, Table!LoadAnswers(l)
  PROVE  TableParts'
<1> DEFINE q == loads[l].query
           data == Table!Served(q)
           busy == list.busy /\ ~loads[l].releases
           by == loads[l].by
           p == [list EXCEPT !.data = data, !.error = Null]
<1>1. /\ loads[l] # Null /\ loads[l].fresh
      /\ list' = [p EXCEPT !.loading = FALSE, !.by = by, !.busy = p.busy /\ ~loads[l].releases]
      /\ loads' = [loads EXCEPT ![l] = Null] /\ UNCHANGED <<stored, tasks>>
  BY DEF Table!LoadAnswers, Table!Landed
<1>2. /\ list \in Table!Screen /\ loads \in [Calls -> Table!Load \union {Null}]
      /\ loads[l] \in Table!Load /\ q \in Table!Query /\ by \in {"effect", "hand"}
      /\ busy \in BOOLEAN
  BY <1>1, TableFacts DEF TableParts, TableTyped, Table!Load
<1>3. /\ data \in Table!Answer /\ data.query = q
      /\ data.total = Cardinality(Fits(stored, q))
      /\ Reaches(stored, q) /\ data.rows = {} => data.total = 0
  BY <1>2, ServedIs
<1> HIDE DEF data
<1>4. /\ p \in Table!Screen /\ p.query = list.query /\ p.menu = list.menu
      /\ p.dialog = list.dialog /\ p.crashed = list.crashed /\ p.shrunk = list.shrunk
      /\ p.dismissed = list.dismissed /\ p.hasty = list.hasty /\ p.busy = list.busy
      /\ p.data = data /\ p.error = Null
  BY <1>2, <1>3 DEF Table!Screen
<1>5. list' = [p EXCEPT !.loading = FALSE, !.by = by, !.busy = busy]
  BY <1>1, <1>4
<1> HIDE DEF p, busy, by
<1>6. /\ list' \in Table!Screen /\ list'.query = list.query /\ list'.menu = list.menu
      /\ list'.dialog = list.dialog /\ list'.crashed = list.crashed /\ list'.shrunk = list.shrunk
      /\ list'.dismissed = list.dismissed /\ list'.hasty = list.hasty /\ list'.busy = busy
      /\ list'.by = by /\ list'.data = data /\ list'.error = Null
  BY ZenonT(40), <1>2, <1>4, <1>5 DEF Table!Screen
<1>7. list'.by = "effect" => SaysItsQuery'
  BY ZenonT(40), <1>1, <1>3, <1>6 DEF TableParts, LoadsOfQuery, Effective, SaysItsQuery, by
<1> QED BY ZenonT(40), <1>1, <1>3, <1>6, <1>7, TableLands DEF busy

LEMMA TableFails ==
  ASSUME TableParts, NEW l \in Calls, Table!LoadFails(l)
  PROVE  TableParts'
<1> DEFINE q == loads[l].query
           busy == list.busy /\ ~loads[l].releases
           by == loads[l].by
           p == [list EXCEPT !.error = q]
<1>1. /\ loads[l] # Null /\ loads[l].fresh
      /\ list' = [p EXCEPT !.loading = FALSE, !.by = by, !.busy = p.busy /\ ~loads[l].releases]
      /\ loads' = [loads EXCEPT ![l] = Null] /\ UNCHANGED <<stored, tasks>>
  BY DEF Table!LoadFails, Table!Landed
<1>2. /\ list \in Table!Screen /\ loads \in [Calls -> Table!Load \union {Null}]
      /\ loads[l] \in Table!Load /\ q \in Table!Query /\ by \in {"effect", "hand"}
      /\ busy \in BOOLEAN
  BY <1>1, TableFacts DEF TableParts, TableTyped, Table!Load
<1>3. q # Null
  BY <1>2, TableAssumption
<1>4. /\ p \in Table!Screen /\ p.query = list.query /\ p.menu = list.menu
      /\ p.dialog = list.dialog /\ p.crashed = list.crashed /\ p.shrunk = list.shrunk
      /\ p.dismissed = list.dismissed /\ p.hasty = list.hasty /\ p.busy = list.busy
      /\ p.data = list.data /\ p.error = q
  BY <1>2 DEF Table!Screen
<1>5. list' = [p EXCEPT !.loading = FALSE, !.by = by, !.busy = busy]
  BY <1>1, <1>4
<1> HIDE DEF p, busy, by
<1>6. /\ list' \in Table!Screen /\ list'.query = list.query /\ list'.menu = list.menu
      /\ list'.dialog = list.dialog /\ list'.crashed = list.crashed /\ list'.shrunk = list.shrunk
      /\ list'.dismissed = list.dismissed /\ list'.hasty = list.hasty /\ list'.busy = busy
      /\ list'.by = by /\ list'.data = list.data /\ list'.error = q
  BY <1>2, <1>4, <1>5 DEF Table!Screen
<1>7. ASSUME by = "effect" PROVE q = list.query
  <2>1. Effective(l)
    BY <1>1, <1>7 DEF Effective, by
  <2> QED BY <1>1, <2>1 DEF TableParts, LoadsOfQuery
<1> HIDE DEF q
<1>8. list'.by = "effect" => SaysItsQuery'
  BY <1>3, <1>6, <1>7 DEF SaysItsQuery
<1> QED BY <1>1, <1>6, <1>8, TableLands DEF busy

(* A load is begun by hand: nothing aborts it, and nothing is said until   *)
(* it ends.                                                                *)
LEMMA HandLoads ==
  ASSUME TableParts, NEW l \in Calls, NEW new \in Table!Load, loads[l] = Null,
         new.by = "hand", new.fresh = TRUE, loads' = [loads EXCEPT ![l] = new],
         list'.query = list.query
  PROVE  /\ loads' \in [Calls -> Table!Load \union {Null}] /\ LoadsOfQuery'
         /\ \A k \in Calls : loads'[k] = IF k = l THEN new ELSE loads[k]
<1>1. loads \in [Calls -> Table!Load \union {Null}]
  BY DEF TableParts, TableTyped
<1>2. new # Null
  BY TableAssumption
<1>3. \A k \in Calls : loads'[k] = IF k = l THEN new ELSE loads[k]
  BY <1>1
<1>4. loads' \in [Calls -> Table!Load \union {Null}]
  BY <1>1
<1>5. \A k \in Calls : Effective(k)' => Effective(k) /\ loads'[k] = loads[k]
  BY <1>3 DEF Effective
<1>6. \A k \in Calls : loads'[k] # Null =>
        /\ loads'[k].by = "hand" => loads'[k].fresh
        /\ loads'[k].releases => loads'[k].by = "hand"
        /\ Effective(k)' => loads'[k].query = list'.query
  BY <1>3, <1>5 DEF TableParts, LoadsOfQuery
<1>7. ~(\A k \in Calls : loads'[k] # Null => ~loads'[k].fresh)
  BY <1>2, <1>3
<1>8. \A j, k \in Calls : Effective(j)' /\ Effective(k)' => j = k
  BY <1>5 DEF TableParts, LoadsOfQuery
<1> QED BY <1>3, <1>4, <1>6, <1>7, <1>8 DEF LoadsOfQuery

LEMMA TableRetries ==
  ASSUME TableParts, NEW l \in Calls, Table!Retry(l)
  PROVE  TableParts'
<1> DEFINE error == IF list.kind = "usage" THEN Null ELSE list.error
           started == [list EXCEPT !.loading = TRUE, !.error = error]
           moves == started.moves + 1
           new == [query |-> list.query, by |-> "hand", fresh |-> TRUE, releases |-> FALSE]
<1>1. /\ loads[l] = Null /\ list' = [started EXCEPT !.moves = moves]
      /\ loads' = [loads EXCEPT ![l] = new] /\ UNCHANGED <<stored, tasks>>
  BY DEF Table!Retry, Table!Starting, Table!Begin
<1>2. list \in Table!Screen /\ list.query \in Table!Query /\ error \in Table!Query \union {Null}
      /\ tasks \in [Calls -> Table!Task \union {Null}]
      /\ stored \in [TableRows -> Table!Statuses \union {Null}]
  BY TableFacts DEF TableParts, TableTyped
<1> HIDE DEF error
<1>3. /\ started \in Table!Screen /\ started.query = list.query /\ started.menu = list.menu
      /\ started.data = list.data /\ started.dialog = list.dialog /\ started.busy = list.busy
      /\ started.crashed = list.crashed /\ started.shrunk = list.shrunk
      /\ started.dismissed = list.dismissed /\ started.hasty = list.hasty
      /\ started.moves \in Int
  BY <1>2 DEF Table!Screen
<1>4. moves \in Int
  BY <1>3
<1> HIDE DEF started, moves
<1>5. /\ list' \in Table!Screen /\ list'.query = list.query /\ list'.menu = list.menu
      /\ list'.data = list.data /\ list'.dialog = list.dialog /\ list'.busy = list.busy
      /\ list'.crashed = list.crashed /\ list'.shrunk = list.shrunk
      /\ list'.dismissed = list.dismissed /\ list'.hasty = list.hasty
  BY <1>1, <1>3, <1>4 DEF Table!Screen
<1>6. /\ new \in Table!Load /\ new.query = list.query /\ new.by = "hand" /\ new.fresh = TRUE
      /\ new.releases = FALSE
  BY <1>2 DEF Table!Load
<1> HIDE DEF new
<1>7. /\ loads' \in [Calls -> Table!Load \union {Null}] /\ LoadsOfQuery'
      /\ \A k \in Calls : loads'[k] = IF k = l THEN new ELSE loads[k]
  BY <1>1, <1>5, <1>6, HandLoads
<1>8. TableTyped'
  BY <1>1, <1>2, <1>5, <1>7 DEF TableTyped
<1>9. PagesReached'
  <2>1. \A k \in Calls : loads'[k] # Null =>
          \/ loads'[k].query = list.query
          \/ loads[k] # Null /\ loads'[k].query = loads[k].query
    BY <1>6, <1>7
  <2> QED BY <1>1, <1>5, <2>1 DEF TableParts, PagesReached
<1>10. ActsOnce'
  <2>1. \A k \in Calls : Reloads(k)' => Reloads(k)
    BY <1>6, <1>7 DEF Reloads
  <2>2. \A t \in Calls : Acts(t)' <=> Acts(t)
    BY <1>1 DEF Acts
  <2> QED BY <1>5, <2>1, <2>2 DEF TableParts, ActsOnce
<1>11. DialogsWait'
  BY <1>1, <1>5 DEF TableParts, DialogsWait
<1> QED BY <1>7, <1>8, <1>9, <1>10, <1>11 DEF TableParts

(* A request of the page is begun or ends; the loads go on.                *)
LEMMA TableTalks ==
  ASSUME TableParts, UNCHANGED <<stored, loads>>, list' \in Table!Screen,
         list'.query = list.query, list'.data = list.data, list'.error = list.error,
         list'.by = list.by, list'.shrunk = list.shrunk, list'.hasty = list.hasty,
         tasks' \in [Calls -> Table!Task \union {Null}],
         \A t \in Calls : tasks'[t] # Null =>
           \/ tasks'[t].query = list.query
           \/ tasks[t] # Null /\ tasks'[t].query = tasks[t].query
  PROVE  TableTyped' /\ LoadsOfQuery' /\ PagesReached'
<1>1. TableTyped'
  BY DEF TableParts, TableTyped
<1>2. LoadsOfQuery'
  BY DEF TableParts, LoadsOfQuery, Effective, SaysItsQuery
<1>3. PagesReached'
  BY DEF TableParts, PagesReached
<1> QED BY <1>1, <1>2, <1>3

LEMMA DialogsAre ==
  ASSUME NEW r \in TableRows, NEW kind \in {"action", "plan", "detail"},
         NEW dialog, dialog = Table!DialogOf(r, kind)
  PROVE  dialog \in Table!Dialog /\ dialog.row = r /\ dialog.kind = kind
BY DEF Table!DialogOf, Table!Dialog

LEMMA TasksAre ==
  ASSUME TableParts, NEW r \in TableRows, NEW kind \in {"action", "plan", "detail"},
         NEW task, task = Table!TaskOf(r, kind)
  PROVE  /\ task \in Table!Task /\ task.row = r /\ task.kind = kind /\ task.query = list.query
         /\ task # Null
<1>1. list.query \in Table!Query
  BY TableFacts DEF TableParts
<1>2. task \in Table!Task /\ task.row = r /\ task.kind = kind /\ task.query = list.query
  BY <1>1 DEF Table!TaskOf, Table!Task
<1>3. task # Null
  BY <1>2, TableAssumption
<1> QED BY <1>2, <1>3

LEMMA TableOpens ==
  ASSUME TableParts, NEW r \in TableRows, NEW t \in Calls, Table!OpenDetail(r, t)
  PROVE  TableParts'
<1> DEFINE moves == list.moves + 1
           dialog == Table!DialogOf(r, "detail")
           new == Table!TaskOf(r, "detail")
<1>1. /\ list.dialog = Null /\ "detail" \in list.menu /\ ~list.crashed /\ tasks[t] = Null
      /\ list' = [list EXCEPT !.dialog = dialog, !.moves = moves]
      /\ tasks' = [tasks EXCEPT ![t] = new] /\ UNCHANGED <<stored, loads>>
  BY DEF Table!OpenDetail, Table!AtHand, Table!Can
<1>2. /\ list \in Table!Screen /\ moves \in Int /\ tasks \in [Calls -> Table!Task \union {Null}]
  BY TableFacts DEF TableParts, TableTyped
<1>3. /\ dialog \in Table!Dialog /\ dialog.row = r /\ dialog.kind = "detail"
      /\ new \in Table!Task /\ new.row = r /\ new.kind = "detail" /\ new.query = list.query
      /\ new # Null
  BY DialogsAre, TasksAre
<1> HIDE DEF moves, dialog, new
<1>4. /\ list' \in Table!Screen /\ list'.query = list.query /\ list'.data = list.data
      /\ list'.error = list.error /\ list'.by = list.by /\ list'.shrunk = list.shrunk
      /\ list'.hasty = list.hasty /\ list'.menu = list.menu /\ list'.busy = list.busy
      /\ list'.dismissed = list.dismissed /\ list'.crashed = list.crashed
      /\ list'.dialog = dialog
  BY <1>1, <1>2, <1>3 DEF Table!Screen
<1>5. /\ tasks' \in [Calls -> Table!Task \union {Null}]
      /\ \A u \in Calls : tasks'[u] = IF u = t THEN new ELSE tasks[u]
  BY <1>1, <1>2, <1>3
<1>6. TableTyped' /\ LoadsOfQuery' /\ PagesReached'
  BY <1>1, <1>3, <1>4, <1>5, TableTalks
<1>7. ActsOnce'
  <2>1. \A u \in Calls : Acts(u)' => Acts(u)
    BY <1>3, <1>5 DEF Acts
  <2>2. \A l \in Calls : Reloads(l)' <=> Reloads(l)
    BY <1>1 DEF Reloads
  <2> QED BY <1>4, <2>1, <2>2 DEF TableParts, ActsOnce
<1>8. DialogsWait'
  <2>1. ~list.dismissed => \A u \in Calls : tasks[u] = Null
    BY <1>1 DEF TableParts, DialogsWait
  <2>2. dialog # Null
    BY <1>3, TableAssumption
  <2> QED BY <1>1, <1>3, <1>4, <1>5, <2>1, <2>2 DEF TableParts, DialogsWait
<1> QED BY <1>6, <1>7, <1>8 DEF TableParts

(* A request of the page ends, and does no more than close a dialog.       *)
LEMMA TableHears ==
  ASSUME TableParts, NEW t \in Calls, tasks[t] # Null, tasks' = [tasks EXCEPT ![t] = Null],
         UNCHANGED <<stored, loads>>, list' \in Table!Screen,
         list'.query = list.query, list'.data = list.data, list'.error = list.error,
         list'.by = list.by, list'.shrunk = list.shrunk, list'.hasty = list.hasty,
         list'.menu = list.menu, list'.dismissed = list.dismissed,
         list'.crashed \/ list'.crashed = list.crashed,
         list'.busy = list.busy \/ list'.busy = (list.busy /\ tasks[t].kind # "action"),
         list'.dialog # Null => list.dialog # Null /\ list'.dialog.kind = list.dialog.kind
  PROVE  TableParts'
<1>1. /\ tasks \in [Calls -> Table!Task \union {Null}]
  BY DEF TableParts, TableTyped
<1>2. /\ tasks' \in [Calls -> Table!Task \union {Null}]
      /\ \A u \in Calls : tasks'[u] # Null => u # t /\ tasks'[u] = tasks[u] /\ tasks[u] # Null
  BY <1>1
<1>3. TableTyped' /\ LoadsOfQuery' /\ PagesReached'
  BY <1>2, TableTalks
<1>4. ActsOnce'
  <2>1. \A u \in Calls : Acts(u)' => Acts(u) /\ u # t
    BY <1>2 DEF Acts
  <2>2. \A l \in Calls : Reloads(l)' <=> Reloads(l)
    BY DEF Reloads
  <2>3. tasks[t].kind = "action" => Acts(t)
    BY DEF Acts
  <2> QED BY <2>1, <2>2, <2>3 DEF TableParts, ActsOnce
<1>5. DialogsWait'
  <2>1. ~list.dismissed /\ ~list'.crashed => \A u \in Calls : tasks'[u] = Null
    BY <1>2 DEF TableParts, DialogsWait
  <2> QED BY <2>1 DEF TableParts, DialogsWait
<1> QED BY <1>3, <1>4, <1>5 DEF TableParts

LEMMA TableDetails ==
  ASSUME TableParts, NEW t \in Calls, Table!DetailArrives(t) \/ Table!DetailFails(t)
  PROVE  TableParts'
<1>1. list \in Table!Screen
  BY TableFacts DEF TableParts
<1>2. CASE Table!DetailArrives(t)
  <2>1. /\ tasks[t] # Null /\ list' = [list EXCEPT !.crashed = TRUE, !.dialog = Null]
        /\ tasks' = [tasks EXCEPT ![t] = Null] /\ UNCHANGED <<stored, loads>>
    BY <1>2 DEF Table!DetailArrives
  <2>2. /\ list' \in Table!Screen /\ list'.query = list.query /\ list'.data = list.data
        /\ list'.error = list.error /\ list'.by = list.by /\ list'.shrunk = list.shrunk
        /\ list'.hasty = list.hasty /\ list'.menu = list.menu /\ list'.busy = list.busy
        /\ list'.dismissed = list.dismissed /\ list'.crashed /\ list'.dialog = Null
    BY <1>1, <2>1 DEF Table!Screen
  <2> QED BY <2>1, <2>2, TableHears
<1>3. CASE Table!DetailFails(t)
  BY <1>1, <1>3, TableHears DEF Table!DetailFails
<1> QED BY <1>2, <1>3

LEMMA TableRefuses ==
  ASSUME TableParts, NEW t \in Calls, Table!TaskRefused(t)
  PROVE  TableParts'
<1> DEFINE task == Null
           freed == [list.dialog EXCEPT !.task = task]
           dialog == IF list.dialog # Null /\ list.dialog.task = t THEN freed ELSE list.dialog
           busy == list.busy /\ tasks[t].kind # "action"
<1>1. /\ tasks[t] # Null /\ list' = [list EXCEPT !.busy = busy, !.dialog = dialog]
      /\ tasks' = [tasks EXCEPT ![t] = Null] /\ UNCHANGED <<stored, loads>>
  BY DEF Table!TaskRefused
<1>2. list \in Table!Screen /\ list.dialog \in Table!Dialog \union {Null} /\ busy \in BOOLEAN
  BY TableFacts DEF TableParts
<1>3. /\ dialog \in Table!Dialog \union {Null}
      /\ dialog # Null => list.dialog # Null /\ dialog.kind = list.dialog.kind
  <2>1. CASE list.dialog # Null /\ list.dialog.task = t
    <3>1. freed \in Table!Dialog /\ freed.kind = list.dialog.kind
      BY <1>2, <2>1 DEF Table!Dialog
    <3> QED BY <2>1, <3>1
  <2>2. CASE ~(list.dialog # Null /\ list.dialog.task = t)
    BY <1>2, <2>2
  <2> QED BY <2>1, <2>2
<1> HIDE DEF dialog, busy
<1>4. /\ list' \in Table!Screen /\ list'.query = list.query /\ list'.data = list.data
      /\ list'.error = list.error /\ list'.by = list.by /\ list'.shrunk = list.shrunk
      /\ list'.hasty = list.hasty /\ list'.menu = list.menu /\ list'.busy = busy
      /\ list'.dismissed = list.dismissed /\ list'.crashed = list.crashed
      /\ list'.dialog = dialog
  BY <1>1, <1>2, <1>3 DEF Table!Screen
<1> QED BY <1>1, <1>3, <1>4, TableHears DEF busy

(* A dialog is opened, or left.                                            *)
LEMMA TableLeaves ==
  ASSUME TableParts, Table!CloseDialog
  PROVE  TableParts'
<1> DEFINE dismissed == list.dismissed \/ \E t \in Calls : tasks[t] # Null
<1>1. /\ list' = [list EXCEPT !.dialog = Null, !.dismissed = dismissed]
      /\ UNCHANGED <<stored, loads, tasks>>
  BY DEF Table!CloseDialog
<1>2. list \in Table!Screen /\ dismissed \in BOOLEAN /\ tasks \in [Calls -> Table!Task \union {Null}]
  BY TableFacts DEF TableParts, TableTyped
<1>3. ~dismissed => \A t \in Calls : tasks[t] = Null
  OBVIOUS
<1> HIDE DEF dismissed
<1>4. /\ list' \in Table!Screen /\ list'.query = list.query /\ list'.data = list.data
      /\ list'.error = list.error /\ list'.by = list.by /\ list'.shrunk = list.shrunk
      /\ list'.hasty = list.hasty /\ list'.menu = list.menu /\ list'.busy = list.busy
      /\ list'.dismissed = dismissed /\ list'.crashed = list.crashed /\ list'.dialog = Null
  BY <1>1, <1>2 DEF Table!Screen
<1>5. TableTyped' /\ LoadsOfQuery' /\ PagesReached'
  BY <1>1, <1>2, <1>4, TableTalks
<1>6. ActsOnce'
  BY <1>1, <1>4 DEF TableParts, ActsOnce, Acts, Reloads
<1>7. DialogsWait'
  BY <1>1, <1>3, <1>4 DEF TableParts, DialogsWait
<1> QED BY <1>5, <1>6, <1>7 DEF TableParts

LEMMA TableAsks ==
  ASSUME TableParts, NEW r \in TableRows, NEW kind \in {"action", "plan"}, Table!OpenDialog(r, kind)
  PROVE  TableParts'
<1> DEFINE moves == list.moves + 1
           dialog == Table!DialogOf(r, kind)
<1>1. /\ list.dialog = Null /\ ~list.crashed
      /\ list' = [list EXCEPT !.dialog = dialog, !.moves = moves]
      /\ UNCHANGED <<stored, loads, tasks>>
  BY DEF Table!OpenDialog, Table!AtHand, Table!Can
<1>2. list \in Table!Screen /\ moves \in Int /\ tasks \in [Calls -> Table!Task \union {Null}]
  BY TableFacts DEF TableParts, TableTyped
<1>3. dialog \in Table!Dialog /\ dialog.kind = kind /\ kind # "detail"
  BY DialogsAre
<1> HIDE DEF moves, dialog
<1>4. /\ list' \in Table!Screen /\ list'.query = list.query /\ list'.data = list.data
      /\ list'.error = list.error /\ list'.by = list.by /\ list'.shrunk = list.shrunk
      /\ list'.hasty = list.hasty /\ list'.menu = list.menu /\ list'.busy = list.busy
      /\ list'.dismissed = list.dismissed /\ list'.crashed = list.crashed
      /\ list'.dialog = dialog
  BY <1>1, <1>2, <1>3 DEF Table!Screen
<1>5. TableTyped' /\ LoadsOfQuery' /\ PagesReached'
  BY <1>1, <1>2, <1>4, TableTalks
<1>6. ActsOnce'
  BY <1>1, <1>4 DEF TableParts, ActsOnce, Acts, Reloads
<1>7. DialogsWait'
  <2>1. ~list.dismissed => \A u \in Calls : tasks[u] = Null
    BY <1>1 DEF TableParts, DialogsWait
  <2> QED BY <1>1, <1>3, <1>4, <2>1 DEF TableParts, DialogsWait
<1> QED BY <1>5, <1>6, <1>7 DEF TableParts

(* An action is confirmed once: it and the reload it awaits hold `busy';   *)
(* an override is, because its dialog waits.                               *)
LEMMA TableConfirms ==
  ASSUME TableParts, NEW t \in Calls, Table!Confirm(t)
  PROVE  TableParts'
<1> DEFINE kind == list.dialog.kind
           busy == list.busy \/ kind = "action"
           dialog == [list.dialog EXCEPT !.task = t]
           new == Table!TaskOf(list.dialog.row, kind)
<1>1. /\ "act" \in list.menu /\ list.dialog # Null /\ tasks[t] = Null
      /\ kind = "action" => ~list.busy
      /\ kind # "action" => list.dialog.task = Null
      /\ UNCHANGED <<stored, loads>>
  BY DEF Table!Confirm, Table!Can
<1>2. list' = [list EXCEPT !.busy = busy, !.dialog.task = t] /\ tasks' = [tasks EXCEPT ![t] = new]
  BY DEF Table!Confirm
<1>3. /\ list \in Table!Screen /\ list.dialog \in Table!Dialog /\ busy \in BOOLEAN
      /\ tasks \in [Calls -> Table!Task \union {Null}]
  BY <1>1, TableFacts DEF TableParts, TableTyped
<1>4. list' = [list EXCEPT !.busy = busy, !.dialog = dialog]
  BY <1>2, <1>3 DEF Table!Screen
<1>5. kind \in {"action", "plan"} /\ list.dialog.row \in TableRows
  <2>1. kind # "detail"
    BY <1>1 DEF TableParts, DialogsWait
  <2> QED BY <1>3, <2>1 DEF Table!Dialog
<1>6. /\ dialog \in Table!Dialog /\ dialog.row = list.dialog.row /\ dialog.kind = kind
      /\ dialog.task = t
  BY <1>3 DEF Table!Dialog
<1>7. /\ new \in Table!Task /\ new.row = list.dialog.row /\ new.kind = kind
      /\ new.query = list.query /\ new # Null
  BY <1>5, TasksAre
<1>8. dialog # Null
  BY <1>6, TableAssumption
<1> HIDE DEF dialog, new
<1>9. /\ list' \in Table!Screen /\ list'.query = list.query /\ list'.data = list.data
      /\ list'.error = list.error /\ list'.by = list.by /\ list'.shrunk = list.shrunk
      /\ list'.hasty = list.hasty /\ list'.menu = list.menu /\ list'.busy = busy
      /\ list'.dismissed = list.dismissed /\ list'.crashed = list.crashed
      /\ list'.dialog = dialog
  BY <1>3, <1>4, <1>6 DEF Table!Screen
<1>10. /\ tasks' \in [Calls -> Table!Task \union {Null}]
       /\ \A u \in Calls : tasks'[u] = IF u = t THEN new ELSE tasks[u]
  BY <1>2, <1>3, <1>7
<1>11. TableTyped' /\ LoadsOfQuery' /\ PagesReached'
  BY <1>1, <1>7, <1>9, <1>10, TableTalks
<1>12. ActsOnce'
  <2>1. \A l \in Calls : Reloads(l)' <=> Reloads(l)
    BY <1>1 DEF Reloads
  <2>2. CASE kind = "action"
    <3>1. (\A u \in Calls : ~Acts(u)) /\ (\A l \in Calls : ~Reloads(l))
      BY <1>1, <2>2 DEF TableParts, ActsOnce
    <3>2. \A u \in Calls : Acts(u)' => u = t
      BY <1>10, <3>1 DEF Acts
    <3> QED BY <1>9, <2>1, <2>2, <3>1, <3>2 DEF ActsOnce
  <2>3. CASE kind # "action"
    <3>1. \A u \in Calls : Acts(u)' => Acts(u)
      BY <1>7, <1>10, <2>3 DEF Acts
    <3> QED BY <1>9, <2>1, <3>1 DEF TableParts, ActsOnce
  <2> QED BY <2>2, <2>3
<1>13. DialogsWait'
  <2>1. ASSUME ~list.dismissed, ~list.crashed, NEW u \in Calls
        PROVE  tasks[u] = Null
    <3> SUFFICES ASSUME tasks[u] # Null
                 PROVE  FALSE
      OBVIOUS
    <3>1. /\ kind = tasks[u].kind
          /\ kind = "plan" => list.dialog.task = u
      BY <2>1 DEF TableParts, DialogsWait
    <3>2. CASE kind = "action"
      BY <1>1, <3>1, <3>2 DEF TableParts, ActsOnce, Acts
    <3>3. CASE kind = "plan"
      BY <1>1, <3>1, <3>3, TableAssumption
    <3> QED BY <1>5, <3>2, <3>3
  <2>2. ~list.dismissed /\ ~list.crashed => \A u \in Calls : tasks'[u] # Null => u = t
    BY <1>10, <2>1
  <2>3. tasks'[t] = new
    BY <1>10
  <2> QED BY <1>1, <1>5, <1>6, <1>7, <1>8, <1>9, <2>2, <2>3 DEF TableParts, DialogsWait
<1> QED BY <1>11, <1>12, <1>13 DEF TableParts

(* The server serves a request: the row of an action flips.                *)
LEMMA TableServes ==
  ASSUME TableParts, NEW t \in Calls, Table!TaskServed(t)
  PROVE  TableParts'
<1> DEFINE act == tasks[t].kind = "action"
           shrunk == list.shrunk \/ act
           served == [tasks[t] EXCEPT !.done = TRUE]
<1>1. /\ tasks[t] # Null /\ list' = [list EXCEPT !.shrunk = shrunk] /\ loads' = loads
      /\ tasks' = [tasks EXCEPT ![t] = served]
  BY DEF Table!TaskServed
<1>2. /\ list \in Table!Screen /\ shrunk \in BOOLEAN /\ list.shrunk \in BOOLEAN
      /\ tasks \in [Calls -> Table!Task \union {Null}] /\ tasks[t] \in Table!Task
      /\ loads \in [Calls -> Table!Load \union {Null}]
      /\ stored \in [TableRows -> Table!Statuses \union {Null}] /\ tasks[t].row \in TableRows
  BY <1>1, TableFacts DEF TableParts, TableTyped, Table!Task
<1>3. stored' \in [TableRows -> Table!Statuses \union {Null}] /\ (~act => stored' = stored)
  <2>1. CASE act
    <3> DEFINE status == Table!Other(stored[tasks[t].row])
    <3>1. stored' = [stored EXCEPT ![tasks[t].row] = status]
      BY <2>1 DEF Table!TaskServed
    <3>2. status \in Table!Statuses
      BY DEF Table!Other, Table!Statuses
    <3> QED BY <1>2, <2>1, <3>1, <3>2
  <2>2. CASE ~act
    BY <1>2, <2>2 DEF Table!TaskServed
  <2> QED BY <2>1, <2>2
<1>4. /\ served \in Table!Task /\ served.row = tasks[t].row /\ served.kind = tasks[t].kind
      /\ served.query = tasks[t].query
  BY <1>2 DEF Table!Task
<1>5. served # Null
  BY <1>4, TableAssumption
<1>6. ~shrunk => ~list.shrunk /\ ~act
  OBVIOUS
<1> HIDE DEF served, shrunk, act
<1>7. /\ list' \in Table!Screen /\ list'.query = list.query /\ list'.menu = list.menu
      /\ list'.data = list.data /\ list'.dialog = list.dialog /\ list'.busy = list.busy
      /\ list'.crashed = list.crashed /\ list'.shrunk = shrunk /\ list'.by = list.by
      /\ list'.dismissed = list.dismissed /\ list'.hasty = list.hasty /\ list'.error = list.error
  BY <1>1, <1>2 DEF Table!Screen
<1>8. /\ tasks' \in [Calls -> Table!Task \union {Null}]
      /\ \A u \in Calls : /\ tasks'[u] # Null <=> tasks[u] # Null
                          /\ tasks[u] # Null => /\ tasks'[u].row = tasks[u].row
                                                /\ tasks'[u].kind = tasks[u].kind
                                                /\ tasks'[u].query = tasks[u].query
  BY <1>1, <1>2, <1>4, <1>5
<1>9. TableTyped'
  BY <1>1, <1>2, <1>3, <1>7, <1>8 DEF TableTyped
<1>10. LoadsOfQuery'
  BY <1>1, <1>7 DEF TableParts, LoadsOfQuery, Effective, SaysItsQuery
<1>11. PagesReached'
  <2> SUFFICES ASSUME ~shrunk
               PROVE  PagesReached'
    BY <1>7 DEF PagesReached
  <2>1. ~list.shrunk /\ stored' = stored
    BY <1>3, <1>6
  <2> QED BY <1>1, <1>7, <1>8, <2>1 DEF TableParts, PagesReached
<1>12. ActsOnce'
  <2>1. \A u \in Calls : Acts(u)' <=> Acts(u)
    BY <1>8 DEF Acts
  <2>2. \A l \in Calls : Reloads(l)' <=> Reloads(l)
    BY <1>1 DEF Reloads
  <2> QED BY <1>7, <2>1, <2>2 DEF TableParts, ActsOnce
<1>13. DialogsWait'
  BY <1>7, <1>8 DEF TableParts, DialogsWait
<1> QED BY <1>9, <1>10, <1>11, <1>12, <1>13 DEF TableParts

LEMMA TableTasksEnd ==
  ASSUME TableParts, NEW t \in Calls, NEW l \in Calls, Table!TaskDone(t, l)
  PROVE  TableParts'
<1> DEFINE act == tasks[t].kind = "action"
           error == IF list.kind = "usage" THEN Null ELSE list.error
           started == [list EXCEPT !.loading = TRUE, !.error = error]
           dialog == IF started.dialog # Null /\ started.dialog.kind = tasks[t].kind
                       THEN Null ELSE started.dialog
           new == [query |-> tasks[t].query, by |-> "hand", fresh |-> TRUE, releases |-> act]
<1>1. /\ tasks[t] # Null /\ loads[l] = Null
      /\ loads' = [loads EXCEPT ![l] = new] /\ tasks' = [tasks EXCEPT ![t] = Null]
  BY DEF Table!TaskDone, Table!Begin
<1>2. list' = [started EXCEPT !.dialog = dialog] /\ stored' = stored
  BY DEF Table!TaskDone, Table!Starting
<1>3. /\ list \in Table!Screen /\ error \in Table!Query \union {Null}
      /\ tasks \in [Calls -> Table!Task \union {Null}] /\ tasks[t] \in Table!Task
      /\ stored \in [TableRows -> Table!Statuses \union {Null}] /\ act \in BOOLEAN
      /\ tasks[t].query \in Table!Query
  BY <1>1, TableFacts DEF TableParts, TableTyped, Table!Task
<1> HIDE DEF error
<1>5. /\ started \in Table!Screen /\ started.query = list.query /\ started.menu = list.menu
      /\ started.data = list.data /\ started.dialog = list.dialog /\ started.busy = list.busy
      /\ started.crashed = list.crashed /\ started.shrunk = list.shrunk
      /\ started.dismissed = list.dismissed /\ started.hasty = list.hasty
      /\ started.dialog \in Table!Dialog \union {Null}
  BY <1>3 DEF Table!Screen
<1>6. dialog \in Table!Dialog \union {Null} /\ (dialog # Null => dialog = list.dialog)
  BY <1>5
<1> HIDE DEF started, dialog
<1>7. /\ list' \in Table!Screen /\ list'.query = list.query /\ list'.menu = list.menu
      /\ list'.data = list.data /\ list'.dialog = dialog /\ list'.busy = list.busy
      /\ list'.crashed = list.crashed /\ list'.shrunk = list.shrunk
      /\ list'.dismissed = list.dismissed /\ list'.hasty = list.hasty
  BY <1>2, <1>5, <1>6 DEF Table!Screen
<1>8. /\ new \in Table!Load /\ new.query = tasks[t].query /\ new.by = "hand" /\ new.fresh = TRUE
      /\ new.releases = act
  BY <1>3 DEF Table!Load
<1> HIDE DEF new, act
<1>9. /\ loads' \in [Calls -> Table!Load \union {Null}] /\ LoadsOfQuery'
      /\ \A k \in Calls : loads'[k] = IF k = l THEN new ELSE loads[k]
  BY <1>1, <1>7, <1>8, HandLoads
<1>10. /\ tasks' \in [Calls -> Table!Task \union {Null}]
       /\ \A u \in Calls : tasks'[u] # Null => u # t /\ tasks'[u] = tasks[u] /\ tasks[u] # Null
  BY <1>1, <1>3
<1>11. TableTyped'
  BY <1>2, <1>3, <1>7, <1>9, <1>10 DEF TableTyped
<1>12. PagesReached'
  <2>1. \A k \in Calls : loads'[k] # Null =>
          \/ loads'[k].query = tasks[t].query
          \/ loads[k] # Null /\ loads'[k].query = loads[k].query
    BY <1>8, <1>9
  <2> QED BY <1>1, <1>2, <1>7, <1>10, <2>1 DEF TableParts, PagesReached
<1>13. ActsOnce'
  <2>1. \A u \in Calls : Acts(u)' => Acts(u) /\ u # t
    BY <1>10 DEF Acts
  <2>2. act => Acts(t)
    BY <1>1 DEF Acts, act
  <2>3. \A k \in Calls : Reloads(k)' => Reloads(k) \/ (k = l /\ act)
    BY <1>8, <1>9 DEF Reloads
  <2> QED BY <1>7, <2>1, <2>2, <2>3 DEF TableParts, ActsOnce
<1>14. DialogsWait'
  <2>1. ~list.dismissed /\ ~list.crashed => \A u \in Calls : tasks'[u] = Null
    BY <1>1, <1>10 DEF TableParts, DialogsWait
  <2> QED BY <1>6, <1>7, <2>1 DEF TableParts, DialogsWait
<1> QED BY <1>9, <1>11, <1>12, <1>13, <1>14 DEF TableParts

(* Another operator: rows are added, or may have left a filter.            *)
LEMMA TableGrows ==
  ASSUME TableParts, NEW r \in TableRows, Table!Elsewhere(r)
  PROVE  TableParts'
<1> DEFINE moves == list.moves + 1
           shrunk == list.shrunk \/ stored[r] # Null
           status == IF stored[r] = Null THEN "on" ELSE Table!Other(stored[r])
<1>1. /\ list' = [list EXCEPT !.moves = moves, !.shrunk = shrunk]
      /\ stored' = [stored EXCEPT ![r] = status] /\ UNCHANGED <<loads, tasks>>
  BY DEF Table!Elsewhere
<1>2. /\ list \in Table!Screen /\ moves \in Int /\ shrunk \in BOOLEAN
      /\ stored \in [TableRows -> Table!Statuses \union {Null}]
      /\ loads \in [Calls -> Table!Load \union {Null}] /\ tasks \in [Calls -> Table!Task \union {Null}]
  BY TableFacts DEF TableParts, TableTyped
<1>3. status \in Table!Statuses
  BY DEF Table!Other, Table!Statuses
<1> HIDE DEF moves, status
<1>4. stored' \in [TableRows -> Table!Statuses \union {Null}]
  BY <1>1, <1>2, <1>3
<1>5. ~shrunk => ~list.shrunk /\ \A s \in TableRows : stored[s] # Null => stored'[s] = stored[s]
  BY <1>1, <1>2
<1> HIDE DEF shrunk
<1>6. /\ list' \in Table!Screen /\ list'.query = list.query /\ list'.menu = list.menu
      /\ list'.data = list.data /\ list'.dialog = list.dialog /\ list'.busy = list.busy
      /\ list'.crashed = list.crashed /\ list'.shrunk = shrunk /\ list'.by = list.by
      /\ list'.dismissed = list.dismissed /\ list'.hasty = list.hasty /\ list'.error = list.error
  BY <1>1, <1>2 DEF Table!Screen
<1>7. TableTyped'
  BY <1>1, <1>2, <1>4, <1>6 DEF TableTyped
<1>8. LoadsOfQuery'
  BY <1>1, <1>6 DEF TableParts, LoadsOfQuery, Effective, SaysItsQuery
<1>9. PagesReached'
  <2> SUFFICES ASSUME ~shrunk
               PROVE  PagesReached'
    BY <1>6 DEF PagesReached
  <2> DEFINE rt == stored'
  <2>1. \A s \in TableRows : stored[s] # Null => rt[s] = stored[s]
    BY <1>5
  <2> HIDE DEF rt
  <2>2. \A q \in Table!Query : /\ Cardinality(Fits(stored, q)) <= Cardinality(Fits(rt, q))
                               /\ Reaches(stored, q) => Reaches(rt, q)
    BY <2>1, FitsGrow
  <2>3. /\ list.query \in Table!Query /\ list.data.query \in Table!Query /\ list.data.total \in Nat
        /\ \A l \in Calls : loads[l] # Null => loads[l].query \in Table!Query
        /\ \A t \in Calls : tasks[t] # Null => tasks[t].query \in Table!Query
    BY TableFacts DEF TableParts, Table!Load, Table!Task
  <2>4. list.data.total <= Cardinality(Fits(rt, list.data.query))
    <3>1. /\ Cardinality(Fits(stored, list.data.query)) \in Nat
          /\ Cardinality(Fits(rt, list.data.query)) \in Nat
      BY FitsAre
    <3>2. list.data.total <= Cardinality(Fits(stored, list.data.query))
      BY <1>5 DEF TableParts, PagesReached
    <3>3. Cardinality(Fits(stored, list.data.query)) <= Cardinality(Fits(rt, list.data.query))
      BY <2>2, <2>3
    <3> QED BY <2>3, <3>1, <3>2, <3>3
  <2>5. ~list.hasty =>
          /\ list.data.rows = {} => list.data.total = 0
          /\ Reaches(rt, list.query)
          /\ \A l \in Calls : loads[l] # Null => Reaches(rt, loads[l].query)
          /\ \A t \in Calls : tasks[t] # Null => Reaches(rt, tasks[t].query)
    BY <1>5, <2>2, <2>3 DEF TableParts, PagesReached
  <2> QED BY <1>1, <1>6, <2>4, <2>5 DEF PagesReached, rt
<1>10. ActsOnce' /\ DialogsWait'
  BY <1>1, <1>6 DEF TableParts, ActsOnce, Acts, Reloads, DialogsWait
<1> QED BY <1>7, <1>8, <1>9, <1>10 DEF TableParts

LEMMA TableSteps ==
  ASSUME TableParts, Table!TablesNext
  PROVE  TableParts'
<1>1. ASSUME NEW l \in Calls, \/ Table!LoadAborted(l) \/ Table!LoadAnswers(l)
                              \/ Table!LoadFails(l) \/ Table!Retry(l)
      PROVE  TableParts'
  BY <1>1, TableAborts, TableAnswers, TableFails, TableRetries
<1>2. ASSUME \E value \in {"any", "on"} : Table!Patch(value)
      PROVE  TableParts'
  BY <1>2, TablePatches
<1>3. ASSUME Table!DebounceFires \/ Table!ToggleSort \/ Table!Reset
      PROVE  TableParts'
  BY <1>3, TableDebounces, TableSorts, TableResets
<1>4. ASSUME \E step \in {-1, 1} : Table!Turn(step)
      PROVE  TableParts'
  BY <1>4, TableTurns
<1>5. ASSUME NEW t \in Calls, \/ Table!DetailArrives(t) \/ Table!DetailFails(t)
                              \/ Table!Confirm(t) \/ Table!TaskServed(t) \/ Table!TaskRefused(t)
      PROVE  TableParts'
  BY <1>5, TableDetails, TableConfirms, TableServes, TableRefuses
<1>6. ASSUME NEW r \in TableRows, \/ \E t \in Calls : Table!OpenDetail(r, t)
                                  \/ \E kind \in {"action", "plan"} : Table!OpenDialog(r, kind)
      PROVE  TableParts'
  BY <1>6, TableOpens, TableAsks
<1>7. ASSUME Table!CloseDialog \/ \E t \in Calls, l \in Calls : Table!TaskDone(t, l)
      PROVE  TableParts'
  BY <1>7, TableLeaves, TableTasksEnd
<1>8. ASSUME NEW r \in TableRows, Table!Elsewhere(r) \/ Table!Expand(r)
      PROVE  TableParts'
  BY <1>8, TableGrows, TableTypes
<1>9. ASSUME Table!TypeSearch
      PROVE  TableParts'
  BY <1>9, TableTypes
<1> QED BY <1>1, <1>2, <1>3, <1>4, <1>5, <1>6, <1>7, <1>8, <1>9 DEF Table!TablesNext

LEMMA TableStarts ==
  ASSUME Table!TablesInit
  PROVE  TableParts
<1>1. PICK o \in Openings :
        /\ stored = o.rows
        /\ loads = [l \in Calls |-> Null]
        /\ tasks = [t \in Calls |-> Null]
        /\ list = [kind |-> o.kind, menu |-> o.menu, query |-> Table!First, draft |-> FALSE,
                   data |-> Table!Served(Table!First), error |-> Null, loading |-> FALSE,
                   by |-> "effect", dialog |-> Null, expanded |-> Null, busy |-> FALSE,
                   crashed |-> FALSE, moves |-> 0, hasty |-> FALSE, shrunk |-> FALSE,
                   dismissed |-> FALSE]
  BY DEF Table!TablesInit
<1>2. /\ o.rows \in [TableRows -> Table!Statuses \union {Null}] /\ o.menu \in SUBSET STRING
      /\ o.kind \in {"usage", "users", "audit"} /\ ~({"act", "detail"} \subseteq o.menu)
  BY TableAssumption
<1> DEFINE first == Table!First
           data == Table!Served(first)
           z == 0
           rows0 == o.rows
           menu0 == o.menu
           kind0 == o.kind
<1>3. first \in Table!Query /\ first.page = 1
  BY DEF Table!First, Table!Query
<1>4. z \in Int
  OBVIOUS
<1>5. /\ data \in Table!Answer /\ data.query = first
      /\ data.total = Cardinality(Fits(stored, first))
      /\ Reaches(stored, first) /\ data.rows = {} => data.total = 0
  <2> HIDE DEF first
  <2> QED BY <1>3, ServedIs
<1>6. /\ list = [kind |-> kind0, menu |-> menu0, query |-> first, draft |-> FALSE,
                 data |-> data, error |-> Null, loading |-> FALSE,
                 by |-> "effect", dialog |-> Null, expanded |-> Null, busy |-> FALSE,
                 crashed |-> FALSE, moves |-> z, hasty |-> FALSE, shrunk |-> FALSE,
                 dismissed |-> FALSE]
      /\ stored = rows0
  BY <1>1
<1>7. /\ rows0 \in [TableRows -> Table!Statuses \union {Null}] /\ menu0 \in SUBSET STRING
      /\ kind0 \in {"usage", "users", "audit"} /\ ~({"act", "detail"} \subseteq menu0)
  BY <1>2
<1> HIDE DEF data, first, z, rows0, menu0, kind0
<1>8. /\ list \in Table!Screen /\ list.query = first /\ list.data = data /\ list.error = Null
      /\ list.menu = menu0 /\ list.dialog = Null /\ ~list.busy /\ ~list.hasty
  BY <1>3, <1>4, <1>5, <1>6, <1>7 DEF Table!Screen
<1>9. (\A l \in Calls : loads[l] = Null) /\ (\A t \in Calls : tasks[t] = Null)
  BY <1>1
<1>10. TableTyped
  BY <1>1, <1>6, <1>7, <1>8 DEF TableTyped
<1>11. LoadsOfQuery
  BY <1>5, <1>8, <1>9 DEF LoadsOfQuery, Effective, SaysItsQuery
<1>12. PagesReached
  <2>1. Reaches(stored, first)
    BY <1>3 DEF Reaches
  <2>2. Cardinality(Fits(stored, first)) <= Cardinality(Fits(stored, first))
    <3>1. Cardinality(Fits(stored, first)) \in Nat
      BY FitsAre
    <3> QED BY <3>1
  <2> QED BY <1>5, <1>8, <1>9, <2>1, <2>2 DEF PagesReached
<1>13. ActsOnce /\ DialogsWait
  BY <1>7, <1>8, <1>9 DEF ActsOnce, Acts, Reloads, DialogsWait
<1> QED BY <1>10, <1>11, <1>12, <1>13 DEF TableParts

(* The invariant holds of every behaviour.                                 *)
THEOREM TableInvariance == Spec => []TableInv
<1>1. Init => TableInv
  BY TableStarts DEF Init, TableInv
<1>2. TableInv /\ [Next]_vars => TableInv'
  <2> SUFFICES ASSUME TableInv, [Next]_vars, part' = "tables"
               PROVE  TableParts'
    BY DEF TableInv
  <2>1. part = "tables" /\ TableParts
    BY DEF TableInv, Next, vars
  <2>2. CASE Table!TablesNext
    BY <2>1, <2>2, TableSteps
  <2>3. CASE UNCHANGED tablesOnly
    <3>1. stored' = stored /\ list' = list /\ loads' = loads /\ tasks' = tasks
      BY <2>3 DEF tablesOnly
    <3>2. TableTyped' /\ LoadsOfQuery'
      BY <2>1, <3>1 DEF TableParts, TableTyped, LoadsOfQuery, Effective, SaysItsQuery
    <3>3. PagesReached'
      BY <2>1, <3>1 DEF TableParts, PagesReached
    <3>4. ActsOnce' /\ DialogsWait'
      BY <2>1, <3>1 DEF TableParts, ActsOnce, Acts, Reloads, DialogsWait
    <3> QED BY <3>2, <3>3, <3>4 DEF TableParts
  <2> QED BY <2>1, <2>2, <2>3 DEF Next, vars
<1> QED BY <1>1, <1>2, PTL DEF Spec

(* What a table shows answers what its controls say, for any rows, any     *)
(* controls and any number of loads under way: see ShowsItsQuery and       *)
(* EmptyMeansNoMatch of Tables.                                            *)
THEOREM TablesAnswerTheirControls ==
  Spec => [](part = "tables" => Table!TablesTellTheTruth)
<1>1. ASSUME TableParts
      PROVE  Table!TablesTellTheTruth
  <2>1. Table!ShowsItsQuery
    <3> SUFFICES ASSUME Table!Quiet, list.by = "effect"
                 PROVE  SaysItsQuery
      BY DEF Table!ShowsItsQuery, SaysItsQuery
    <3>1. \A l \in Calls : loads[l] = Null
      BY DEF Table!Quiet, Table!UnderWay, Table!InFlight
    <3> QED BY <1>1, <3>1 DEF TableParts, LoadsOfQuery
  <2>2. Table!EmptyMeansNoMatch
    <3>1. Table!Body = "empty" => list.data.rows = {}
      BY DEF Table!Body
    <3> QED BY <1>1, <3>1 DEF TableParts, PagesReached, Table!EmptyMeansNoMatch
  <2> QED BY <2>1, <2>2 DEF Table!TablesTellTheTruth
<1>2. TableInv => (part = "tables" => Table!TablesTellTheTruth)
  BY <1>1 DEF TableInv
<1> QED BY <1>2, TableInvariance, PTL

-----------------------------------------------------------------------------
(* The inductive invariant of the console.                                 *)

PageTyped == page \in [Tabs -> Page]

(* Where a request of each operation may stand.                            *)
Stands(at, op) ==
  /\ at \in {"next", "scan"} => op \in {"sync", "syncOne", "register"}
  /\ at = "save" => op = "update"
  /\ at \in {"referenced", "remove"} => op = "delete"
  /\ at = "unremove" => op = "restore"
  /\ at = "register" => op = "register"
  /\ at = "providers" => op \in {"syncOne", "register", "toggle", "unregister"}
  /\ at = "toggle" => op = "toggle"
  /\ at \in {"count", "unregister"} => op = "unregister"

(* Where a request has not written a model yet.                            *)
Early == {"idle", "chain", "probe", "lift", "save", "referenced", "remove", "unremove",
          "register", "toggle", "count", "unregister"}

Stage(r) ==
  /\ r.at # "idle" => r.op \in menu /\ ("visit" \in menu \/ r.tab \in Tabs)
  /\ Stands(r.at, r.op)
  /\ r.at = "answer" => r.rows # Null /\ r.gone # Null
  /\ r.wrote => r.at \notin Early /\ r.op \notin {"toggle", "unregister"}

(* A save of the editor of t that has not ended.                           *)
Drafts(r, t) == r.at # "idle" /\ r.tab = t /\ r.op = "update" /\ r.chain # Untouched

DraftsWait ==
  \A t \in Tabs : ~page[t].dismissed =>
    \A c \in Calls : Drafts(call[c], t) => call[c].id = page[t].editing /\ call[c].id # 0

(* What a request has read when nobody else writes, and what it adds.      *)
Current(r) ==
  /\ r.at \in {"list", "answer"} /\ r.rows # Null => r.rows = catalogue
  /\ r.at \in {"list", "answer"} /\ r.gone # Null => r.gone = removed
  /\ r.at \in {"chain", "probe", "lift", "insert"} /\ r.op = "create" => ~Exists(r.model)

ModelsOnly == menu \intersect {"visit", "syncOne", "register"} = {}

(* From its first write to its answer, a request leaves the page behind; a *)
(* save leaves the removed list alone.                                     *)
ShowsStored ==
  /\ \A c \in Calls : Current(call[c])
  /\ \A t \in Tabs : Tabs = {t} /\ ~page[t].missed =>
       /\ page[t].rows = catalogue \/ \E c \in Calls : call[c].wrote
       /\ page[t].gone = removed \/ \E c \in Calls : call[c].wrote /\ call[c].op # "update"

ConsoleParts ==
  /\ PageTyped
  /\ \A c \in Calls : Stage(call[c])
  /\ DraftsWait
  /\ ModelsOnly /\ ~overlapped => ShowsStored

ConsoleInv == part = "catalogue" => ConsoleParts

-----------------------------------------------------------------------------
(* The requests as the console waits for them.                             *)

Continues(r, c) ==
  /\ r \in Call /\ r.op = call[c].op /\ r.tab = call[c].tab /\ r.id = call[c].id
  /\ r.chain = call[c].chain /\ r.model = call[c].model

LEMMA ConsoleServes ==
  ASSUME CatalogueParts, ConsoleParts, NEW c \in Calls, NEW r, call' = [call EXCEPT ![c] = r],
         Continues(r, c), call[c].at # "idle", r.at # "idle", UNCHANGED <<page, menu>>,
         overlapped => overlapped', Stage(r),
         ModelsOnly /\ Alone /\ ShowsStored => Current(call[c])',
         call[c].wrote => r.wrote,
         ~r.wrote => UNCHANGED <<catalogue, removed>>,
         call[c].op = "update" => removed' = removed
  PROVE  ConsoleParts'
<1>1. /\ call'[c] = r /\ \A d \in Calls : d # c => call'[d] = call[d]
  BY DEF CatalogueParts, CatalogueTyped
<1>2. PageTyped'
  BY DEF ConsoleParts, PageTyped
<1>3. \A d \in Calls : Stage(call[d])'
  BY <1>1 DEF ConsoleParts, Stage
<1>4. DraftsWait'
  <2>1. \A d \in Calls, t \in Tabs :
          Drafts(call'[d], t) => Drafts(call[d], t) /\ call'[d].id = call[d].id
    BY <1>1 DEF Drafts, Continues
  <2> QED BY <2>1 DEF ConsoleParts, DraftsWait, Drafts
<1>5. ASSUME ModelsOnly, ~overlapped'
      PROVE  ShowsStored'
  <2>1. ShowsStored /\ Alone
    BY <1>5 DEF ConsoleParts, CatalogueParts
  <2>2. \A d \in Calls : d # c => call[d].at = "idle" /\ ~call[d].wrote
    BY <2>1 DEF Alone, UnderWay, ConsoleParts, Stage, Early
  <2>3. \A d \in Calls : Current(call[d])'
    <3>1. ASSUME NEW d \in Calls, d # c
          PROVE  Current(call[d])'
      BY <1>1, <2>2, <3>1 DEF Current
    <3>2. Current(call[c])'
      BY <1>5, <2>1
    <3> QED BY <3>1, <3>2
  <2>4. ASSUME NEW t \in Tabs, Tabs = {t}, ~page[t].missed
        PROVE  page[t].rows = catalogue' \/ \E d \in Calls : call'[d].wrote
    <3>1. CASE r.wrote
      BY <1>1, <3>1
    <3>2. CASE ~r.wrote
      BY <2>1, <2>2, <2>4, <3>2 DEF ShowsStored
    <3> QED BY <3>1, <3>2
  <2>5. ASSUME NEW t \in Tabs, Tabs = {t}, ~page[t].missed
        PROVE  page[t].gone = removed' \/ \E d \in Calls : call'[d].wrote /\ call'[d].op # "update"
    <3>1. CASE r.wrote /\ call[c].op # "update"
      BY <1>1, <3>1 DEF Continues
    <3>2. CASE ~r.wrote \/ call[c].op = "update"
      <4>1. removed' = removed
        BY <3>2
      <4>2. \A d \in Calls : ~(call[d].wrote /\ call[d].op # "update")
        BY <2>2, <3>2
      <4> QED BY <2>1, <2>5, <4>1, <4>2 DEF ShowsStored
    <3> QED BY <3>1, <3>2
  <2> QED BY <2>3, <2>4, <2>5 DEF ShowsStored
<1> QED BY <1>2, <1>3, <1>4, <1>5 DEF ConsoleParts, ModelsOnly

LEMMA ConsoleGoes ==
  ASSUME CatalogueParts, ConsoleParts, NEW c \in Calls,
         NEW at \in Places \ {"idle", "answer", "list", "next", "scan"}, Goto(c, at),
         call[c].at # "idle", UNCHANGED <<page, catalogue, removed>>, Stands(at, call[c].op),
         /\ ModelsOnly /\ Alone /\ ShowsStored
         /\ at \in {"chain", "probe", "lift", "insert"} /\ call[c].op = "create"
         => ~Exists(call[c].model),
         call[c].at \in Early \/ at \notin Early
  PROVE  ConsoleParts'
<1> DEFINE r == [call[c] EXCEPT !.at = at]
<1>1. call[c] \in Call /\ call \in [Calls -> Call]
  BY InCall DEF CatalogueParts, CatalogueTyped
<1>2. Continues(r, c) /\ r.at = at /\ r.wrote = call[c].wrote
  BY <1>1 DEF Call, Continues, Places, Adding
<1>3. call' = [call EXCEPT ![c] = r] /\ UNCHANGED <<menu, overlapped>>
  BY DEF Goto
<1> HIDE DEF r
<1>4. call'[c] = r
  BY <1>1, <1>3
<1>5. Stage(r)
  BY <1>2 DEF ConsoleParts, Stage, Continues
<1>6. ModelsOnly /\ Alone /\ ShowsStored => Current(call[c])'
  BY <1>2, <1>4 DEF Current, Continues, Exists
<1> QED BY <1>2, <1>3, <1>5, <1>6, ConsoleServes

LEMMA ConsoleLists ==
  ASSUME CatalogueParts, ConsoleParts, NEW c \in Calls, NEW wrote \in BOOLEAN,
         ListingAfter(c, wrote), call[c].at # "idle", UNCHANGED page,
         call[c].wrote => wrote, ~wrote => UNCHANGED <<catalogue, removed>>,
         call[c].op = "update" => removed' = removed,
         call[c].op \notin {"toggle", "unregister"}
  PROVE  ConsoleParts'
<1> DEFINE r == [call[c] EXCEPT !.at = "list", !.rows = Null, !.gone = Null, !.wrote = wrote]
<1>1. call[c] \in Call /\ call \in [Calls -> Call]
  BY InCall DEF CatalogueParts, CatalogueTyped
<1> DEFINE r1 == [call[c] EXCEPT !.at = "list"]
             r2 == [r1 EXCEPT !.rows = Null]
             r3 == [r2 EXCEPT !.gone = Null]
<1>a. call[c] \in Call
  BY <1>1
<1>b. r1 \in Call /\ r1.at = "list"
  BY <1>a DEF Call
<1>b1. r1.op = call[c].op /\ r1.tab = call[c].tab /\ r1.id = call[c].id
       /\ r1.chain = call[c].chain /\ r1.model = call[c].model
  BY <1>a DEF Call
<1> HIDE DEF r1
<1>c. r2 \in Call /\ Continues(r2, c) /\ r2.at = "list" /\ r2.rows = Null
  BY <1>b, <1>b1 DEF Call, Continues
<1> HIDE DEF r2
<1>d. r3 \in Call /\ Continues(r3, c) /\ r3.at = "list" /\ r3.rows = Null /\ r3.gone = Null
  BY <1>c DEF Call, Continues
<1>e. r = [r3 EXCEPT !.wrote = wrote]
  BY DEF r1, r2, r3
<1> HIDE DEF r, r3
<1>2. Continues(r, c) /\ r.at = "list" /\ r.rows = Null /\ r.gone = Null /\ r.wrote = wrote
  BY <1>d, <1>e DEF Call, Continues
<1> USE DEF r
<1>3. call' = [call EXCEPT ![c] = r] /\ UNCHANGED <<menu, overlapped>>
  BY DEF ListingAfter
<1> HIDE DEF r
<1>4. call'[c] = r
  BY <1>1, <1>3
<1>5. Stage(r)
  BY <1>2 DEF ConsoleParts, Stage, Continues, Stands, Early
<1>6. Current(call[c])'
  BY <1>2, <1>4 DEF Current
<1> QED BY <1>2, <1>3, <1>5, <1>6, ConsoleServes

LEMMA ConsoleNextProvider ==
  ASSUME CatalogueParts, ConsoleParts, NEW c \in Calls, NextProvider(c), UNCHANGED page
  PROVE  ConsoleParts'
<1>1. /\ call[c] \in Call /\ call[c].at \in {"next", "scan"} /\ call \in [Calls -> Call]
      /\ UNCHANGED <<catalogue, removed, overlapped, menu>>
  BY InCall DEF NextProvider, Free, CatalogueParts, CatalogueTyped, tables
<1>2. PICK p \in call[c].todo :
        \/ \E offered, twice \in SUBSET Offers[p] :
             call' = [call EXCEPT ![c] = [call[c] EXCEPT !.at = "scan",
                        !.todo = call[c].todo \ {p}, !.owner = p, !.listed = offered,
                        !.again = twice, !.rows = Null, !.gone = Null]]
        \/ call' = [call EXCEPT ![c] = [call[c] EXCEPT !.at = "next",
                                                       !.todo = call[c].todo \ {p}]]
  BY DEF NextProvider
<1>3. p \in Providers /\ Offers[p] \subseteq Models
  <2>1. call[c].todo \in SUBSET Providers
    BY <1>1 DEF Call
  <2> QED BY <2>1, CatalogueAssumption DEF CatalogueAssumption
<1> DEFINE todo == call[c].todo \ {p}
<1>4. todo \in SUBSET Providers
  BY <1>1 DEF Call
<1>5. ASSUME NEW r, call' = [call EXCEPT ![c] = r], Continues(r, c), r.at \in {"next", "scan"},
             r.wrote = call[c].wrote
      PROVE  ConsoleParts'
  <2>1. call'[c] = r
    BY <1>1, <1>5
  <2>2. Stage(r)
    BY <1>1, <1>5 DEF ConsoleParts, Stage, Stands, Continues, Early
  <2>3. Current(call[c])'
    BY <1>1, <1>5, <2>1 DEF Current
  <2> QED BY <1>1, <1>5, <2>2, <2>3, ConsoleServes
<1>6. CASE call' = [call EXCEPT ![c] = [call[c] EXCEPT !.at = "next", !.todo = todo]]
  <2> DEFINE r == [call[c] EXCEPT !.at = "next", !.todo = todo]
  <2> HIDE DEF todo
  <2>1. Continues(r, c) /\ r.at = "next" /\ r.wrote = call[c].wrote
    BY ZenonT(40), <1>1, <1>4 DEF Call, Continues
  <2>2. call' = [call EXCEPT ![c] = r]
    BY <1>6
  <2> HIDE DEF r
  <2> QED BY <1>5, <2>1, <2>2
<1>7. ASSUME NEW offered \in SUBSET Offers[p], NEW twice \in SUBSET Offers[p],
             call' = [call EXCEPT ![c] = [call[c] EXCEPT !.at = "scan", !.todo = todo,
                        !.owner = p, !.listed = offered, !.again = twice, !.rows = Null,
                        !.gone = Null]]
      PROVE  ConsoleParts'
  <2> DEFINE r == [call[c] EXCEPT !.at = "scan", !.todo = todo, !.owner = p, !.listed = offered,
                                  !.again = twice, !.rows = Null, !.gone = Null]
  <2>1. offered \in SUBSET Models /\ twice \in SUBSET Models
    BY <1>3
  <2> HIDE DEF todo
  <2>2. Continues(r, c) /\ r.at = "scan" /\ r.wrote = call[c].wrote
    BY <1>1, <1>3, <1>4, <2>1 DEF Call, Continues
  <2>3. call' = [call EXCEPT ![c] = r]
    BY <1>7
  <2> HIDE DEF r
  <2> QED BY <1>5, <2>2, <2>3
<1> QED BY <1>2, <1>6, <1>7

LEMMA ConsoleEndSync ==
  ASSUME CatalogueParts, ConsoleParts, NEW c \in Calls, EndSync(c), UNCHANGED page
  PROVE  ConsoleParts'
<1> DEFINE wrote == call[c].wrote
<1>1. /\ call[c].at \in {"next", "scan"} /\ UNCHANGED <<catalogue, removed>>
      /\ \/ call[c].op = "register" /\ Goto(c, "providers")
         \/ ListingAfter(c, wrote)
  BY DEF EndSync, Free, tables
<1>2. /\ call[c].op \notin {"toggle", "unregister"} /\ call[c] \in Call
      /\ wrote \in BOOLEAN /\ (call[c].wrote => wrote)
  <2>1. Stage(call[c]) /\ call[c] \in Call
    BY InCall DEF ConsoleParts
  <2> QED BY <1>1, <2>1 DEF Stage, Stands, Call
<1> HIDE DEF wrote
<1>3. CASE ListingAfter(c, wrote)
  BY <1>1, <1>2, <1>3, ConsoleLists
<1>4. CASE call[c].op = "register" /\ Goto(c, "providers")
  <2>1. Stands("providers", call[c].op) /\ "providers" \notin Early
    BY <1>4 DEF Stands, Early
  <2> QED BY <1>1, <1>4, <2>1, ConsoleGoes DEF Places
<1> QED BY <1>1, <1>3, <1>4

(* With nobody else writing, an answer reads the stored rows.              *)
LEMMA WithinAnswer ==
  ASSUME NEW c, call[c].at = "list", NEW S, NEW table \in [Models -> S]
  PROVE  Within(c, table) = table
BY DEF Within

LEMMA ConsoleReads ==
  ASSUME CatalogueParts, ConsoleParts, NEW c \in Calls, ReadRows(c) \/ ReadGone(c), UNCHANGED page
  PROVE  ConsoleParts'
<1>1. /\ call[c] \in Call /\ call[c].at \in {"scan", "list"} /\ call \in [Calls -> Call]
      /\ UNCHANGED <<catalogue, removed, overlapped, menu>>
      /\ catalogue \in Lists /\ removed \in Suppressions
  BY InCall DEF ReadRows, ReadGone, CatalogueParts, CatalogueTyped, tables
<1>2. /\ call[c].at = "list" => Within(c, catalogue) = catalogue
      /\ call[c].at = "list" => Within(c, removed) = removed
  BY <1>1, WithinAnswer DEF Lists, Suppressions
<1>3. ASSUME NEW r, call' = [call EXCEPT ![c] = r], Continues(r, c), r.at = call[c].at,
             r.wrote = call[c].wrote,
             \/ r.rows = Within(c, catalogue) /\ r.gone = call[c].gone
             \/ r.gone = Within(c, removed) /\ r.rows = call[c].rows
      PROVE  ConsoleParts'
  <2>1. call'[c] = r
    BY <1>1, <1>3
  <2>2. Stage(r)
    BY <1>1, <1>3 DEF ConsoleParts, Stage, Continues
  <2>3. ShowsStored => Current(call[c])'
    <3> SUFFICES ASSUME ShowsStored
                 PROVE  Current(call[c])'
      OBVIOUS
    <3>1. Current(call[c])
      BY DEF ShowsStored
    <3> QED BY <1>1, <1>2, <1>3, <2>1, <3>1 DEF Current
  <2> QED BY <1>1, <1>3, <2>2, <2>3, ConsoleServes
<1>4. CASE ReadRows(c)
  <2> DEFINE seen == Within(c, catalogue)
             r == [call[c] EXCEPT !.rows = seen]
  <2>1. call' = [call EXCEPT ![c] = r]
    BY <1>4 DEF ReadRows
  <2>2. seen \in Lists
    BY <1>1 DEF Within, Lists
  <2> HIDE DEF seen
  <2>3. /\ Continues(r, c) /\ r.at = call[c].at /\ r.rows = seen /\ r.gone = call[c].gone
        /\ r.wrote = call[c].wrote
    BY <1>1, <2>2 DEF Call, Continues
  <2> HIDE DEF r
  <2> QED BY <1>3, <2>1, <2>3 DEF seen
<1>5. CASE ReadGone(c)
  <2> DEFINE seen == Within(c, removed)
             r == [call[c] EXCEPT !.gone = seen]
  <2>1. call' = [call EXCEPT ![c] = r]
    BY <1>5 DEF ReadGone
  <2>2. seen \in Suppressions
    BY <1>1 DEF Within, Suppressions
  <2> HIDE DEF seen
  <2>3. /\ Continues(r, c) /\ r.at = call[c].at /\ r.gone = seen /\ r.rows = call[c].rows
        /\ r.wrote = call[c].wrote
    BY <1>1, <2>2 DEF Call, Continues
  <2> HIDE DEF r
  <2> QED BY <1>3, <2>1, <2>3 DEF seen
<1> QED BY <1>4, <1>5

(* A write of a sync, or the throw of one.                                 *)
LEMMA ConsoleSyncs ==
  ASSUME CatalogueParts, ConsoleParts, NEW c \in Calls, NEW m \in Models,
         Refresh(c, m) \/ Import(c, m), UNCHANGED page
  PROVE  ConsoleParts'
<1>1. /\ call[c] \in Call /\ call[c].at = "scan" /\ call \in [Calls -> Call] /\ Stage(call[c])
  BY InCall DEF Refresh, Import, CatalogueParts, CatalogueTyped, ConsoleParts
<1>2. CASE Fail(c)
  <2>1. /\ Goto(c, "failed") /\ UNCHANGED <<catalogue, removed>>
        /\ Stands("failed", call[c].op) /\ "failed" \notin Early
    BY <1>2 DEF Fail, Stands, Early, tables
  <2> QED BY <1>1, <2>1, ConsoleGoes DEF Places
<1>3. CASE call' = [call EXCEPT ![c] = Past(c, m)] /\ UNCHANGED <<removed, overlapped, menu>>
  <2> DEFINE listed == call[c].listed \ {m}
             again == IF m \in call[c].listed THEN call[c].again ELSE call[c].again \ {m}
             r == [call[c] EXCEPT !.listed = listed, !.wrote = TRUE, !.again = again]
  <2>1. listed \in SUBSET Models /\ again \in SUBSET Models
    BY <1>1 DEF Call
  <2>2. call' = [call EXCEPT ![c] = r]
    BY <1>1, <1>3 DEF Past
  <2> HIDE DEF listed, again
  <2>3. Continues(r, c) /\ r.at = "scan" /\ r.wrote
    BY <1>1, <2>1 DEF Call, Continues
  <2> HIDE DEF r
  <2>4. call'[c] = r
    BY <1>1, <2>2
  <2>5. Stage(r)
    BY <1>1, <2>3 DEF Stage, Stands, Continues, Early
  <2>6. Current(call[c])'
    BY <1>1, <2>3, <2>4 DEF Current
  <2> QED BY <1>1, <1>3, <2>2, <2>3, <2>5, <2>6, ConsoleServes
<1>4. \/ Fail(c)
      \/ call' = [call EXCEPT ![c] = Past(c, m)] /\ UNCHANGED <<removed, overlapped, menu>>
  BY DEF Refresh, Import
<1> QED BY <1>2, <1>3, <1>4

LEMMA ConsoleAdds ==
  ASSUME CatalogueParts, ConsoleParts, NEW c \in Calls, Chain(c) \/ Probe(c) \/ Lift(c) \/ Insert(c),
         UNCHANGED page
  PROVE  ConsoleParts'
<1>1. /\ call[c].at \in {"chain", "probe", "lift", "insert"}
      /\ call[c].at # "chain" => call[c].op = "create"
      /\ call[c].op \in {"create", "update"} /\ call[c] \in Call /\ Stage(call[c])
      /\ call \in [Calls -> Call] /\ removed \in Suppressions
      /\ call[c].model \in Models
  BY InCall DEF Chain, Probe, Lift, Insert, Sound, Adding, ConsoleParts, CatalogueParts, CatalogueTyped
<1>2. ShowsStored /\ call[c].op = "create" => ~Exists(call[c].model)
  <2> SUFFICES ASSUME ShowsStored, call[c].op = "create"
               PROVE  ~Exists(call[c].model)
    OBVIOUS
  <2>1. Current(call[c])
    BY DEF ShowsStored
  <2> QED BY <1>1, <2>1 DEF Current
<1>3. CASE Chain(c) \/ Probe(c)
  <2>1. PICK at \in {"probe", "save", "lift", "failed"} :
          Goto(c, at) /\ (at = "save" => call[c].op = "update")
    BY <1>1, <1>3 DEF Chain, Probe
  <2>2. /\ UNCHANGED <<catalogue, removed>> /\ call[c].at \in Early
        /\ at \in Places \ {"idle", "answer", "list", "next", "scan"}
    BY <1>1, <1>3 DEF Chain, Probe, Places, Adding, Early, tables
  <2>3. Stands(at, call[c].op)
    BY <2>1 DEF Stands
  <2> QED BY <1>1, <1>2, <2>1, <2>2, <2>3, ConsoleGoes
<1>4. CASE Lift(c)
  <2> DEFINE model == call[c].model
             wrote == removed[model] # Null
             r == [call[c] EXCEPT !.at = "insert", !.wrote = wrote]
  <2>1. /\ call' = [call EXCEPT ![c] = r] /\ call[c].op = "create" /\ call[c].at = "lift"
        /\ UNCHANGED <<catalogue, overlapped, menu>> /\ removed' = [removed EXCEPT ![model] = Null]
    BY <1>1, <1>4 DEF Lift
  <2>2. wrote \in BOOLEAN /\ ~call[c].wrote
    BY <1>1, <2>1 DEF Stage, Early
  <2>3. ~wrote => removed' = removed
    BY <1>1, <2>1 DEF Suppressions
  <2> HIDE DEF wrote
  <2>4. Continues(r, c) /\ r.at = "insert" /\ r.wrote = wrote
    BY <1>1, <2>2 DEF Call, Continues
  <2> HIDE DEF r
  <2>5. call'[c] = r
    BY <1>1, <2>1
  <2>6. Stage(r)
    BY <1>1, <2>1, <2>4 DEF Stage, Stands, Continues, Early
  <2>7. ModelsOnly /\ Alone /\ ShowsStored => Current(call[c])'
    BY <1>2, <2>1, <2>4, <2>5 DEF Current, Continues, Exists
  <2> QED BY <2>1, <2>2, <2>3, <2>4, <2>6, <2>7, ConsoleServes
<1>5. CASE Insert(c)
  <2>1. CASE Exists(call[c].model)
    <3>1. /\ Goto(c, "failed") /\ UNCHANGED <<catalogue, removed>>
          /\ Stands("failed", call[c].op) /\ "failed" \in Places \ Early
      BY <1>1, <1>5, <2>1 DEF Insert, Fail, Stands, Places, Early, tables
    <3> QED BY <1>1, <3>1, ConsoleGoes
  <2>2. CASE ~Exists(call[c].model)
    <3>1. ListingAfter(c, TRUE) /\ UNCHANGED removed
      BY <1>5, <2>2 DEF Insert, Listing
    <3> QED BY <1>1, <3>1, ConsoleLists
  <2> QED BY <2>1, <2>2
<1> QED BY <1>3, <1>4, <1>5

(* What ends by reading the lists, or is refused before it writes.         *)
LEMMA ConsoleWrites ==
  ASSUME CatalogueParts, ConsoleParts, NEW c \in Calls,
         Save(c) \/ Referenced(c) \/ Remove(c) \/ Unremove(c), UNCHANGED page
  PROVE  ConsoleParts'
<1>1. /\ call[c].at \in {"save", "referenced", "remove", "unremove"} /\ Stage(call[c])
  BY DEF Save, Referenced, Remove, Unremove, ConsoleParts
<1>2. \/ ListingAfter(c, TRUE) /\ (Save(c) => removed' = removed)
      \/ Fail(c)
      \/ Goto(c, "failed") /\ UNCHANGED <<catalogue, removed>>
      \/ Referenced(c) /\ Goto(c, "remove") /\ UNCHANGED <<catalogue, removed>>
  BY DEF Save, Referenced, Remove, Unremove, Listing, tables
<1>3. CASE ListingAfter(c, TRUE) /\ (Save(c) => removed' = removed)
  <2>1. ListingAfter(c, TRUE) /\ (Save(c) => removed' = removed)
    BY <1>3
  <2>2. ~Save(c) => call[c].op # "update"
    <3> SUFFICES ASSUME ~Save(c)
                 PROVE  call[c].op # "update"
      OBVIOUS
    <3>1. call[c].at \in {"referenced", "remove", "unremove"}
      BY DEF Referenced, Remove, Unremove
    <3> QED BY <1>1, <3>1 DEF Stage, Stands
  <2>3. call[c].op \notin {"toggle", "unregister"}
    BY <1>1 DEF Stage, Stands
  <2> QED BY <1>1, <2>1, <2>2, <2>3, ConsoleLists
<1>4. CASE Fail(c) \/ (Goto(c, "failed") /\ UNCHANGED <<catalogue, removed>>)
  <2>1. /\ Goto(c, "failed") /\ UNCHANGED <<catalogue, removed>>
        /\ Stands("failed", call[c].op) /\ "failed" \in Places \ Early
    BY <1>4 DEF Fail, Stands, Places, Early, tables
  <2> QED BY <1>1, <2>1, ConsoleGoes
<1>5. CASE Referenced(c) /\ Goto(c, "remove") /\ UNCHANGED <<catalogue, removed>>
  <2>1. /\ Stands("remove", call[c].op) /\ "remove" \in Places /\ call[c].at = "referenced"
        /\ call[c].at \in Early
    BY <1>1, <1>5 DEF Referenced, Stage, Stands, Places, Early
  <2> QED BY <1>1, <1>5, <2>1, ConsoleGoes
<1> QED BY <1>2, <1>3, <1>4, <1>5

LEMMA ConsoleProvides ==
  ASSUME CatalogueParts, ConsoleParts, NEW c \in Calls,
         Register(c) \/ Toggle(c) \/ CountModels(c) \/ Unregister(c), UNCHANGED page
  PROVE  ConsoleParts'
<1>1. /\ call[c] \in Call /\ call \in [Calls -> Call] /\ UNCHANGED <<catalogue, removed, menu>>
      /\ call[c].at \in {"register", "toggle", "count", "unregister"} /\ Stage(call[c])
      /\ overlapped => overlapped'
  BY InCall DEF Register, Toggle, CountModels, Unregister, Fail, Goto, Invalidate, tables, ConsoleParts,
                CatalogueParts, CatalogueTyped
<1>2. /\ call[c].op \in {"register", "toggle", "unregister"}
      /\ call[c].at = "count" => call[c].op = "unregister"
      /\ call[c].at = "register" => call[c].op = "register"
      /\ ~call[c].wrote
  BY <1>1 DEF Stage, Stands, Early
<1>3. \/ \E at \in {"failed", "providers"} : call' = [call EXCEPT ![c].at = at]
      \/ call[c].at = "count" /\ call' = [call EXCEPT ![c].at = "unregister"]
      \/ /\ call[c].at = "register"
         /\ \E todo \in SUBSET {call[c].owner} :
              call' = [call EXCEPT ![c] = [call[c] EXCEPT !.at = "next", !.todo = todo]]
  <2>1. CASE Register(c)
    <3> DEFINE todo == {call[c].owner} \intersect routed'
    <3>1. \/ \E at \in {"failed", "providers"} : call' = [call EXCEPT ![c].at = at]
          \/ /\ call[c].at = "register"
             /\ call' = [call EXCEPT ![c] = [call[c] EXCEPT !.at = "next", !.todo = todo]]
      BY <2>1 DEF Register, Fail, Goto
    <3>2. todo \in SUBSET {call[c].owner}
      OBVIOUS
    <3> HIDE DEF todo
    <3> QED BY <3>1, <3>2
  <2>2. CASE Toggle(c) \/ CountModels(c) \/ Unregister(c)
    BY <2>2 DEF Toggle, CountModels, Unregister, Fail, Goto
  <2> QED BY <2>1, <2>2
<1>4. ASSUME NEW r, call' = [call EXCEPT ![c] = r], Continues(r, c), r.wrote = call[c].wrote,
             r.at \in {"failed", "providers", "next", "unregister"},
             Stands(r.at, call[c].op)
      PROVE  ConsoleParts'
  <2>1. call'[c] = r
    BY <1>1, <1>4
  <2>2. Stage(r)
    BY <1>1, <1>2, <1>4 DEF Stage, Continues
  <2>3. Current(call[c])'
    BY <1>4, <2>1 DEF Current
  <2> QED BY <1>1, <1>2, <1>4, <2>2, <2>3, ConsoleServes
<1>5. ASSUME NEW at \in {"failed", "providers", "unregister"}, call' = [call EXCEPT ![c].at = at],
             Stands(at, call[c].op)
      PROVE  ConsoleParts'
  <2> DEFINE r == [call[c] EXCEPT !.at = at]
  <2>1. call' = [call EXCEPT ![c] = r]
    BY <1>5
  <2>2. Continues(r, c) /\ r.at = at /\ r.wrote = call[c].wrote
    BY <1>1 DEF Call, Continues
  <2> HIDE DEF r
  <2> QED BY <1>4, <1>5, <2>1, <2>2
<1>6. ASSUME call[c].at = "register", NEW todo \in SUBSET {call[c].owner},
             call' = [call EXCEPT ![c] = [call[c] EXCEPT !.at = "next", !.todo = todo]]
      PROVE  ConsoleParts'
  <2> DEFINE r == [call[c] EXCEPT !.at = "next", !.todo = todo]
  <2>1. todo \in SUBSET Providers
    BY <1>6, InCall DEF Sound
  <2>2. Continues(r, c) /\ r.at = "next" /\ r.wrote = call[c].wrote
    BY ZenonT(40), <1>1, <2>1 DEF Call, Continues
  <2>3. Stands("next", call[c].op)
    BY <1>2, <1>6 DEF Stands
  <2> HIDE DEF r
  <2> QED BY <1>4, <1>6, <2>2, <2>3 DEF r
<1>7. /\ \A at \in {"failed", "providers"} : Stands(at, call[c].op)
      /\ call[c].at = "count" => Stands("unregister", call[c].op)
  BY <1>2 DEF Stands
<1> QED BY <1>3, <1>5, <1>6, <1>7

(* A request is given up where it stands, with what it has written.        *)
LEMMA ConsoleLoses ==
  ASSUME CatalogueParts, ConsoleParts, NEW c \in Calls, Lose(c), UNCHANGED page
  PROVE  ConsoleParts'
<1>1. /\ Goto(c, "lost") /\ UNCHANGED <<catalogue, removed>> /\ call[c].at # "idle"
      /\ Stands("lost", call[c].op) /\ "lost" \in Places \ Early
  BY DEF Lose, tables, Stands, Places, Early
<1> QED BY <1>1, ConsoleGoes

(* A click begins a request.                                               *)
LEMMA ConsoleBegins ==
  ASSUME CatalogueParts, ConsoleParts, NEW c \in Calls, NEW t \in Tabs, NEW r \in Call,
         call' = [call EXCEPT ![c] = r], call[c].at = "idle",
         overlapped' = (overlapped \/ UnderWay # {}), UNCHANGED <<catalogue, removed, menu>>,
         NEW p \in Page, page' = [page EXCEPT ![t] = p],
         p.rows = page[t].rows, p.gone = page[t].gone, p.editing = page[t].editing,
         p.dismissed = page[t].dismissed, p.missed = page[t].missed,
         r.tab = t, r.op \in menu, Stands(r.at, r.op), ~r.wrote,
         r.at \notin {"list", "answer", "insert"},
         r.op = "create" => ~Exists(r.model),
         r.op = "update" /\ r.chain # Untouched => r.id = page[t].editing /\ r.id # 0
  PROVE  ConsoleParts'
<1>1. /\ call'[c] = r /\ \A d \in Calls : d # c => call'[d] = call[d]
  BY DEF CatalogueParts, CatalogueTyped
<1>2. /\ page \in [Tabs -> Page] /\ page' \in [Tabs -> Page]
      /\ \A u \in Tabs : /\ page'[u].rows = page[u].rows /\ page'[u].gone = page[u].gone
                         /\ page'[u].editing = page[u].editing
                         /\ page'[u].dismissed = page[u].dismissed
                         /\ page'[u].missed = page[u].missed
  BY DEF ConsoleParts, PageTyped
<1>3. PageTyped'
  BY <1>2 DEF PageTyped
<1>4. \A d \in Calls : Stage(call[d])'
  <2>1. Stage(call[c])'
    BY <1>1 DEF Stage
  <2> QED BY <1>1, <2>1 DEF ConsoleParts, Stage
<1>5. DraftsWait'
  <2> SUFFICES ASSUME NEW u \in Tabs, ~page[u].dismissed, NEW d \in Calls, Drafts(call'[d], u)
               PROVE  call'[d].id = page[u].editing /\ call'[d].id # 0
    BY <1>2 DEF DraftsWait, Drafts
  <2>1. CASE d = c
    BY <1>1, <2>1 DEF Drafts
  <2>2. CASE d # c
    BY <1>1, <2>2 DEF ConsoleParts, DraftsWait
  <2> QED BY <2>1, <2>2
<1>6. ASSUME ModelsOnly, ~overlapped, UnderWay = {}
      PROVE  ShowsStored'
  <2>1. ShowsStored /\ \A d \in Calls : call[d].at = "idle"
    BY <1>6 DEF ConsoleParts, UnderWay
  <2>2. \A d \in Calls : Current(call[d])'
    <3>1. Current(call[c])'
      BY <1>1 DEF Current, Exists
    <3> QED BY <1>1, <2>1, <3>1 DEF Current
  <2>3. \A d \in Calls : ~call[d].wrote
    BY <2>1 DEF ConsoleParts, Stage, Early
  <2> QED BY <1>2, <2>1, <2>2, <2>3 DEF ShowsStored
<1> QED BY <1>3, <1>4, <1>5, <1>6 DEF ConsoleParts, ModelsOnly

LEMMA ConsoleStarts ==
  ASSUME CatalogueParts, ConsoleParts, NEW c \in Calls, NEW t \in Tabs,
         NEW what, NEW where, NEW locals, Start(c, what, where, locals),
         UNCHANGED <<catalogue, removed>>,
         NEW p \in Page, page' = [page EXCEPT ![t] = p],
         p.rows = page[t].rows, p.gone = page[t].gone, p.editing = page[t].editing,
         p.dismissed = page[t].dismissed, p.missed = page[t].missed,
         locals \in Call, locals.tab = t, ~locals.wrote, Stands(where, what),
         where \in {"next", "chain", "probe", "save", "referenced", "unremove", "register",
                    "toggle", "count"},
         what \in {"sync", "syncOne", "create", "update", "delete", "restore", "register",
                   "toggle", "unregister"},
         what = "create" => ~Exists(locals.model),
         what = "update" /\ locals.chain # Untouched => locals.id = page[t].editing /\ locals.id # 0
  PROVE  ConsoleParts'
<1> DEFINE q == [locals EXCEPT !.op = what]
<1> DEFINE r == [q EXCEPT !.at = where]
<1>q. /\ q \in Call /\ q.op = what /\ q.tab = t /\ q.model = locals.model
      /\ q.chain = locals.chain /\ q.id = locals.id /\ q.wrote = locals.wrote
  BY DEF Call
<1>1. /\ call' = [call EXCEPT ![c] = r] /\ call[c].at = "idle" /\ what \in menu
      /\ overlapped' = (overlapped \/ UnderWay # {}) /\ UNCHANGED menu
  <2>1. r = [locals EXCEPT !.op = what, !.at = where]
    BY DEF Call
  <2> QED BY <2>1 DEF Start
<1> HIDE DEF q
<1>2. /\ r \in Call /\ r.op = what /\ r.at = where /\ r.tab = t /\ r.model = locals.model
      /\ r.chain = locals.chain /\ r.id = locals.id /\ r.wrote = locals.wrote
  BY <1>q DEF Call
<1> HIDE DEF r
<1> QED BY <1>1, <1>2, ConsoleBegins

LEMMA RowIds ==
  ASSUME CatalogueParts, ConsoleParts, NEW t \in Tabs
  PROVE  /\ page \in [Tabs -> Page] /\ page[t] \in Page
         /\ \A m \in Models : /\ Shown(t, m) => RowOf(t, m) \in 1..MaxRows
                              /\ page[t].gone[m] # Null => page[t].gone[m].id \in 1..MaxRows
         /\ \A p \in Providers : page[t].configs[p] # Null =>
              page[t].configs[p].id \in 1..MaxRows /\ page[t].configs[p].enabled \in BOOLEAN
<1>1. page \in [Tabs -> Page] /\ page[t] \in Page
  BY DEF ConsoleParts, PageTyped
<1>2. /\ page[t].rows \in Lists /\ page[t].gone \in Suppressions
      /\ page[t].configs \in [Providers -> ConfigRow \union {Null}]
  BY <1>1 DEF Page
<1>3. \A m \in Models : /\ Shown(t, m) => RowOf(t, m) \in 1..MaxRows
                        /\ page[t].gone[m] # Null => page[t].gone[m].id \in 1..MaxRows
  BY <1>2 DEF Shown, RowOf, Lists, Row, Suppressions, RemovedRow
<1>4. \A p \in Providers : page[t].configs[p] # Null =>
        page[t].configs[p].id \in 1..MaxRows /\ page[t].configs[p].enabled \in BOOLEAN
  BY <1>2 DEF ConfigRow
<1> QED BY <1>1, <1>3, <1>4

LEMMA ConsoleSyncBegins ==
  ASSUME CatalogueParts, ConsoleParts, NEW c \in Calls, NEW t \in Tabs,
         ClickSync(c, t) \/ \E p \in Providers : ClickSyncOne(c, t, p)
  PROVE  ConsoleParts'
<1>1. page[t] \in Page
  BY RowIds
<1>2. ASSUME NEW what \in {"sync", "syncOne"}, NEW ps \in SUBSET Providers, Sync(c, t, what, ps),
             NEW p \in Page, page' = [page EXCEPT ![t] = p],
             p.rows = page[t].rows, p.gone = page[t].gone, p.editing = page[t].editing,
             p.dismissed = page[t].dismissed, p.missed = page[t].missed
      PROVE  ConsoleParts'
  <2> DEFINE todo == {q \in ps : Registered(q)}
             locals == [Idle EXCEPT !.tab = t, !.todo = todo]
  <2>1. Start(c, what, "next", locals) /\ UNCHANGED <<catalogue, removed>>
    BY <1>2 DEF Sync
  <2>2. todo \in SUBSET Providers
    OBVIOUS
  <2> HIDE DEF todo
  <2>3. locals \in Call /\ locals.tab = t /\ ~locals.wrote
    BY <2>2, IdleIsTyped DEF Call
  <2>4. Stands("next", what)
    BY DEF Stands
  <2> HIDE DEF locals
  <2> QED BY <1>2, <2>1, <2>3, <2>4, ConsoleStarts
<1>3. CASE ClickSync(c, t)
  <2> DEFINE p == [page[t] EXCEPT !.syncing = TRUE]
  <2>1. /\ p \in Page /\ p.rows = page[t].rows /\ p.gone = page[t].gone
        /\ p.editing = page[t].editing /\ p.dismissed = page[t].dismissed
        /\ p.missed = page[t].missed
    BY <1>1 DEF Page
  <2>2. Sync(c, t, "sync", Providers) /\ page' = [page EXCEPT ![t] = p]
    BY <1>3 DEF ClickSync, Set
  <2> HIDE DEF p
  <2> QED BY <1>2, <2>1, <2>2
<1>4. ASSUME NEW q \in Providers, ClickSyncOne(c, t, q)
      PROVE  ConsoleParts'
  <2> DEFINE p == [page[t] EXCEPT !.busy = q]
  <2>1. /\ p \in Page /\ p.rows = page[t].rows /\ p.gone = page[t].gone
        /\ p.editing = page[t].editing /\ p.dismissed = page[t].dismissed
        /\ p.missed = page[t].missed
    BY <1>1 DEF Page
  <2>2. Sync(c, t, "syncOne", {q}) /\ page' = [page EXCEPT ![t] = p]
    BY <1>4 DEF ClickSyncOne, Set
  <2> HIDE DEF p
  <2> QED BY <1>2, <2>1, <2>2
<1> QED BY <1>3, <1>4

LEMMA ConsoleCreateBegins ==
  ASSUME CatalogueParts, ConsoleParts, NEW c \in Calls, NEW t \in Tabs, NEW m \in Models,
         NEW q \in Providers, NEW chain \in SUBSET Models, ClickCreate(c, t, m, q, chain)
  PROVE  ConsoleParts'
<1> DEFINE locals == [Idle EXCEPT !.tab = t, !.model = m, !.owner = q, !.chain = chain]
           where == IF chain = {} THEN "probe" ELSE "chain"
           p == page[t]
<1>1. /\ Start(c, "create", where, locals) /\ UNCHANGED <<catalogue, removed>> /\ ~Exists(m)
      /\ page' = page
  BY DEF ClickCreate, CreateManual
<1>2. where \in {"probe", "chain"} /\ p \in Page /\ page' = [page EXCEPT ![t] = p]
  BY <1>1, RowIds
<1> HIDE DEF where
<1>3. locals \in Call /\ locals.tab = t /\ ~locals.wrote /\ locals.model = m
  BY IdleIsTyped DEF Call
<1>4. Stands(where, "create")
  BY <1>2 DEF Stands
<1> HIDE DEF locals
<1> QED BY <1>1, <1>2, <1>3, <1>4, ConsoleStarts

LEMMA ConsoleSaveBegins ==
  ASSUME CatalogueParts, ConsoleParts, NEW c \in Calls, NEW t \in Tabs, NEW m \in Models,
         NEW chain \in {Untouched} \union SUBSET Models, ClickSave(c, t, m, chain)
  PROVE  ConsoleParts'
<1> DEFINE id == RowOf(t, m)
           locals == [Idle EXCEPT !.tab = t, !.model = m, !.id = id, !.chain = chain]
           where == IF chain \in {{}, Untouched} THEN "save" ELSE "chain"
           p == [page[t] EXCEPT !.saving = id]
<1>1. /\ Start(c, "update", where, locals) /\ UNCHANGED <<catalogue, removed>>
      /\ page' = [page EXCEPT ![t] = p] /\ (chain # Untouched => page[t].editing = id)
      /\ Shown(t, m)
  BY DEF ClickSave, Update, Set
<1>2. where \in {"save", "chain"}
  OBVIOUS
<1>3. id \in 0..MaxRows /\ id # 0 /\ page[t] \in Page
  BY <1>1, RowIds, CatalogueAssumption DEF CatalogueAssumption
<1> HIDE DEF where, id
<1>4. /\ p \in Page /\ p.rows = page[t].rows /\ p.gone = page[t].gone
      /\ p.editing = page[t].editing /\ p.dismissed = page[t].dismissed
      /\ p.missed = page[t].missed
  BY <1>3 DEF Page
<1>5. locals \in Call /\ locals.tab = t /\ ~locals.wrote /\ locals.chain = chain /\ locals.id = id
  BY <1>3, IdleIsTyped DEF Call
<1>6. Stands(where, "update")
  BY <1>2 DEF Stands
<1> HIDE DEF locals, p
<1> QED BY <1>1, <1>2, <1>3, <1>4, <1>5, <1>6, ConsoleStarts

LEMMA ConsoleRowBegins ==
  ASSUME CatalogueParts, ConsoleParts, NEW c \in Calls, NEW t \in Tabs, NEW m \in Models,
         ClickDelete(c, t, m) \/ ClickRestore(c, t, m)
  PROVE  ConsoleParts'
<1>1. page[t] \in Page
  BY RowIds
<1>2. CASE ClickDelete(c, t, m)
  <2> DEFINE id == RowOf(t, m)
             manual == catalogue[m].manual
             owner == catalogue[m].provider
             locals == [Idle EXCEPT !.tab = t, !.model = m, !.id = id, !.manual = manual,
                                    !.owner = owner]
             p == [page[t] EXCEPT !.deleting = TRUE]
  <2>1. /\ Start(c, "delete", "referenced", locals) /\ UNCHANGED <<catalogue, removed>>
        /\ page' = [page EXCEPT ![t] = p] /\ Shown(t, m) /\ Exists(m)
    BY <1>2 DEF ClickDelete, DeleteModel, Set
  <2>2. /\ id \in 0..MaxRows /\ manual \in BOOLEAN /\ owner \in Providers
    <3>1. catalogue[m] \in Row
      BY <2>1 DEF CatalogueParts, CatalogueTyped, Lists, Exists
    <3> QED BY <2>1, <3>1, RowIds, CatalogueAssumption DEF Row, CatalogueAssumption
  <2> HIDE DEF id, manual, owner
  <2>3. /\ p \in Page /\ p.rows = page[t].rows /\ p.gone = page[t].gone
        /\ p.editing = page[t].editing /\ p.dismissed = page[t].dismissed
        /\ p.missed = page[t].missed
    BY <1>1 DEF Page
  <2>4. locals \in Call /\ locals.tab = t /\ ~locals.wrote
    BY <2>2, IdleIsTyped DEF Call
  <2>5. Stands("referenced", "delete")
    BY DEF Stands
  <2> HIDE DEF locals, p
  <2> QED BY <2>1, <2>3, <2>4, <2>5, ConsoleStarts
<1>3. CASE ClickRestore(c, t, m)
  <2> DEFINE id == page[t].gone[m].id
             locals == [Idle EXCEPT !.tab = t, !.model = m, !.id = id]
             p == [page[t] EXCEPT !.restoring = id]
  <2>1. /\ Start(c, "restore", "unremove", locals) /\ UNCHANGED <<catalogue, removed>>
        /\ page' = [page EXCEPT ![t] = p] /\ page[t].gone[m] # Null
    BY <1>3 DEF ClickRestore, Restore, Set
  <2>2. id \in 0..MaxRows
    BY <2>1, RowIds, CatalogueAssumption DEF CatalogueAssumption
  <2> HIDE DEF id
  <2>3. /\ p \in Page /\ p.rows = page[t].rows /\ p.gone = page[t].gone
        /\ p.editing = page[t].editing /\ p.dismissed = page[t].dismissed
        /\ p.missed = page[t].missed
    BY <1>1, <2>2 DEF Page
  <2>4. locals \in Call /\ locals.tab = t /\ ~locals.wrote
    BY <2>2, IdleIsTyped DEF Call
  <2>5. Stands("unremove", "restore")
    BY DEF Stands
  <2> HIDE DEF locals, p
  <2> QED BY <2>1, <2>3, <2>4, <2>5, ConsoleStarts
<1> QED BY <1>2, <1>3

LEMMA ConsoleProviderBegins ==
  ASSUME CatalogueParts, ConsoleParts, NEW c \in Calls, NEW t \in Tabs, NEW q \in Providers,
         ClickAdd(c, t, q) \/ ClickToggle(c, t, q) \/ ClickRemove(c, t, q)
  PROVE  ConsoleParts'
<1> DEFINE row == page[t].configs[q]
           id == row.id
           enable == ~row.enabled
           busy == [page[t] EXCEPT !.busy = q]
<1>1. page[t] \in Page /\ page \in [Tabs -> Page]
      /\ (row # Null => id \in 0..MaxRows /\ enable \in BOOLEAN)
  BY RowIds, CatalogueAssumption DEF CatalogueAssumption
<1>2. /\ busy \in Page /\ busy.rows = page[t].rows /\ busy.gone = page[t].gone
      /\ busy.editing = page[t].editing /\ busy.dismissed = page[t].dismissed
      /\ busy.missed = page[t].missed
  BY <1>1 DEF Page
<1>3. CASE ClickAdd(c, t, q)
  <2> DEFINE locals == [Idle EXCEPT !.tab = t, !.owner = q]
             p == page[t]
  <2>1. /\ Start(c, "register", "register", locals) /\ UNCHANGED <<catalogue, removed>>
        /\ page' = page
    BY <1>3 DEF ClickAdd, AddProvider
  <2>2. locals \in Call /\ locals.tab = t /\ ~locals.wrote
    BY IdleIsTyped DEF Call
  <2>3. Stands("register", "register") /\ p \in Page /\ page' = [page EXCEPT ![t] = p]
    BY <1>1, <2>1 DEF Stands
  <2> HIDE DEF locals
  <2> QED BY <2>1, <2>2, <2>3, ConsoleStarts
<1>4. CASE ClickToggle(c, t, q)
  <2> DEFINE locals == [Idle EXCEPT !.tab = t, !.owner = q, !.id = id, !.enable = enable]
  <2>1. /\ Start(c, "toggle", "toggle", locals) /\ UNCHANGED <<catalogue, removed>>
        /\ page' = [page EXCEPT ![t] = busy] /\ row # Null
    BY <1>4 DEF ClickToggle, ToggleProvider, Set
  <2> HIDE DEF id, enable, busy
  <2>2. locals \in Call /\ locals.tab = t /\ ~locals.wrote
    BY ZenonT(40), <1>1, <2>1, IdleIsTyped DEF Call
  <2>3. Stands("toggle", "toggle")
    BY DEF Stands
  <2> HIDE DEF locals
  <2> QED BY <1>2, <2>1, <2>2, <2>3, ConsoleStarts
<1>5. CASE ClickRemove(c, t, q)
  <2> DEFINE locals == [Idle EXCEPT !.tab = t, !.owner = q, !.id = id]
  <2>1. /\ Start(c, "unregister", "count", locals) /\ UNCHANGED <<catalogue, removed>>
        /\ page' = [page EXCEPT ![t] = busy] /\ row # Null
    BY <1>5 DEF ClickRemove, DropProvider, Set
  <2> HIDE DEF id, enable, busy
  <2>2. locals \in Call /\ locals.tab = t /\ ~locals.wrote
    BY <1>1, <2>1, IdleIsTyped DEF Call
  <2>3. Stands("count", "unregister")
    BY DEF Stands
  <2> HIDE DEF locals
  <2> QED BY <1>2, <2>1, <2>2, <2>3, ConsoleStarts
<1> QED BY <1>3, <1>4, <1>5

-----------------------------------------------------------------------------
(* The answers.                                                            *)

LEMMA ConsoleEnds ==
  ASSUME CatalogueParts, ConsoleParts, NEW c \in Calls, End(c), call[c].at # "idle", PageTyped',
         \A t \in Tabs : ~page'[t].dismissed =>
           /\ ~page[t].dismissed
           /\ page'[t].editing = page[t].editing \/ SavesOf(t) \ {c} = {},
         ModelsOnly /\ Alone /\ ShowsStored => \A t \in Tabs : Tabs = {t} /\ ~page'[t].missed =>
           page'[t].rows = catalogue /\ page'[t].gone = removed
  PROVE  ConsoleParts'
<1>1. /\ call'[c] = Idle /\ \A d \in Calls : d # c => call'[d] = call[d]
      /\ UNCHANGED <<catalogue, removed, menu, overlapped>>
  BY DEF CatalogueParts, CatalogueTyped, End, tables
<1>2. Idle.at = "idle" /\ Idle.op = "none" /\ ~Idle.wrote
  BY IdleIsTyped
<1>3. \A d \in Calls : Stage(call[d])'
  <2>1. Stage(call[c])'
    BY <1>1, <1>2 DEF Stage, Stands
  <2> QED BY <1>1, <2>1 DEF ConsoleParts, Stage
<1>4. DraftsWait'
  <2> SUFFICES ASSUME NEW t \in Tabs, ~page'[t].dismissed, NEW d \in Calls, Drafts(call'[d], t)
               PROVE  call'[d].id = page'[t].editing /\ call'[d].id # 0
    BY DEF DraftsWait, Drafts
  <2>1. d # c /\ call'[d] = call[d]
    BY <1>1, <1>2 DEF Drafts
  <2>2. d \in SavesOf(t) \ {c}
    BY <2>1 DEF SavesOf, UnderWay, Drafts
  <2>3. page'[t].editing = page[t].editing /\ ~page[t].dismissed
    BY <2>2
  <2> QED BY <2>1, <2>3 DEF ConsoleParts, DraftsWait
<1>5. ASSUME ModelsOnly, ~overlapped
      PROVE  ShowsStored'
  <2>1. ShowsStored /\ Alone
    BY <1>5 DEF ConsoleParts, CatalogueParts
  <2>2. \A d \in Calls : call'[d].at = "idle"
    BY <1>1, <1>2, <2>1 DEF Alone, UnderWay
  <2>3. \A d \in Calls : Current(call[d])'
    BY <2>2 DEF Current
  <2>4. \A t \in Tabs : Tabs = {t} /\ ~page'[t].missed =>
          page'[t].rows = catalogue /\ page'[t].gone = removed
    BY <1>5, <2>1
  <2> QED BY <1>1, <2>3, <2>4 DEF ShowsStored
<1> QED BY <1>1, <1>3, <1>4, <1>5 DEF ConsoleParts, ModelsOnly

(* What a handler clears when its request has ended is no list.            *)
LEMMA SettledKeeps ==
  ASSUME NEW p \in Page, NEW op, NEW q, q = Settled(p, op)
  PROVE  /\ q \in Page /\ q.rows = p.rows /\ q.gone = p.gone /\ q.editing = p.editing
         /\ q.dismissed = p.dismissed /\ q.configs = p.configs /\ q.missed = p.missed
<1> DEFINE z == 0
<1>1. z \in 0..MaxRows
  BY CatalogueAssumption DEF CatalogueAssumption
<1>2. q = CASE op = "sync"    -> [p EXCEPT !.syncing = FALSE]
            [] op = "update"  -> [p EXCEPT !.saving = z]
            [] op = "delete"  -> [p EXCEPT !.deleting = FALSE]
            [] op = "restore" -> [p EXCEPT !.restoring = z]
            [] op \in {"syncOne", "toggle", "unregister"} -> [p EXCEPT !.busy = Null]
            [] OTHER          -> p
  BY DEF Settled
<1> HIDE DEF z
<1>3. CASE op = "sync"
  <2>1. q = [p EXCEPT !.syncing = FALSE]
    BY <1>2, <1>3
  <2> QED BY <2>1 DEF Page
<1>4. CASE op = "update"
  <2>1. q = [p EXCEPT !.saving = z]
    BY <1>2, <1>4
  <2> QED BY <1>1, <2>1 DEF Page
<1>5. CASE op = "delete"
  <2>1. q = [p EXCEPT !.deleting = FALSE]
    BY <1>2, <1>5
  <2> QED BY <2>1 DEF Page
<1>6. CASE op = "restore"
  <2>1. q = [p EXCEPT !.restoring = z]
    BY <1>2, <1>6
  <2> QED BY <1>1, <2>1 DEF Page
<1>7. CASE op \in {"syncOne", "toggle", "unregister"}
  <2>1. q = [p EXCEPT !.busy = Null]
    BY <1>2, <1>7
  <2> QED BY <2>1 DEF Page
<1>8. CASE op \notin {"sync", "update", "delete", "restore", "syncOne", "toggle", "unregister"}
  <2>1. q = p
    BY <1>2, <1>8
  <2> QED BY <2>1
<1> QED BY <1>3, <1>4, <1>5, <1>6, <1>7, <1>8

(* The lists of an answer are what is stored, and nobody else writes.      *)
LEMMA AnswersAreCurrent ==
  ASSUME CatalogueParts, ConsoleParts, NEW c \in Calls, call[c].at # "idle",
         ModelsOnly, Alone, ShowsStored
  PROVE  /\ call[c].tab \in Tabs /\ call[c].op # "syncOne" /\ call[c].op # "register"
         /\ \A d \in Calls : d # c => call[d].at = "idle"
         /\ call[c].at = "answer" => call[c].rows = catalogue /\ call[c].gone = removed
         /\ \A t \in Tabs : Tabs = {t} /\ ~page[t].missed =>
              /\ ~call[c].wrote => page[t].rows = catalogue
              /\ ~call[c].wrote \/ call[c].op = "update" => page[t].gone = removed
<1>1. Stage(call[c]) /\ Current(call[c])
  BY DEF ConsoleParts, ShowsStored
<1>2. \A d \in Calls : d # c => call[d].at = "idle"
  BY DEF Alone, UnderWay
<1>3. \A d \in Calls : call[d].wrote => d = c
  BY <1>2 DEF ConsoleParts, Stage, Early
<1> QED BY <1>1, <1>2, <1>3 DEF Stage, Current, ModelsOnly, ShowsStored

(* The page after an answer to one of its requests.                        *)
LEMMA AnswerPage ==
  ASSUME CatalogueParts, ConsoleParts, NEW c \in Calls, Answer(c)
  PROVE  /\ call[c] \in Call /\ Stage(call[c]) /\ call[c].at = "answer" /\ End(c)
         /\ PageTyped' /\ page \in [Tabs -> Page]
         /\ \A u \in Tabs : u # call[c].tab => page'[u] = page[u]
         /\ \A u \in Tabs : u = call[c].tab =>
              /\ page'[u].rows = call[c].rows
              /\ page'[u].gone = IF call[c].op = "update" THEN page[u].gone ELSE call[c].gone
              /\ page'[u].editing = IF call[c].op = "update" /\ call[c].chain # Untouched
                                      THEN 0 ELSE page[u].editing
              /\ call[c].op = "update" => (page[u].missed => page'[u].missed)
              /\ ~page'[u].dismissed =>
                   ~page[u].dismissed /\ (call[c].op = "update" => SavesOf(u) \ {c} = {})
<1>1. /\ call[c] \in Call /\ Stage(call[c]) /\ call[c].at = "answer" /\ End(c)
      /\ page \in [Tabs -> Page]
  BY InCall DEF ConsoleParts, PageTyped, Answer
<1>2. call[c].rows \in Lists /\ call[c].gone \in Suppressions /\ call[c].tab \in Tabs \union {Null}
  BY <1>1 DEF Call, Stage
<1>3. CASE call[c].tab = Null
  <2>1. page' = page
    BY <1>3 DEF Answer
  <2> QED BY <1>1, <1>3, <2>1, CatalogueAssumption DEF PageTyped, CatalogueAssumption
<1>4. CASE call[c].tab # Null
  <2> DEFINE t == call[c].tab
             op == call[c].op
             others == SavesOf(t) \ {c} # {}
             s == Settled(page[t], op)
             z == 0
             gone == IF op = "update" THEN s.gone ELSE call[c].gone
             editing == IF op = "update" /\ call[c].chain # Untouched THEN z ELSE s.editing
             dismissed == s.dismissed \/ (op = "update" /\ others)
             missed == s.missed /\ op = "update"
             a == [s EXCEPT !.rows = call[c].rows]
             b == [a EXCEPT !.gone = gone]
             h == [b EXCEPT !.missed = missed]
             d == [h EXCEPT !.editing = editing]
             e == [d EXCEPT !.dismissed = dismissed]
  <2>1. t \in Tabs /\ page[t] \in Page
    BY <1>1, <1>2, <1>4
  <2>2. /\ s \in Page /\ s.rows = page[t].rows /\ s.gone = page[t].gone
        /\ s.editing = page[t].editing /\ s.dismissed = page[t].dismissed
        /\ s.missed = page[t].missed
    BY <2>1, SettledKeeps
  <2>3. z \in 0..MaxRows
    BY CatalogueAssumption DEF CatalogueAssumption
  <2>4. gone \in Suppressions /\ editing \in 0..MaxRows /\ dismissed \in BOOLEAN
        /\ missed \in BOOLEAN
    BY <1>2, <2>2, <2>3 DEF Page
  <2>5. page' = [page EXCEPT ![t] = e]
    <3>1. page' = [page EXCEPT ![t] = [s EXCEPT
            !.rows = call[c].rows,
            !.gone = IF op = "update" THEN s.gone ELSE call[c].gone,
            !.missed = s.missed /\ op = "update",
            !.editing = IF op = "update" /\ call[c].chain # Untouched THEN 0 ELSE s.editing,
            !.dismissed = s.dismissed \/ (op = "update" /\ others)]]
      BY <1>4 DEF Answer, Set
    <3> QED BY <3>1
  <2> HIDE DEF s, others, gone, editing, dismissed, missed, z
  <2>6. a \in Page /\ a.rows = call[c].rows /\ a.gone = s.gone
    BY <1>2, <2>2 DEF Page
  <2> HIDE DEF a
  <2>7. b \in Page /\ b.rows = call[c].rows /\ b.gone = gone
    BY <2>4, <2>6 DEF Page
  <2> HIDE DEF b
  <2>h. h \in Page /\ h.rows = call[c].rows /\ h.gone = gone /\ h.missed = missed
    BY <2>4, <2>7 DEF Page
  <2> HIDE DEF h
  <2>8. /\ d \in Page /\ d.rows = call[c].rows /\ d.gone = gone /\ d.editing = editing
        /\ d.missed = missed
    BY <2>4, <2>h DEF Page
  <2> HIDE DEF d
  <2>9. /\ e \in Page /\ e.rows = call[c].rows /\ e.gone = gone /\ e.editing = editing
        /\ e.dismissed = dismissed /\ e.missed = missed
    BY <2>4, <2>8 DEF Page
  <2> HIDE DEF e
  <2>10. /\ page' \in [Tabs -> Page] /\ page'[t] = e
         /\ \A u \in Tabs : u # t => page'[u] = page[u]
    BY <1>1, <2>1, <2>5, <2>9
  <2>11. ~dismissed => ~page[t].dismissed /\ (op = "update" => SavesOf(t) \ {c} = {})
    BY <2>2 DEF dismissed, others
  <2>12. /\ gone = IF op = "update" THEN page[t].gone ELSE call[c].gone
         /\ editing = IF op = "update" /\ call[c].chain # Untouched THEN 0 ELSE page[t].editing
         /\ (op = "update" => (page[t].missed => missed))
    BY <2>2 DEF gone, editing, missed, z
  <2>12a. op = "update" => (page[t].missed => missed)
    BY <2>12
  <2>13. op = "update" => (page[t].missed => page'[t].missed)
    BY <2>9, <2>10, <2>12a
  <2>14. ~page'[t].dismissed => ~page[t].dismissed /\ (op = "update" => SavesOf(t) \ {c} = {})
    BY <2>9, <2>10, <2>11
  <2>15. /\ page'[t].rows = call[c].rows
         /\ page'[t].gone = IF op = "update" THEN page[t].gone ELSE call[c].gone
         /\ page'[t].editing = IF op = "update" /\ call[c].chain # Untouched THEN 0
                               ELSE page[t].editing
    BY <2>9, <2>10, <2>12
  <2> QED BY <1>1, <2>10, <2>13, <2>14, <2>15 DEF PageTyped
<1> QED BY <1>3, <1>4

LEMMA AnswerShows ==
  ASSUME CatalogueParts, ConsoleParts, NEW c \in Calls, Answer(c)
  PROVE  ConsoleParts'
<1>1. \A u \in Tabs : ~page'[u].dismissed =>
        ~page[u].dismissed /\ (page'[u].editing = page[u].editing \/ SavesOf(u) \ {c} = {})
  <2> TAKE u \in Tabs
  <2>1. CASE u = call[c].tab
    BY <2>1, AnswerPage
  <2>2. CASE u # call[c].tab
    BY <2>2, AnswerPage
  <2> QED BY <2>1, <2>2
<1>2. ASSUME ModelsOnly, Alone, ShowsStored, NEW u \in Tabs, Tabs = {u}, ~page'[u].missed
      PROVE  page'[u].rows = catalogue /\ page'[u].gone = removed
  <2>1. /\ call[c].tab = u /\ call[c].rows = catalogue /\ call[c].gone = removed
    BY <1>2, AnswerPage, AnswersAreCurrent
  <2>2. call[c].op = "update" => page[u].gone = removed
    BY <1>2, <2>1, AnswerPage, AnswersAreCurrent
  <2> QED BY <2>1, <2>2, AnswerPage
<1> QED BY <1>1, <1>2, AnswerPage, ConsoleEnds

LEMMA ErrorsShow ==
  ASSUME CatalogueParts, ConsoleParts, NEW c \in Calls, AnswerProviders(c) \/ AnswerError(c)
  PROVE  ConsoleParts'
<1>1. /\ call[c] \in Call /\ Stage(call[c]) /\ call[c].at \in {"providers", "failed", "lost"} /\ End(c)
      /\ page \in [Tabs -> Page] /\ call[c].tab \in Tabs \union {Null}
      /\ configs \in [Providers -> ConfigRow \union {Null}]
  BY InCall DEF ConsoleParts, PageTyped, AnswerProviders, AnswerError, Call, CatalogueParts,
                CatalogueTyped
<1>2. /\ page' \in [Tabs -> Page]
      /\ \A u \in Tabs : /\ page'[u].rows = page[u].rows /\ page'[u].gone = page[u].gone
                         /\ page'[u].editing = page[u].editing
                         /\ page'[u].dismissed = page[u].dismissed
                         /\ page[u].missed => page'[u].missed
                         /\ u = call[c].tab /\ ~page'[u].missed =>
                              ~call[c].wrote \/ call[c].at = "providers"
  <2>1. CASE call[c].tab = Null
    BY <1>1, <2>1, CatalogueAssumption DEF AnswerProviders, AnswerError, CatalogueAssumption
  <2>2. CASE call[c].tab # Null
    <3> DEFINE t == call[c].tab
               s == Settled(page[t], call[c].op)
               missed == s.missed \/ call[c].wrote
               p == [s EXCEPT !.configs = configs]
               q == [s EXCEPT !.missed = missed]
    <3>1. t \in Tabs /\ page[t] \in Page
      BY <1>1, <2>2
    <3>2. \/ page' = [page EXCEPT ![t] = p] /\ call[c].at = "providers"
          \/ page' = [page EXCEPT ![t] = q]
      BY <2>2 DEF AnswerProviders, AnswerError, Set
    <3>3. /\ s \in Page /\ s.rows = page[t].rows /\ s.gone = page[t].gone
          /\ s.editing = page[t].editing /\ s.dismissed = page[t].dismissed
          /\ s.missed = page[t].missed /\ missed \in BOOLEAN
      BY <3>1, SettledKeeps DEF Page
    <3>4. (page[t].missed => missed) /\ (~missed => ~call[c].wrote)
      BY <3>3
    <3> HIDE DEF s, missed
    <3>5. /\ p \in Page /\ p.rows = page[t].rows /\ p.gone = page[t].gone
          /\ p.editing = page[t].editing /\ p.dismissed = page[t].dismissed
          /\ p.missed = page[t].missed
      BY <1>1, <3>3 DEF Page
    <3>6. /\ q \in Page /\ q.rows = page[t].rows /\ q.gone = page[t].gone
          /\ q.editing = page[t].editing /\ q.dismissed = page[t].dismissed
          /\ q.missed = missed
      BY <3>3 DEF Page
    <3> HIDE DEF p, q
    <3>7. CASE page' = [page EXCEPT ![t] = p] /\ call[c].at = "providers"
      <4> HIDE DEF t
      <4> QED BY <1>1, <3>1, <3>5, <3>7
    <3>8. CASE page' = [page EXCEPT ![t] = q]
      BY <1>1, <3>1, <3>4, <3>6, <3>8
    <3> QED BY <3>2, <3>7, <3>8
  <2> QED BY <2>1, <2>2
<1>3. call[c].at = "providers" /\ ModelsOnly => ~call[c].wrote
  BY <1>1 DEF Stage, Stands, ModelsOnly
<1>4. ASSUME ModelsOnly, Alone, ShowsStored, NEW t \in Tabs, Tabs = {t}, ~page'[t].missed
      PROVE  page'[t].rows = catalogue /\ page'[t].gone = removed
  <2>1. call[c].tab = t /\ ~page[t].missed
    BY <1>1, <1>2, <1>4, AnswersAreCurrent
  <2>2. ~call[c].wrote
    BY <1>2, <1>3, <1>4, <2>1
  <2> QED BY <1>1, <1>2, <1>4, <2>1, <2>2, AnswersAreCurrent
<1> QED BY <1>1, <1>2, <1>4, ConsoleEnds DEF PageTyped

LEMMA ListedShows ==
  ASSUME CatalogueParts, ConsoleParts, NEW c \in Calls, Listed(c)
  PROVE  ConsoleParts'
<1> DEFINE at == IF call[c].op = "syncOne" THEN "providers" ELSE "answer"
           r == [call[c] EXCEPT !.at = at]
<1>1. /\ call[c] \in Call /\ call \in [Calls -> Call] /\ Stage(call[c]) /\ call[c].at = "list"
      /\ call[c].rows # Null /\ call[c].gone # Null
  BY InCall DEF ConsoleParts, CatalogueParts, CatalogueTyped, Listed, Scanned
<1>2. /\ call' = [call EXCEPT ![c] = r]
      /\ UNCHANGED <<catalogue, removed, page, menu, overlapped>>
  BY DEF Listed, Goto, tables
<1>3. at \in {"providers", "answer"} /\ (at = "providers" => call[c].op = "syncOne")
  OBVIOUS
<1> HIDE DEF at
<1>4. /\ Continues(r, c) /\ r.at = at /\ r.rows = call[c].rows /\ r.gone = call[c].gone
      /\ r.wrote = call[c].wrote
  BY <1>1, <1>3 DEF Call, Continues
<1> HIDE DEF r
<1>5. Stage(r)
  BY <1>1, <1>3, <1>4 DEF Stage, Continues, Stands, Early
<1>6. call'[c] = r
  BY <1>1, <1>2
<1>7. ModelsOnly /\ Alone /\ ShowsStored => Current(call[c])'
  <2> SUFFICES ASSUME ShowsStored
               PROVE  Current(call[c])'
    OBVIOUS
  <2>1. Current(call[c])
    BY DEF ShowsStored
  <2> QED BY <1>1, <1>2, <1>3, <1>4, <1>6, <2>1 DEF Current, Continues
<1>8. r.at # "idle" /\ call[c].at # "idle"
  BY <1>1, <1>3, <1>4
<1> QED BY <1>2, <1>4, <1>5, <1>7, <1>8, ConsoleServes

-----------------------------------------------------------------------------
(* What an operator does without a request.                                *)

LEMMA ReloadShows ==
  ASSUME CatalogueParts, ConsoleParts, NEW t \in Tabs, Reload(t)
  PROVE  ConsoleParts'
<1>1. /\ "visit" \in menu /\ page' = [page EXCEPT ![t] = Fresh] /\ page \in [Tabs -> Page]
      /\ menu' = menu /\ call \in [Calls -> Call]
      /\ call' = [c \in Calls |-> IF call[c].tab = t THEN [call[c] EXCEPT !.tab = Null] ELSE call[c]]
  BY DEF Reload, Set, ConsoleParts, PageTyped, CatalogueParts, CatalogueTyped
<1>2. ASSUME NEW c \in Calls
      PROVE  /\ call'[c].op = call[c].op /\ call'[c].at = call[c].at /\ call'[c].id = call[c].id
             /\ call'[c].chain = call[c].chain /\ call'[c].rows = call[c].rows
             /\ call'[c].gone = call[c].gone /\ call'[c].wrote = call[c].wrote
             /\ call'[c].tab = IF call[c].tab = t THEN Null ELSE call[c].tab
  BY <1>1 DEF Call
<1>3. Fresh \in Page
  <2> DEFINE z == 0
  <2>1. z \in 0..MaxRows
    BY CatalogueAssumption DEF CatalogueAssumption
  <2>2. /\ catalogue \in Lists /\ removed \in Suppressions
        /\ configs \in [Providers -> ConfigRow \union {Null}]
    BY DEF CatalogueParts, CatalogueTyped
  <2>3. Fresh = [rows |-> catalogue, gone |-> removed, configs |-> configs, editing |-> z,
                 saving |-> z, deleting |-> FALSE, restoring |-> z, syncing |-> FALSE,
                 busy |-> Null, dismissed |-> FALSE, missed |-> FALSE]
    BY DEF Fresh
  <2> HIDE DEF z
  <2> QED BY <2>1, <2>2, <2>3 DEF Page
<1>4. PageTyped'
  BY <1>1, <1>3 DEF PageTyped
<1>5. \A c \in Calls : Stage(call[c])'
  BY <1>1, <1>2 DEF ConsoleParts, Stage
<1>6. DraftsWait'
  <2> SUFFICES ASSUME NEW u \in Tabs, ~page'[u].dismissed, NEW c \in Calls, Drafts(call'[c], u)
               PROVE  call'[c].id = page'[u].editing /\ call'[c].id # 0
    BY DEF DraftsWait
  <2>1. call[c].tab = u /\ u # t
    BY <1>2, CatalogueAssumption DEF Drafts, CatalogueAssumption
  <2>2. page'[u] = page[u]
    BY <1>1, <2>1
  <2> QED BY <1>2, <2>1, <2>2 DEF ConsoleParts, DraftsWait, Drafts
<1>7. ~ModelsOnly'
  BY <1>1 DEF ModelsOnly
<1> QED BY <1>4, <1>5, <1>6, <1>7 DEF ConsoleParts

LEMMA EditorShows ==
  ASSUME CatalogueParts, ConsoleParts, NEW t \in Tabs,
         CloseEditor(t) \/ \E m \in Models : OpenEditor(t, m)
  PROVE  ConsoleParts'
<1>1. /\ page \in [Tabs -> Page] /\ page[t] \in Page
      /\ UNCHANGED <<catalogue, removed, call, overlapped, menu>>
  BY RowIds DEF CloseEditor, OpenEditor, catalogueVars, tables
<1>2. /\ page' \in [Tabs -> Page]
      /\ \A u \in Tabs : /\ page'[u].rows = page[u].rows /\ page'[u].gone = page[u].gone
                         /\ page'[u].missed = page[u].missed
                         /\ u # t => page'[u] = page[u]
      /\ ~page'[t].dismissed =>
           ~page[t].dismissed /\ \A c \in Calls : ~Drafts(call[c], t)
  <2>1. CASE CloseEditor(t)
    <3> DEFINE z == 0
               saves == SavesOf(t) # {}
               a == [page[t] EXCEPT !.editing = z]
               p == [a EXCEPT !.dismissed = page[t].dismissed \/ saves]
    <3>1. page' = [page EXCEPT ![t] = p]
      <4>1. page' = [page EXCEPT ![t] = [page[t] EXCEPT !.editing = 0,
                                           !.dismissed = page[t].dismissed \/ SavesOf(t) # {}]]
        BY <2>1 DEF CloseEditor, Set
      <4> QED BY <4>1
    <3>2. z \in 0..MaxRows
      BY CatalogueAssumption DEF CatalogueAssumption
    <3>3. saves \in BOOLEAN
      OBVIOUS
    <3>4. ~saves => \A c \in Calls : ~Drafts(call[c], t)
      BY DEF SavesOf, UnderWay, Drafts
    <3> HIDE DEF z, saves
    <3>5. /\ a \in Page /\ a.rows = page[t].rows /\ a.gone = page[t].gone
          /\ a.dismissed = page[t].dismissed /\ a.missed = page[t].missed
      BY <1>1, <3>2 DEF Page
    <3> HIDE DEF a
    <3>6. /\ p \in Page /\ p.rows = page[t].rows /\ p.gone = page[t].gone
          /\ p.dismissed = (page[t].dismissed \/ saves) /\ p.missed = page[t].missed
      BY <1>1, <3>3, <3>5 DEF Page
    <3> HIDE DEF p
    <3> QED BY <1>1, <3>1, <3>4, <3>6
  <2>2. CASE \E m \in Models : OpenEditor(t, m)
    <3> PICK m \in Models : OpenEditor(t, m)
      BY <2>2
    <3> DEFINE id == RowOf(t, m)
               p == [page[t] EXCEPT !.editing = id]
    <3>1. page' = [page EXCEPT ![t] = p] /\ page[t].editing = 0 /\ Shown(t, m)
      BY DEF OpenEditor, Set
    <3>2. id \in 0..MaxRows
      BY <3>1, RowIds
    <3> HIDE DEF id
    <3>3. /\ p \in Page /\ p.rows = page[t].rows /\ p.gone = page[t].gone
          /\ p.dismissed = page[t].dismissed /\ p.missed = page[t].missed
      BY <1>1, <3>2 DEF Page
    <3> HIDE DEF p
    <3>4. ~page[t].dismissed => \A c \in Calls : ~Drafts(call[c], t)
      BY <3>1 DEF ConsoleParts, DraftsWait
    <3> QED BY <1>1, <3>1, <3>3, <3>4
  <2> QED BY <2>1, <2>2
<1>3. \A c \in Calls : Stage(call[c])'
  BY <1>1 DEF ConsoleParts, Stage
<1>4. DraftsWait'
  BY <1>1, <1>2 DEF ConsoleParts, DraftsWait, Drafts
<1>5. ModelsOnly /\ ~overlapped => ShowsStored'
  <2> SUFFICES ASSUME ModelsOnly, ~overlapped
               PROVE  ShowsStored'
    OBVIOUS
  <2>1. ShowsStored
    BY DEF ConsoleParts
  <2>2. \A c \in Calls : Current(call[c])'
    BY <1>1, <2>1 DEF ShowsStored, Current, Exists
  <2> QED BY <1>1, <1>2, <2>1, <2>2 DEF ShowsStored
<1> QED BY <1>1, <1>2, <1>3, <1>4, <1>5 DEF ConsoleParts, ModelsOnly, PageTyped

LEMMA ConsoleRests ==
  ASSUME CatalogueParts, ConsoleParts, UNCHANGED <<catalogue, removed, call, overlapped, menu, page>>
  PROVE  ConsoleParts'
<1>1. UNCHANGED <<catalogue, removed, call, overlapped, menu, page>>
  OBVIOUS
<1>2. \A c \in Calls : Stage(call[c])' /\ (Current(call[c]) => Current(call[c])')
  BY <1>1 DEF ConsoleParts, Stage, Current, Exists
<1>3. DraftsWait' /\ PageTyped'
  BY <1>1 DEF ConsoleParts, DraftsWait, Drafts, PageTyped
<1>4. ShowsStored => ShowsStored'
  BY <1>1, <1>2 DEF ShowsStored
<1> QED BY <1>1, <1>2, <1>3, <1>4 DEF ConsoleParts, ModelsOnly

-----------------------------------------------------------------------------
(* The console from its first state on.                                    *)

LEMMA ConsoleMoves ==
  ASSUME CatalogueParts, ConsoleParts, ConsoleNext
  PROVE  ConsoleParts'
<1>1. CASE ServeNext /\ UNCHANGED page
  <2>1. CASE Rebuild
    BY <1>1, <2>1, ConsoleRests DEF Rebuild
  <2>2. CASE ~Rebuild
    BY <1>1, <2>2, ConsoleNextProvider, ConsoleEndSync, ConsoleReads, ConsoleSyncs, ConsoleAdds,
       ConsoleWrites, ConsoleProvides, ConsoleLoses DEF ServeNext
  <2> QED BY <2>1, <2>2
<1>2. ASSUME NEW t \in Tabs, Reload(t) \/ CloseEditor(t) \/ \E m \in Models : OpenEditor(t, m)
      PROVE  ConsoleParts'
  BY <1>2, ReloadShows, EditorShows
<1>3. ASSUME NEW t \in Tabs, NEW c \in Calls,
             \/ ClickSync(c, t)
             \/ \E m \in Models :
                  \/ \E p \in Providers, chain \in SUBSET Models : ClickCreate(c, t, m, p, chain)
                  \/ \E chain \in {Untouched} \union SUBSET Models : ClickSave(c, t, m, chain)
                  \/ ClickDelete(c, t, m) \/ ClickRestore(c, t, m)
             \/ \E p \in Providers : \/ ClickSyncOne(c, t, p) \/ ClickAdd(c, t, p)
                                     \/ ClickToggle(c, t, p) \/ ClickRemove(c, t, p)
      PROVE  ConsoleParts'
  <2>1. CASE ClickSync(c, t) \/ \E p \in Providers : ClickSyncOne(c, t, p)
    BY <2>1, ConsoleSyncBegins
  <2>2. ASSUME NEW m \in Models, NEW p \in Providers, NEW chain \in SUBSET Models,
               ClickCreate(c, t, m, p, chain)
        PROVE  ConsoleParts'
    BY <2>2, ConsoleCreateBegins
  <2>3. ASSUME NEW m \in Models, NEW chain \in {Untouched} \union SUBSET Models,
               ClickSave(c, t, m, chain)
        PROVE  ConsoleParts'
    BY <2>3, ConsoleSaveBegins
  <2>4. ASSUME NEW m \in Models, ClickDelete(c, t, m) \/ ClickRestore(c, t, m)
        PROVE  ConsoleParts'
    BY <2>4, ConsoleRowBegins
  <2>5. ASSUME NEW p \in Providers, ClickAdd(c, t, p) \/ ClickToggle(c, t, p) \/ ClickRemove(c, t, p)
        PROVE  ConsoleParts'
    BY <2>5, ConsoleProviderBegins
  <2> QED BY <1>3, <2>1, <2>2, <2>3, <2>4, <2>5
<1>4. ASSUME NEW c \in Calls, Listed(c) \/ Answer(c) \/ AnswerProviders(c) \/ AnswerError(c)
      PROVE  ConsoleParts'
  BY <1>4, ListedShows, AnswerShows, ErrorsShow
<1> QED BY <1>1, <1>2, <1>3, <1>4 DEF ConsoleNext

LEMMA ConsoleOpens == Init => ConsoleInv
<1> SUFFICES ASSUME Init, part = "catalogue"
             PROVE  ConsoleParts
  BY DEF ConsoleInv
<1>1. ConsoleInit /\ CatalogueParts
  BY CatalogueBegins DEF Init, CatalogueInv
<1>2. /\ page = [t \in Tabs |-> Fresh] /\ \A c \in Calls : call[c] = Idle
      /\ Idle.at = "idle" /\ Idle.op = "none" /\ ~Idle.wrote
  BY <1>1, IdleIsTyped DEF ConsoleInit, CatalogueInit
<1>3. Fresh \in Page /\ Fresh.rows = catalogue /\ Fresh.gone = removed
  <2> DEFINE z == 0
  <2>1. z \in 0..MaxRows
    BY CatalogueAssumption DEF CatalogueAssumption
  <2>2. /\ catalogue \in Lists /\ removed \in Suppressions
        /\ configs \in [Providers -> ConfigRow \union {Null}]
    BY <1>1 DEF CatalogueParts, CatalogueTyped
  <2>3. Fresh = [rows |-> catalogue, gone |-> removed, configs |-> configs, editing |-> z,
                 saving |-> z, deleting |-> FALSE, restoring |-> z, syncing |-> FALSE,
                 busy |-> Null, dismissed |-> FALSE, missed |-> FALSE]
    BY DEF Fresh
  <2> HIDE DEF z
  <2> QED BY <2>1, <2>2, <2>3 DEF Page
<1>4. PageTyped /\ \A c \in Calls : Stage(call[c])
  BY <1>2, <1>3 DEF PageTyped, Stage, Stands
<1>5. DraftsWait
  BY <1>2 DEF DraftsWait, Drafts
<1>6. ShowsStored
  BY <1>2, <1>3 DEF ShowsStored, Current
<1> QED BY <1>4, <1>5, <1>6 DEF ConsoleParts

LEMMA ConsoleStep == CatalogueInv /\ ConsoleInv /\ [Next]_vars => ConsoleInv'
<1> SUFFICES ASSUME CatalogueInv, ConsoleInv, [Next]_vars, part = "catalogue"
             PROVE  ConsoleParts'
  BY DEF Next, vars, ConsoleInv
<1>1. CatalogueParts /\ ConsoleParts
  BY DEF CatalogueInv, ConsoleInv
<1>2. CASE Next
  BY <1>1, <1>2, ConsoleMoves DEF Next
<1>3. CASE UNCHANGED vars
  BY <1>1, <1>3, ConsoleRests DEF vars, consoleVars
<1> QED BY <1>2, <1>3

-----------------------------------------------------------------------------
(* What the pages of the console promise.                                  *)

(* Where every request of the console stands, which of them may close the  *)
(* editor, what a page knows of the stored rows when its operator is       *)
(* alone, and when it has missed what a request of its own had written,    *)
(* holds in every reachable state.                                         *)
THEOREM ConsoleInvariance == Spec => []ConsoleInv
BY ConsoleOpens, ConsoleStep, CatalogueInvariance, PTL DEF Spec

LEMMA ConsoleAtRest == ConsoleInv => ConsoleShowsStoredRows
<1> SUFFICES ASSUME ConsoleInv, part = "catalogue", NEW t \in Tabs,
                    ~overlapped, UnderWay = {}, Tabs = {t},
                    menu \intersect {"visit", "syncOne", "register"} = {},
                    ~page[t].missed
             PROVE  page[t].rows = catalogue /\ page[t].gone = removed
  BY DEF ConsoleShowsStoredRows
<1>1. ShowsStored
  BY DEF ConsoleInv, ConsoleParts, ModelsOnly
<1>2. \A c \in Calls : ~call[c].wrote
  BY DEF UnderWay, ConsoleInv, ConsoleParts, Stage, Early
<1> QED BY <1>1, <1>2 DEF ShowsStored

(* Every table answers what its controls say, up to the loads nobody can   *)
(* abort, and the console of an operator who is alone shows the stored     *)
(* rows, unless a request that wrote them has ended without its answer.    *)
THEOREM TablesAreTruthful == Spec => []TablesTellTheTruth
<1>1. ConsoleInv /\ (part = "tables" => Table!TablesTellTheTruth) => TablesTellTheTruth
  BY ConsoleAtRest DEF TablesTellTheTruth
<1> QED BY <1>1, ConsoleInvariance, TablesAnswerTheirControls, PTL

-----------------------------------------------------------------------------
(* Dialogs.                                                                *)

(* A click begins a request where none was.                                *)
LEMMA ClicksBegin ==
  ASSUME CatalogueParts, NEW t \in Tabs, Clicked(t), NEW c \in Calls, call[c].at # "idle"
  PROVE  call'[c] = call[c]
<1>1. \E d \in Calls : call[d].at = "idle" /\ \E r : call' = [call EXCEPT ![d] = r]
  <2> PICK d \in Calls :
        \/ ClickSync(d, t)
        \/ \E m \in Models :
             \/ \E p \in Providers, chain \in SUBSET Models : ClickCreate(d, t, m, p, chain)
             \/ \E chain \in {Untouched} \union SUBSET Models : ClickSave(d, t, m, chain)
             \/ ClickDelete(d, t, m) \/ ClickRestore(d, t, m)
        \/ \E p \in Providers : \/ ClickSyncOne(d, t, p) \/ ClickAdd(d, t, p)
                                \/ ClickToggle(d, t, p) \/ ClickRemove(d, t, p)
    BY DEF Clicked
  <2>1. \E what, where, locals : Start(d, what, where, locals)
    BY DEF ClickSync, ClickCreate, ClickSave, ClickDelete, ClickRestore, ClickSyncOne, ClickAdd,
           ClickToggle, ClickRemove, Sync, CreateManual, Update, DeleteModel, Restore, AddProvider,
           ToggleProvider, DropProvider
  <2> QED BY <2>1 DEF Start
<1> QED BY <1>1 DEF CatalogueParts, CatalogueTyped

LEMMA DraftsClose ==
  ASSUME CatalogueParts, ConsoleParts, ConsoleNext, NEW t \in Tabs, NEW c \in Calls,
         page[t].editing # 0, page'[t].editing = 0, call[c].at = "answer", call'[c].at = "idle",
         ~page[t].dismissed
  PROVE  call[c].id = page[t].editing
<1>1. call \in [Calls -> Call]
  BY DEF CatalogueParts, CatalogueTyped
<1>2. page' # page /\ call'[c] # call[c]
  OBVIOUS
<1>3. ASSUME NEW u \in Tabs, Reload(u)
      PROVE  FALSE
  BY <1>1, <1>3 DEF Reload, Call
<1>4. ASSUME NEW u \in Tabs, CloseEditor(u) \/ \E m \in Models : OpenEditor(u, m)
      PROVE  FALSE
  BY <1>2, <1>4 DEF CloseEditor, OpenEditor, catalogueVars, tables
<1>5. ASSUME NEW u \in Tabs, Clicked(u)
      PROVE  FALSE
  BY <1>2, <1>5, ClicksBegin
<1>6. ASSUME NEW d \in Calls, Listed(d)
      PROVE  FALSE
  BY <1>2, <1>6 DEF Listed
<1>7. ASSUME NEW d \in Calls, Answer(d) \/ AnswerProviders(d) \/ AnswerError(d)
      PROVE  Answer(c)
  <2>1. d = c
    BY <1>1, <1>2, <1>7 DEF Answer, AnswerProviders, AnswerError, End
  <2> QED BY <1>7, <2>1 DEF AnswerProviders, AnswerError
<1>8. Answer(c)
  BY <1>2, <1>3, <1>4, <1>5, <1>6, <1>7 DEF ConsoleNext, Clicked
<1>9. t = call[c].tab /\ call[c].op = "update" /\ call[c].chain # Untouched
  BY <1>8, AnswerPage
<1> QED BY <1>9 DEF ConsoleParts, DraftsWait, Drafts

(* The requests of a page that has thrown end nowhere.                     *)
LEMMA TasksEnd ==
  ASSUME Table!TablesNext, tasks' # tasks
  PROVE  ~list.crashed
<1>1. ASSUME NEW l \in Calls,
             \/ Table!LoadAborted(l) \/ Table!LoadAnswers(l) \/ Table!LoadFails(l) \/ Table!Retry(l)
      PROVE  FALSE
  BY <1>1 DEF Table!LoadAborted, Table!LoadAnswers, Table!LoadFails, Table!Retry
<1>2. ASSUME NEW value, Table!Patch(value)
      PROVE  FALSE
  BY <1>2 DEF Table!Patch
<1>3. CASE Table!TypeSearch \/ Table!DebounceFires \/ Table!ToggleSort \/ Table!Reset
  BY <1>3 DEF Table!TypeSearch, Table!DebounceFires, Table!ToggleSort, Table!Reset
<1>4. ASSUME NEW step, Table!Turn(step)
      PROVE  FALSE
  BY <1>4 DEF Table!Turn
<1>5. ASSUME NEW r, NEW t, Table!OpenDetail(r, t)
      PROVE  ~list.crashed
  BY <1>5 DEF Table!OpenDetail, Table!AtHand, Table!Can
<1>6. ASSUME NEW t, \/ Table!DetailArrives(t) \/ Table!DetailFails(t)
                    \/ Table!Confirm(t) \/ Table!TaskServed(t) \/ Table!TaskRefused(t)
      PROVE  ~list.crashed
  BY <1>6 DEF Table!DetailArrives, Table!DetailFails, Table!Confirm, Table!TaskServed,
                 Table!TaskRefused, Table!Can
<1>7. ASSUME NEW r, NEW kind, Table!OpenDialog(r, kind)
      PROVE  FALSE
  BY <1>7 DEF Table!OpenDialog
<1>8. CASE Table!CloseDialog
  BY <1>8 DEF Table!CloseDialog
<1>9. ASSUME NEW t, NEW l, Table!TaskDone(t, l)
      PROVE  ~list.crashed
  BY <1>9 DEF Table!TaskDone, Table!Can
<1>10. ASSUME NEW r, Table!Elsewhere(r) \/ Table!Expand(r)
       PROVE  FALSE
  BY <1>10 DEF Table!Elsewhere, Table!Expand
<1> QED BY <1>1, <1>2, <1>3, <1>4, <1>5, <1>6, <1>7, <1>8, <1>9, <1>10 DEF Table!TablesNext

LEMMA TableDialogsClose ==
  ASSUME TableParts, Table!TablesNext
  PROVE  Table!DialogClosedByItsOwn
<1> SUFFICES ASSUME NEW t \in Calls, tasks[t] # Null, tasks'[t] = Null, ~list.dismissed
             PROVE  list.dialog.row = tasks[t].row
  BY DEF Table!DialogClosedByItsOwn
<1>1. ~list.crashed
  BY TasksEnd
<1> QED BY <1>1 DEF TableParts, DialogsWait

LEMMA BoardDialogsClose ==
  ASSUME BoardParts, Board!BoardNext
  PROVE  Board!DialogClosedByItsOwn
<1> SUFFICES ASSUME NEW j \in Calls, jobs[j] # Null, jobs'[j] = Null, board.dialog # Null,
                    board'.dialog = Null, ~board.dismissed
             PROVE  j \in board.dialog.waits
  BY DEF Board!DialogClosedByItsOwn
<1>1. jobs \in [Calls -> Board!Job \union {Null}] /\ board \in Board!Page
  BY BoardFacts DEF BoardParts, BoardTyped
<1>2. board' # board /\ jobs' # jobs
  OBVIOUS
<1>3. ASSUME NEW k \in Calls, NEW request, NEW p, Board!Begin(k, request, p)
      PROVE  FALSE
  BY <1>1, <1>3 DEF Board!Begin
<1>4. ASSUME NEW k \in Calls, NEW p \in Providers,
             \/ Board!ClickTest(k, p) \/ Board!ClickSync(k, p) \/ Board!ClickToggle(k, p)
             \/ \E op \in {"toggle", "delete", "proxy"} : Board!Elsewhere(k, op, p)
      PROVE  FALSE
  BY <1>3, <1>4 DEF Board!ClickTest, Board!ClickSync, Board!ClickToggle, Board!Elsewhere
<1>5. ASSUME NEW k \in Calls, Board!Reread(k) \/ \E pasted \in Board!Pasted : Board!Submit(k, pasted)
      PROVE  FALSE
  BY <1>3, <1>5 DEF Board!Reread, Board!Submit
<1>6. ASSUME NEW p, NEW mode, Board!OpenDialog(p, mode)
      PROVE  FALSE
  BY <1>2, <1>6 DEF Board!OpenDialog
<1>7. CASE Board!Flip \/ Board!CloseDialog
  BY <1>2, <1>7 DEF Board!Flip, Board!CloseDialog
<1>8. ASSUME NEW k \in Calls,
             \/ Board!Resolve(k) \/ Board!Probe(k) \/ Board!ScanModels(k) \/ Board!Find(k)
             \/ Board!Write(k) \/ Board!List(k)
      PROVE  FALSE
  <2>1. CASE Board!Write(k)
    <3>1. CASE Board!Collides(jobs[k])
      BY <1>2, <2>1, <3>1 DEF Board!Write
    <3>2. CASE ~Board!Collides(jobs[k])
      <4> DEFINE behind == board.behind \/ snapshot' # rows'
      <4>1. board' = [board EXCEPT !.behind = behind]
        BY <2>1, <3>2 DEF Board!Write, Board!Invalidate
      <4> HIDE DEF behind
      <4> QED BY <1>1, <4>1 DEF Board!Page
    <3> QED BY <3>1, <3>2
  <2>2. CASE \/ Board!Resolve(k) \/ Board!Probe(k) \/ Board!ScanModels(k) \/ Board!Find(k)
             \/ Board!List(k)
    BY <1>2, <2>2 DEF Board!Resolve, Board!Probe, Board!ScanModels, Board!Find, Board!List
  <2> QED BY <1>8, <2>1, <2>2
<1>9. ASSUME NEW k \in Calls, Board!Refuse(k)
      PROVE  FALSE
  BY <1>1, <1>9 DEF Board!Refuse, Board!Page
<1>10. Board!Left(j) # Null
  <2> DEFINE d == board.dialog
             rest == d.waits \ {j}
             left == [d EXCEPT !.waits = rest]
  <2>1. d \in Board!Dialog
    BY <1>1 DEF Board!Page
  <2>2. rest \subseteq Calls
    BY <2>1 DEF Board!Dialog
  <2>3. Board!Left(j) = left
    BY DEF Board!Left
  <2> HIDE DEF rest
  <2>4. left \in Board!Dialog
    BY <2>1, <2>2 DEF Board!Dialog
  <2> QED BY <2>3, <2>4, BoardAssumption DEF BoardAssumption
<1>11. ASSUME NEW k \in Calls, Board!AnswerError(k)
       PROVE  FALSE
  <2>1. k = j
    BY <1>1, <1>11 DEF Board!AnswerError
  <2>2. board' = [Board!Ended(jobs[j]) EXCEPT !.dialog = Board!Left(j)]
    BY <1>2, <1>11, <2>1 DEF Board!AnswerError
  <2> QED BY <1>1, <1>10, <2>2 DEF Board!Ended, Board!Page
<1>12. ASSUME NEW k \in Calls, Board!Answer(k)
       PROVE  j \in board.dialog.waits
  <2>1. k = j
    BY <1>1, <1>12 DEF Board!Answer
  <2>2. jobs[j].mine /\ board'.dialog = Board!Closed(j)
    BY <1>1, <1>2, <1>12, <2>1 DEF Board!Answer, Board!Ended, Board!Page
  <2>3. board.dialog.mode \in Board!Closes(jobs[j].op)
    BY <1>10, <2>2 DEF Board!Closed
  <2>4. jobs[j].op \in Board!Modes
    BY <2>3 DEF Board!Closes, Board!Modes
  <2> QED BY <2>2, <2>4 DEF BoardParts, OwnDialog, OfDialog
<1>13. CASE Board!Rebuild
  BY <1>2, <1>13 DEF Board!Rebuild
<1> QED BY <1>4, <1>5, <1>6, <1>7, <1>8, <1>9, <1>11, <1>12, <1>13 DEF Board!BoardNext

(* On every page of an operator, whatever overtakes what, an answer closes *)
(* only the dialog that asked for it, unless an earlier one was left with  *)
(* its request under way.                                                  *)
THEOREM DialogsCloseTheirOwn == Spec => DialogsAreClosedByTheirOwn
<1>1. CatalogueInv /\ ConsoleInv /\ TableInv /\ BoardInv /\ [Next]_vars
      => [/\ DraftIsClosedByItsOwnSave
          /\ part = "tables" => Table!DialogClosedByItsOwn
          /\ part = "board" => Board!DialogClosedByItsOwn]_vars
  <2> SUFFICES ASSUME CatalogueInv, ConsoleInv, TableInv, BoardInv, Next
               PROVE  /\ DraftIsClosedByItsOwnSave
                      /\ part = "tables" => Table!DialogClosedByItsOwn
                      /\ part = "board" => Board!DialogClosedByItsOwn
    OBVIOUS
  <2>1. DraftIsClosedByItsOwnSave
    BY DraftsClose DEF DraftIsClosedByItsOwnSave, CatalogueInv, ConsoleInv, Next
  <2>2. part = "tables" => Table!DialogClosedByItsOwn
    BY TableDialogsClose DEF TableInv, Next
  <2>3. part = "board" => Board!DialogClosedByItsOwn
    BY BoardDialogsClose DEF BoardInv, Next
  <2> QED BY <2>1, <2>2, <2>3
<1> QED BY <1>1, CatalogueInvariance, ConsoleInvariance, TableInvariance, BoardInvariance, PTL
        DEF Spec, DialogsAreClosedByTheirOwn
=============================================================================
