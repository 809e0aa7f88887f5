---------------------------- MODULE Board_proofs ----------------------------
(***************************************************************************)
(* Theorems about two pages beside the console, for any rows and requests: *)
(* the board of providers and the dashboard.                               *)
(*                                                                         *)
(* What the board, a dialog or a request knows of a row is dated by the    *)
(* row's version, and what was read of a row is as old as the version it   *)
(* is stamped with.                                                        *)
(*                                                                         *)
(* The dashboard's invariant says what a scan has kept of the log: every   *)
(* row of the window whose day was over when the page was opened.  The     *)
(* rest is arithmetic of one answer.  A date of the window has a last      *)
(* bucket, which has all its rows, so the buckets of a window cut its rows *)
(* into parts without a row in common, and the sums of their sizes count   *)
(* each row once; where every day of the window is 24 hours long, the      *)
(* steps of the window are midnights, and its dates the days before.       *)
(***************************************************************************)
EXTENDS CatalogueMC, SequenceTheorems, FiniteSetTheorems, WellFoundedInduction, TLAPS

-----------------------------------------------------------------------------
(* The inductive invariant of the board of providers.                      *)

BoardTyped ==
  /\ rows \in Board!Listing /\ snapshot \in Board!Listing /\ ids \in Nat
  /\ jobs \in [Calls -> Board!Job \union {Null}]
  /\ board \in Board!Page

(* Where a request can be.                                                 *)
Placed(job) ==
  /\ job.op = "test" => job.at \in {"resolve", "probe", "answer", "failed"}
  /\ job.at = "probe" => job.op = "test"
  /\ job.at = "resolve" => job.op \in {"test", "proxy"}
  /\ job.at = "answer" /\ job.op # "test" => job.list # Null

(* What was read of a row is as old as the version it is stamped with; a   *)
(* card with id 0 stands for none.                                         *)
Remembers(rs, n, p, row) ==
  row # Null /\ row.id # 0 =>
    /\ row.id <= n
    /\ \A q \in Providers : q # p /\ rs[q] # Null => rs[q].id # row.id
    /\ rs[p] # Null /\ rs[p].id = row.id =>
         /\ row.version <= rs[p].version
         /\ row.version = rs[p].version => row.enabled = rs[p].enabled

(* An edit is of a row its operator was shown.                             *)
Edits(rs, n, job) ==
  /\ job.id # 0
  /\ \E row \in Board!Row :
       /\ row.id = job.id /\ row.version = job.seen
       /\ job.touched \/ job.enabled = row.enabled
       /\ Remembers(rs, n, job.slug, row)
  /\ job.at = "write" => job.found # Null /\ job.found.id = job.id

Remembering(rs, n, d) ==
  /\ Remembers(rs, n, d.slug, d.row)
  /\ d.mode = "edit" => d.row # Null /\ (d.flipped <=> d.enabled # d.row.enabled)

(* As long as the registry has missed no write, what the page and its      *)
(* requests hold was read of the rows.                                     *)
BoardRemembers ==
  /\ \A p \in Providers : Remembers(rows, ids, p, rows[p])
  /\ \A j \in Calls : jobs[j] # Null => Placed(jobs[j])
  /\ ~board.behind =>
       /\ snapshot = rows
       /\ \A p \in Providers : Remembers(rows, ids, p, board.list[p])
       /\ board.dialog # Null => Remembering(rows, ids, board.dialog)
       /\ \A j \in Calls : jobs[j] # Null =>
            /\ jobs[j].list # Null => \A p \in Providers : Remembers(rows, ids, p, jobs[j].list[p])
            /\ jobs[j].op = "edit" => Edits(rows, ids, jobs[j])

(* Proxies are saved for a slug that had a row, or is compiled in.         *)
Annotates(rs, job) ==
  job.op = "proxy" /\ job.slug \in Custom =>
    /\ job.at = "find" /\ job.known => rs[job.slug] # Null
    /\ job.at = "write" => job.found # Null

NotRaced ==
  ~board.raced /\ ~board.behind =>
    /\ \A i, k \in Calls : ~(/\ jobs[i] # Null /\ jobs[i].op = "delete"
                             /\ jobs[k] # Null /\ jobs[k].op = "proxy")
    /\ \A j \in Calls : jobs[j] # Null => Annotates(rows, jobs[j])
    /\ \A p \in Custom : rows[p] # Null => rows[p].custom

(* What a card should say, and a listing whose cards say it.               *)
CardOf(rs, p) ==
  CASE rs[p] # Null -> [rs[p] EXCEPT !.custom = p \notin Providers \ Custom,
                                     !.proxies = @ /\ (rs[p].custom => rs[p].enabled)]
    [] rs[p] = Null /\ p \in Providers \ Custom ->
         [id |-> 0, custom |-> FALSE, enabled |-> TRUE, proxies |-> FALSE, version |-> 0]
    [] OTHER -> Null

Shows(rs, listing) ==
  \A p \in Providers : p \notin Custom \/ rs[p] = Null \/ rs[p].custom => listing[p] = CardOf(rs, p)

(* What the only request under way leaves the page and the rows with.      *)
LeavesShown(rs, job, listing) ==
  /\ job.mine
  /\ job.at \notin {"list", "answer"} \/ job.op = "test" => Shows(rs, listing)
  /\ job.at = "answer" /\ job.op # "test" => Shows(rs, job.list)

BoardAlone ==
  board.alone /\ ~board.behind =>
    /\ \A i, k \in Calls : jobs[i] # Null /\ jobs[k] # Null => i = k
    /\ \A j \in Calls : jobs[j] # Null => LeavesShown(rows, jobs[j], board.list)
    /\ (\A j \in Calls : jobs[j] = Null) => Shows(rows, board.list)

Spins(j) == jobs[j] # Null /\ jobs[j].mine /\ jobs[j].op \notin {"create", "reread"}

OneSpins ==
  ~board.crossed =>
    /\ \A i, k \in Calls : Spins(i) /\ Spins(k) => i = k
    /\ \A j \in Calls : Spins(j) =>
         /\ board.busy = [slug |-> jobs[j].slug, op |-> jobs[j].op]
         /\ /\ board.dialog # Null /\ board.dialog.mode # "create"
            /\ board.dialog.slug = jobs[j].slug
            => jobs[j].op = board.dialog.mode /\ j \in board.dialog.waits

OfDialog(j) == jobs[j] # Null /\ jobs[j].mine /\ jobs[j].op \in Board!Modes

OwnDialog ==
  ~board.dismissed =>
    \A j \in Calls : OfDialog(j) => board.dialog # Null /\ j \in board.dialog.waits

BoardParts == BoardTyped /\ BoardRemembers /\ NotRaced /\ BoardAlone /\ OneSpins /\ OwnDialog

BoardInv == part = "board" => BoardParts

LEMMA BoardFacts ==
  ASSUME BoardTyped
  PROVE  /\ rows \in Board!Listing /\ snapshot \in Board!Listing /\ ids \in Nat
         /\ board \in Board!Page /\ board.behind \in BOOLEAN
         /\ board.list \in Board!Listing /\ board.dialog \in Board!Dialog \union {Null}
         /\ board.busy \in Board!Button \union {Null} /\ board.moves \in Nat
         /\ board.loading \in BOOLEAN /\ board.alone \in BOOLEAN /\ board.crossed \in BOOLEAN
         /\ board.dismissed \in BOOLEAN /\ board.raced \in BOOLEAN
         /\ \A p \in Providers : /\ rows[p] \in Board!Row \union {Null}
                                 /\ board.list[p] \in Board!Row \union {Null}
         /\ \A j \in Calls : jobs[j] # Null => jobs[j] \in Board!Job
         /\ board.dialog # Null => board.dialog \in Board!Dialog
<1>1. /\ rows \in Board!Listing /\ snapshot \in Board!Listing /\ ids \in Nat
      /\ board \in Board!Page
      /\ \A j \in Calls : jobs[j] # Null => jobs[j] \in Board!Job
  BY DEF BoardTyped
<1>2. /\ board.list \in Board!Listing /\ board.dialog \in Board!Dialog \union {Null}
      /\ board.busy \in Board!Button \union {Null} /\ board.moves \in Nat
      /\ board.loading \in BOOLEAN /\ board.alone \in BOOLEAN /\ board.crossed \in BOOLEAN
      /\ board.dismissed \in BOOLEAN /\ board.raced \in BOOLEAN /\ board.behind \in BOOLEAN
  BY <1>1 DEF Board!Page
<1>3. \A p \in Providers : /\ rows[p] \in Board!Row \union {Null}
                           /\ board.list[p] \in Board!Row \union {Null}
  BY <1>1, <1>2 DEF Board!Listing
<1> QED BY <1>1, <1>2, <1>3

(* What was read is as true after a write as before it.                    *)
LEMMA BoardRowsAge ==
  ASSUME rows \in Board!Listing, ids \in Nat, NEW n \in Nat, NEW q \in Providers,
         NEW new \in Board!Row \union {Null}, NEW rs, rs = [rows EXCEPT ![q] = new],
         \/ new = Null /\ n = ids
         \/ new # Null /\ new.id = ids + 1 /\ n = ids + 1
         \/ /\ rows[q] # Null /\ new # Null /\ new.id = rows[q].id
            /\ new.version = rows[q].version + 1 /\ n = ids
  PROVE  /\ \A p \in Providers, s \in Board!Row \union {Null} :
              Remembers(rows, ids, p, s) => Remembers(rs, n, p, s)
         /\ (\A p \in Providers : Remembers(rows, ids, p, rows[p])) =>
              \A p \in Providers : Remembers(rs, n, p, rs[p])
<1>1. \A p \in Providers : rs[p] = IF p = q THEN new ELSE rows[p]
  BY DEF Board!Listing
<1>2. \A p \in Providers : rows[p] # Null => /\ rows[p] \in Board!Row /\ rows[p].id \in Nat
                                             /\ rows[p].version \in Nat
  BY DEF Board!Listing, Board!Row
<1>3. new # Null => new.id \in Nat /\ new.version \in Nat
  BY DEF Board!Row
<1>4. ASSUME NEW p \in Providers, NEW s \in Board!Row, s # Null, s.id # 0,
             Remembers(rows, ids, p, s)
      PROVE  Remembers(rs, n, p, s)
  <2>1. s.id \in Nat /\ s.version \in Nat
    BY DEF Board!Row
  <2>2. /\ s.id <= ids
        /\ \A r \in Providers : r # p /\ rows[r] # Null => rows[r].id # s.id
        /\ rows[p] # Null /\ rows[p].id = s.id =>
             /\ s.version <= rows[p].version
             /\ s.version = rows[p].version => s.enabled = rows[p].enabled
    BY <1>4 DEF Remembers
  <2>3. s.id <= n
    BY <2>1, <2>2
  <2>4. ASSUME NEW r \in Providers, r # p, rs[r] # Null
        PROVE  rs[r].id # s.id
    <3>1. CASE r # q
      BY <1>1, <2>2, <2>4, <3>1
    <3>2. CASE r = q
      BY <1>1, <1>2, <1>3, <2>1, <2>2, <2>4, <3>2
    <3> QED BY <3>1, <3>2
  <2>5. ASSUME rs[p] # Null, rs[p].id = s.id
        PROVE  s.version <= rs[p].version /\ (s.version = rs[p].version => s.enabled = rs[p].enabled)
    <3>1. CASE p # q
      BY <1>1, <2>2, <2>5, <3>1
    <3>2. CASE p = q
      <4>1. rs[p] = new /\ new # Null /\ new.id = s.id
        BY <1>1, <2>5, <3>2
      <4>2. rows[q] # Null /\ new.id = rows[q].id /\ new.version = rows[q].version + 1
        BY <4>1, <2>1, <2>2
      <4>3. s.version <= rows[q].version /\ rows[q].version \in Nat
        BY <1>2, <2>2, <3>2, <4>1, <4>2
      <4> QED BY <2>1, <4>1, <4>2, <4>3
    <3> QED BY <3>1, <3>2
  <2> QED BY <2>3, <2>4, <2>5 DEF Remembers
<1>5. ASSUME \A p \in Providers : Remembers(rows, ids, p, rows[p]), NEW p \in Providers
      PROVE  Remembers(rs, n, p, rs[p])
  <2>1. CASE p # q
    <3>1. rs[p] = rows[p]
      BY <1>1, <2>1
    <3>2. rows[p] # Null /\ rows[p].id # 0 => Remembers(rs, n, p, rows[p])
      BY <1>2, <1>4, <1>5
    <3>3. rows[p] = Null \/ rows[p].id = 0 => Remembers(rs, n, p, rows[p])
      BY DEF Remembers
    <3> QED BY <3>1, <3>2, <3>3
  <2>2. CASE p = q
    <3> SUFFICES ASSUME new # Null, new.id # 0
                 PROVE  Remembers(rs, n, q, new)
      BY <1>1, <2>2 DEF Remembers
    <3>1. rs[q] = new /\ new.id <= n /\ new.version <= new.version
      BY <1>1, <1>2, <1>3, <1>5 DEF Remembers
    <3>2. ASSUME NEW r \in Providers, r # q, rs[r] # Null
          PROVE  rs[r].id # new.id
      <4>1. rs[r] = rows[r] /\ rows[r] # Null
        BY <1>1, <3>2
      <4>2. rows[r].id \in Nat /\ (rows[r].id = 0 \/ rows[r].id <= ids)
        BY <1>2, <1>5, <4>1 DEF Remembers
      <4>3. rows[q] # Null /\ rows[q].id # 0 => rows[r].id # rows[q].id
        BY <1>5, <3>2, <4>1 DEF Remembers
      <4> QED BY <1>3, <4>1, <4>2, <4>3
    <3> QED BY <3>1, <3>2 DEF Remembers
  <2> QED BY <2>1, <2>2
<1>6. \A p \in Providers, s \in Board!Row \union {Null} :
        s = Null \/ s.id = 0 => Remembers(rs, n, p, s)
  BY DEF Remembers
<1> QED BY <1>4, <1>5, <1>6

(* A request goes on; it may write a row.                                  *)
LEMMA BoardGoesOn ==
  ASSUME BoardParts, NEW j \in Calls, NEW job \in Board!Job, jobs[j] # Null,
         jobs' = [jobs EXCEPT ![j] = job], rows' \in Board!Listing,
         snapshot' \in Board!Listing, ids' \in Nat,
         \A p \in Providers, s \in Board!Row \union {Null} :
           Remembers(rows, ids, p, s) => Remembers(rows', ids', p, s),
         \A p \in Providers : Remembers(rows', ids', p, rows'[p]),
         board' \in Board!Page, board'.list = board.list, board'.busy = board.busy,
         board'.dialog = board.dialog, board'.crossed = board.crossed,
         board'.dismissed = board.dismissed, board'.raced = board.raced, board'.behind \/ (~board.behind /\ snapshot' = rows'),
         board'.alone => board.alone,
         job.op = jobs[j].op, job.slug = jobs[j].slug, job.mine = jobs[j].mine,
         Placed(job), ~board'.behind /\ job.op = "edit" => Edits(rows', ids', job),
         ~board'.behind /\ job.list # Null => \A p \in Providers : Remembers(rows', ids', p, job.list[p]),
         ~board.raced /\ ~board'.behind =>
           /\ \A i \in Calls : i # j /\ jobs[i] # Null => Annotates(rows', jobs[i])
           /\ Annotates(rows', job)
           /\ \A p \in Custom : rows'[p] # Null => rows'[p].custom,
         board'.alone /\ ~board'.behind => LeavesShown(rows', job, board.list)
  PROVE  BoardParts'
<1>1. job # Null /\ \A i \in Calls : jobs'[i] = IF i = j THEN job ELSE jobs[i]
  BY BoardAssumption DEF BoardParts, BoardTyped
<1>2. BoardTyped'
  BY DEF BoardParts, BoardTyped
<1>3. BoardRemembers'
  <2>1. ~board'.behind => /\ snapshot' = rows'
                          /\ \A p \in Providers : Remembers(rows', ids', p, board.list[p])
    BY BoardFacts DEF BoardParts, BoardRemembers
  <2>2. ASSUME ~board'.behind, board.dialog # Null
        PROVE  Remembering(rows', ids', board.dialog)
    <3>1. board.dialog.slug \in Providers /\ board.dialog.row \in Board!Row \union {Null}
      BY <2>2, BoardFacts DEF BoardParts, Board!Dialog
    <3> QED BY <2>2, <3>1 DEF BoardParts, BoardRemembers, Remembering
  <2>3. ASSUME ~board'.behind, NEW i \in Calls, i # j, jobs[i] # Null
        PROVE  /\ jobs[i].list # Null => \A p \in Providers : Remembers(rows', ids', p, jobs[i].list[p])
               /\ jobs[i].op = "edit" => Edits(rows', ids', jobs[i])
    <3>1. /\ jobs[i].slug \in Providers
          /\ jobs[i].list # Null => \A p \in Providers : /\ Remembers(rows, ids, p, jobs[i].list[p])
                                                         /\ jobs[i].list[p] \in Board!Row \union {Null}
          /\ jobs[i].op = "edit" => Edits(rows, ids, jobs[i])
      BY <2>3, BoardFacts DEF BoardParts, BoardRemembers, Board!Job, Board!Listing
    <3> QED BY <3>1 DEF Edits
  <2>4. \A i \in Calls : jobs'[i] # Null => Placed(jobs'[i])
    BY <1>1 DEF BoardParts, BoardRemembers
  <2> QED BY <1>1, <2>1, <2>2, <2>3, <2>4 DEF BoardRemembers
<1>4. NotRaced'
  BY <1>1 DEF BoardParts, NotRaced
<1>5. BoardAlone'
  BY <1>1 DEF BoardParts, BoardAlone
<1>6. \A i \in Calls : (Spins(i)' <=> Spins(i)) /\ (OfDialog(i)' <=> OfDialog(i))
  BY <1>1 DEF Spins, OfDialog
<1>7. OneSpins'
  BY <1>1, <1>6 DEF BoardParts, OneSpins
<1>8. OwnDialog'
  BY <1>6 DEF BoardParts, OwnDialog
<1> QED BY <1>2, <1>3, <1>4, <1>5, <1>7, <1>8 DEF BoardParts

(* A request that goes on without writing.                                 *)
LEMMA BoardMovesOn ==
  ASSUME BoardParts, NEW j \in Calls, NEW job \in Board!Job, jobs[j] # Null,
         jobs' = [jobs EXCEPT ![j] = job], UNCHANGED <<rows, snapshot, ids>>,
         board' \in Board!Page, board'.list = board.list, board'.busy = board.busy,
         board'.dialog = board.dialog, board'.crossed = board.crossed,
         board'.dismissed = board.dismissed, board'.raced = board.raced, board'.behind = board.behind,
         board'.alone => board.alone,
         job.op = jobs[j].op, job.slug = jobs[j].slug, job.mine = jobs[j].mine,
         job.id = jobs[j].id, job.seen = jobs[j].seen, job.enabled = jobs[j].enabled,
         job.touched = jobs[j].touched,
         Placed(job), ~board.behind /\ job.op = "edit" /\ job.at = "write" => job.found # Null /\ job.found.id = job.id,
         ~board.behind /\ job.list # Null => \A p \in Providers : Remembers(rows, ids, p, job.list[p]),
         ~board.raced /\ ~board.behind => Annotates(rows, job),
         board'.alone /\ ~board.behind => LeavesShown(rows, job, board.list)
  PROVE  BoardParts'
<1>1. /\ rows' \in Board!Listing /\ snapshot' \in Board!Listing /\ ids' \in Nat
      /\ board'.behind \/ (~board.behind /\ snapshot' = rows')
  BY DEF BoardParts, BoardTyped, BoardRemembers
<1>2. /\ \A p \in Providers, s \in Board!Row \union {Null} :
           Remembers(rows, ids, p, s) => Remembers(rows', ids', p, s)
      /\ \A p \in Providers : Remembers(rows', ids', p, rows'[p])
  BY DEF BoardParts, BoardRemembers
<1>3. ~board.behind /\ job.op = "edit" => Edits(rows', ids', job)
  <2> SUFFICES ASSUME ~board.behind, job.op = "edit"
               PROVE  Edits(rows', ids', job)
    OBVIOUS
  <2>1. PICK row \in Board!Row :
          /\ job.id # 0 /\ row.id = job.id /\ row.version = job.seen
          /\ job.touched \/ job.enabled = row.enabled
          /\ Remembers(rows, ids, job.slug, row)
    <3>1. Edits(rows, ids, jobs[j])
      BY DEF BoardParts, BoardRemembers
    <3> QED BY <3>1 DEF Edits
  <2>2. Remembers(rows', ids', job.slug, row)
    BY <2>1
  <2> QED BY <2>1, <2>2 DEF Edits
<1>4. /\ ~board.behind /\ job.list # Null => \A p \in Providers : Remembers(rows', ids', p, job.list[p])
      /\ board'.alone /\ ~board.behind => LeavesShown(rows', job, board.list)
      /\ ~board.raced /\ ~board.behind =>
           /\ \A i \in Calls : i # j /\ jobs[i] # Null => Annotates(rows', jobs[i])
           /\ Annotates(rows', job)
           /\ \A p \in Custom : rows'[p] # Null => rows'[p].custom
  BY DEF BoardParts, NotRaced
<1> QED BY <1>1, <1>2, <1>3, <1>4, BoardGoesOn

(* A request is over.                                                      *)
LEMMA BoardEnds ==
  ASSUME BoardParts, NEW j \in Calls, jobs[j] # Null,
         jobs' = [jobs EXCEPT ![j] = Null], UNCHANGED <<rows, snapshot, ids>>,
         board' \in Board!Page, board'.crossed = board.crossed,
         board'.alone = board.alone, board'.raced = board.raced, board'.behind = board.behind,
         ~board.behind => \A p \in Providers : Remembers(rows, ids, p, board'.list[p]),
         \/ board'.dialog = board.dialog /\ ~jobs[j].mine
         \/ board'.dialog = Null
         \/ board.dialog # Null /\ board'.dialog = [board.dialog EXCEPT !.waits = @ \ {j}],
         Spins(j) \/ board'.busy = board.busy,
         ~board'.dismissed => /\ ~board.dismissed
                              /\ board.dialog # Null /\ board'.dialog = Null =>
                                   board.dialog.waits \ {j} = {},
         board.alone /\ ~board.behind => Shows(rows, board'.list)
  PROVE  BoardParts'
<1>1. \A i \in Calls : jobs'[i] = IF i = j THEN Null ELSE jobs[i]
  BY DEF BoardParts, BoardTyped
<1>2. BoardTyped'
  BY <1>1 DEF BoardParts, BoardTyped
<1>3. \A i \in Calls : /\ Spins(i)' <=> Spins(i) /\ i # j
                       /\ OfDialog(i)' <=> OfDialog(i) /\ i # j
  BY <1>1 DEF Spins, OfDialog
<1>4. board'.dialog # Null =>
        /\ board.dialog # Null /\ board'.dialog.slug = board.dialog.slug
        /\ board'.dialog.mode = board.dialog.mode /\ board'.dialog.row = board.dialog.row
        /\ board'.dialog.enabled = board.dialog.enabled
        /\ board'.dialog.flipped = board.dialog.flipped
        /\ board.dialog.waits \ {j} \subseteq board'.dialog.waits
  <2>1. CASE board'.dialog = board.dialog
    BY <2>1
  <2>2. CASE board.dialog # Null /\ board'.dialog = [board.dialog EXCEPT !.waits = @ \ {j}]
    <3>1. board.dialog \in Board!Dialog
      BY <2>2, BoardFacts DEF BoardParts
    <3> DEFINE d == board.dialog
               left == d.waits \ {j}
    <3>2. board'.dialog = [d EXCEPT !.waits = left]
      BY <2>2
    <3> HIDE DEF left
    <3>3. /\ board'.dialog.slug = d.slug /\ board'.dialog.mode = d.mode /\ board'.dialog.row = d.row
          /\ board'.dialog.enabled = d.enabled /\ board'.dialog.flipped = d.flipped
          /\ board'.dialog.waits = left
      BY <3>1, <3>2 DEF Board!Dialog
    <3> QED BY <2>2, <3>3 DEF left
  <2> QED BY <2>1, <2>2
<1>5. BoardRemembers'
  <2>1. ~board.behind /\ board'.dialog # Null => Remembering(rows, ids, board'.dialog)
    BY <1>4 DEF BoardParts, BoardRemembers, Remembering
  <2> QED BY <1>1, <2>1 DEF BoardParts, BoardRemembers
<1>6. NotRaced'
  BY <1>1 DEF BoardParts, NotRaced
<1>7. BoardAlone'
  <2> SUFFICES ASSUME board.alone, ~board.behind
               PROVE  \A i \in Calls : jobs'[i] = Null
    BY DEF BoardAlone
  <2> QED BY <1>1 DEF BoardParts, BoardAlone
<1>8. OneSpins'
  <2> SUFFICES ASSUME ~board.crossed
               PROVE  /\ \A i, k \in Calls : Spins(i)' /\ Spins(k)' => i = k
                      /\ \A i \in Calls : Spins(i)' =>
                           /\ board'.busy = [slug |-> jobs'[i].slug, op |-> jobs'[i].op]
                           /\ /\ board'.dialog # Null /\ board'.dialog.mode # "create"
                              /\ board'.dialog.slug = jobs'[i].slug
                              => jobs'[i].op = board'.dialog.mode /\ i \in board'.dialog.waits
    BY DEF OneSpins
  <2>1. \A i, k \in Calls : Spins(i) /\ Spins(k) => i = k
    BY DEF BoardParts, OneSpins
  <2>2. ASSUME NEW i \in Calls, Spins(i)'
        PROVE  /\ board'.busy = [slug |-> jobs'[i].slug, op |-> jobs'[i].op]
               /\ /\ board'.dialog # Null /\ board'.dialog.mode # "create"
                  /\ board'.dialog.slug = jobs'[i].slug
                  => jobs'[i].op = board'.dialog.mode /\ i \in board'.dialog.waits
    <3>1. Spins(i) /\ i # j /\ jobs'[i] = jobs[i] /\ board'.busy = board.busy
      BY <1>1, <1>3, <2>1, <2>2
    <3>2. /\ board.busy = [slug |-> jobs[i].slug, op |-> jobs[i].op]
          /\ /\ board.dialog # Null /\ board.dialog.mode # "create"
             /\ board.dialog.slug = jobs[i].slug
             => jobs[i].op = board.dialog.mode /\ i \in board.dialog.waits
      BY <3>1 DEF BoardParts, OneSpins
    <3> QED BY <1>4, <3>1, <3>2
  <2> QED BY <1>3, <2>1, <2>2
<1>9. OwnDialog'
  <2> SUFFICES ASSUME ~board'.dismissed, NEW i \in Calls, OfDialog(i)'
               PROVE  board'.dialog # Null /\ i \in board'.dialog.waits
    BY DEF OwnDialog
  <2>1. OfDialog(i) /\ i # j
    BY <1>3
  <2>2. board.dialog # Null /\ i \in board.dialog.waits
    BY <2>1 DEF BoardParts, OwnDialog
  <2> QED BY <1>4, <2>1, <2>2
<1> QED BY <1>2, <1>5, <1>6, <1>7, <1>8, <1>9 DEF BoardParts

(* Dialogs come and go; no request is touched.                             *)
LEMMA BoardDialogs ==
  ASSUME BoardParts, UNCHANGED <<rows, snapshot, ids, jobs>>, board' \in Board!Page,
         board'.list = board.list, board'.busy = board.busy, board'.crossed = board.crossed,
         board'.alone = board.alone, board'.raced = board.raced, board'.behind = board.behind,
         board'.dialog # Null =>
           /\ ~board.behind => Remembering(rows, ids, board'.dialog)
           /\ ~board.crossed => \A j \in Calls :
                /\ Spins(j) /\ board'.dialog.mode # "create" /\ board'.dialog.slug = jobs[j].slug
                => jobs[j].op = board'.dialog.mode /\ j \in board'.dialog.waits,
         ~board'.dismissed =>
           \A j \in Calls : OfDialog(j) => board'.dialog # Null /\ j \in board'.dialog.waits
  PROVE  BoardParts'
<1>1. \A j \in Calls : (Spins(j)' <=> Spins(j)) /\ (OfDialog(j)' <=> OfDialog(j))
  BY DEF Spins, OfDialog
<1>2. BoardTyped' /\ NotRaced' /\ BoardAlone' /\ BoardRemembers'
  BY DEF BoardParts, BoardTyped, NotRaced, BoardAlone, BoardRemembers
<1>3. OneSpins'
  BY <1>1 DEF BoardParts, OneSpins
<1>4. OwnDialog'
  BY <1>1 DEF OwnDialog
<1> QED BY <1>2, <1>3, <1>4 DEF BoardParts

(* A request is sent.                                                      *)
LEMMA BoardBegins ==
  ASSUME BoardParts, NEW j \in Calls, NEW job \in Board!Job, NEW new \in Board!Page,
         Board!Begin(j, job, new),
         new.list = board.list, new.busy = board.busy, new.alone = board.alone,
         new.crossed = board.crossed, new.dismissed = board.dismissed, new.raced = board.raced, new.behind = board.behind,
         \/ new.dialog = board.dialog
         \/ board.dialog # Null /\ new.dialog = [board.dialog EXCEPT !.waits = @ \union {j}],
         job.at \in {"resolve", "scan", "list", "find"}, job.list = Null, ~job.known,
         job.at = "list" => job.op = "reread",
         job.op \in {"test", "proxy"} <=> job.at = "resolve",
         ~board.behind /\ job.op = "edit" => Edits(rows, ids, job),
         job.mine /\ job.op \in Board!Modes => new.dialog # Null /\ j \in new.dialog.waits,
         job.mine /\ job.op \notin {"create", "reread"} =>
           /\ board.crossed \/ \A i \in Calls : Spins(i) => jobs[i].slug # job.slug
           /\ \/ new.dialog = Null
              \/ new.dialog.slug = job.slug /\ new.dialog.mode = job.op
  PROVE  BoardParts'
<1> DEFINE moves == new.moves + 1
           spin == job.mine /\ job.op \notin {"create", "reread"}
           busy == IF spin THEN [slug |-> job.slug, op |-> job.op] ELSE new.busy
           alone == new.alone /\ job.mine /\ Board!UnderWay = {}
           crossed == new.crossed \/ (job.mine /\ \E k \in Board!Spinning : jobs[k].slug # job.slug)
           raced == new.raced \/ \E k \in Board!UnderWay : {jobs[k].op, job.op} = {"delete", "proxy"}
           after == [new EXCEPT !.moves = moves, !.busy = busy, !.alone = alone,
                                !.crossed = crossed, !.raced = raced]
<1>1. /\ jobs[j] = Null /\ jobs' = [jobs EXCEPT ![j] = job] /\ board' = after
      /\ UNCHANGED <<rows, snapshot, ids>>
  BY DEF Board!Begin
<1>2. job # Null /\ \A i \in Calls : jobs'[i] = IF i = j THEN job ELSE jobs[i]
  BY <1>1, BoardAssumption DEF BoardParts, BoardTyped
<1>3. /\ new.moves \in Nat /\ new.busy \in Board!Button \union {Null} /\ new.alone \in BOOLEAN
      /\ new.crossed \in BOOLEAN /\ new.raced \in BOOLEAN
      /\ job.slug \in Providers /\ job.op \in Board!Ops /\ job.mine \in BOOLEAN
  BY DEF Board!Page, Board!Job
<1>4. moves \in Nat /\ alone \in BOOLEAN /\ crossed \in BOOLEAN /\ raced \in BOOLEAN
  BY <1>3
<1>5. busy \in Board!Button \union {Null}
  BY <1>3 DEF Board!Button
<1>6. /\ alone => board.alone /\ job.mine /\ \A i \in Calls : jobs[i] = Null
      /\ ~crossed => ~board.crossed /\ (job.mine => \A i \in Calls : Spins(i) => jobs[i].slug = job.slug)
      /\ ~raced => ~board.raced /\ \A i \in Calls : jobs[i] # Null =>
                      /\ ~(jobs[i].op = "delete" /\ job.op = "proxy")
                      /\ ~(jobs[i].op = "proxy" /\ job.op = "delete")
  <2>1. \A i \in Calls : Spins(i) => i \in Board!Spinning
    BY DEF Board!Spinning, Board!Mine, Board!UnderWay, Spins
  <2>2. \A i \in Calls : jobs[i] # Null => i \in Board!UnderWay
    BY DEF Board!UnderWay
  <2>3. ASSUME NEW i \in Calls, jobs[i] # Null, ~raced
        PROVE  {jobs[i].op, job.op} # {"delete", "proxy"}
    BY <2>2, <2>3
  <2>4. ~raced => \A i \in Calls : jobs[i] # Null =>
                      /\ ~(jobs[i].op = "delete" /\ job.op = "proxy")
                      /\ ~(jobs[i].op = "proxy" /\ job.op = "delete")
    BY <2>3
  <2> QED BY <2>1, <2>2, <2>4
<1>7. /\ spin => busy = [slug |-> job.slug, op |-> job.op]
      /\ ~spin => busy = board.busy
  OBVIOUS
<1> HIDE DEF moves, busy, alone, crossed, raced
<1>8. /\ after \in Board!Page /\ after.list = new.list /\ after.dialog = new.dialog
      /\ after.busy = busy /\ after.alone = alone /\ after.crossed = crossed
      /\ after.raced = raced /\ after.dismissed = new.dismissed /\ after.behind = new.behind
  BY ZenonT(40), <1>4, <1>5 DEF Board!Page
<1> HIDE DEF after
<1>9. new.dialog # Null =>
        /\ board.dialog # Null /\ new.dialog.slug = board.dialog.slug
        /\ new.dialog.mode = board.dialog.mode /\ new.dialog.row = board.dialog.row
        /\ new.dialog.enabled = board.dialog.enabled /\ new.dialog.flipped = board.dialog.flipped
        /\ board.dialog.waits \subseteq new.dialog.waits
  <2>1. CASE new.dialog = board.dialog
    BY <2>1
  <2>2. CASE board.dialog # Null /\ new.dialog = [board.dialog EXCEPT !.waits = @ \union {j}]
    <3>1. board.dialog \in Board!Dialog
      BY <2>2, BoardFacts DEF BoardParts
    <3> DEFINE d == board.dialog
               waits == d.waits \union {j}
    <3>2. new.dialog = [d EXCEPT !.waits = waits]
      BY <2>2
    <3> HIDE DEF waits
    <3>3. /\ new.dialog.slug = d.slug /\ new.dialog.mode = d.mode /\ new.dialog.row = d.row
          /\ new.dialog.enabled = d.enabled /\ new.dialog.flipped = d.flipped
          /\ new.dialog.waits = waits
      BY <3>1, <3>2 DEF Board!Dialog
    <3> QED BY <2>2, <3>3 DEF waits
  <2> QED BY <2>1, <2>2
<1>10. board.dialog # Null => new.dialog # Null
  <2>1. CASE new.dialog = board.dialog
    BY <2>1
  <2>2. CASE board.dialog # Null /\ new.dialog = [board.dialog EXCEPT !.waits = @ \union {j}]
    <3>1. board.dialog \in Board!Dialog
      BY <2>2, BoardFacts DEF BoardParts
    <3>2. new.dialog \in Board!Dialog
      BY <2>2, <3>1 DEF Board!Dialog
    <3> QED BY <3>2, BoardAssumption
  <2> QED BY <2>1, <2>2
<1>11. BoardTyped'
  BY <1>1, <1>2, <1>8 DEF BoardParts, BoardTyped
<1>12. BoardRemembers'
  <2>1. ~board.behind /\ new.dialog # Null => Remembering(rows, ids, new.dialog)
    BY <1>9 DEF BoardParts, BoardRemembers, Remembering
  <2>2. Placed(job)
    BY DEF Placed
  <2> QED BY <1>1, <1>2, <1>8, <2>1, <2>2 DEF BoardParts, BoardRemembers
<1>13. NotRaced'
  <2>1. Annotates(rows, job)
    BY DEF Annotates
  <2> QED BY <1>1, <1>2, <1>6, <1>8, <2>1 DEF BoardParts, NotRaced
<1>14. BoardAlone'
  <2> SUFFICES ASSUME alone, ~board.behind
               PROVE  /\ \A i, k \in Calls : jobs'[i] # Null /\ jobs'[k] # Null => i = k
                      /\ \A i \in Calls : jobs'[i] # Null => LeavesShown(rows, jobs'[i], board.list)
                      /\ jobs'[j] # Null
    BY <1>1, <1>8 DEF BoardAlone
  <2>1. Shows(rows, board.list)
    BY <1>6 DEF BoardParts, BoardAlone
  <2>2. LeavesShown(rows, job, board.list)
    BY <1>6, <2>1 DEF LeavesShown
  <2> QED BY <1>2, <1>6, <2>2
<1>15. \A i \in Calls : i # j => (Spins(i)' <=> Spins(i)) /\ (OfDialog(i)' <=> OfDialog(i))
  BY <1>2 DEF Spins, OfDialog
<1>16. (Spins(j)' <=> spin) /\ (OfDialog(j)' <=> job.mine /\ job.op \in Board!Modes)
  BY <1>2 DEF Spins, OfDialog
<1>17. OneSpins'
  <2> SUFFICES ASSUME ~crossed
               PROVE  /\ \A i, k \in Calls : Spins(i)' /\ Spins(k)' => i = k
                      /\ \A i \in Calls : Spins(i)' =>
                           /\ busy = [slug |-> jobs'[i].slug, op |-> jobs'[i].op]
                           /\ /\ new.dialog # Null /\ new.dialog.mode # "create"
                              /\ new.dialog.slug = jobs'[i].slug
                              => jobs'[i].op = new.dialog.mode /\ i \in new.dialog.waits
    BY <1>1, <1>8 DEF OneSpins
  <2>1. /\ \A i, k \in Calls : Spins(i) /\ Spins(k) => i = k
        /\ \A i \in Calls : Spins(i) =>
             /\ board.busy = [slug |-> jobs[i].slug, op |-> jobs[i].op]
             /\ /\ board.dialog # Null /\ board.dialog.mode # "create"
                /\ board.dialog.slug = jobs[i].slug
                => jobs[i].op = board.dialog.mode /\ i \in board.dialog.waits
    BY <1>6 DEF BoardParts, OneSpins
  <2>2. CASE spin
    <3>1. \A i \in Calls : ~Spins(i)
      BY <1>6, <2>2
    <3>2. job.op # "create" /\ (new.dialog # Null => new.dialog.mode = job.op)
      BY <2>2
    <3>3. new.dialog # Null => j \in new.dialog.waits
      <4>1. new.dialog # Null => job.op \in Board!Modes
        <5>1. new.dialog # Null => board.dialog.mode \in Board!Modes
          BY <1>9, BoardFacts DEF BoardParts, Board!Dialog
        <5> QED BY <1>9, <3>2, <5>1
      <4> QED BY <2>2, <4>1
    <3> QED BY <1>2, <1>7, <1>15, <1>16, <2>2, <3>1, <3>2, <3>3
  <2>3. CASE ~spin
    <3>1. \A i \in Calls : Spins(i)' => Spins(i) /\ i # j /\ jobs'[i] = jobs[i]
      BY <1>2, <1>15, <1>16, <2>3
    <3>2. \A i \in Calls :
            /\ Spins(i) /\ new.dialog # Null /\ new.dialog.mode # "create" /\ new.dialog.slug = jobs[i].slug
            => jobs[i].op = new.dialog.mode /\ i \in new.dialog.waits
      BY <1>9, <2>1
    <3> QED BY ZenonT(40), <1>7, <2>1, <2>3, <3>1, <3>2
  <2> QED BY <2>2, <2>3
<1>18. OwnDialog'
  <2> SUFFICES ASSUME ~board.dismissed, NEW i \in Calls, OfDialog(i)'
               PROVE  new.dialog # Null /\ i \in new.dialog.waits
    BY <1>1, <1>8 DEF OwnDialog
  <2>1. CASE i = j
    BY <1>16, <2>1
  <2>2. CASE i # j
    <3>1. board.dialog # Null /\ i \in board.dialog.waits
      BY <1>15, <2>2 DEF BoardParts, OwnDialog
    <3> QED BY <1>9, <1>10, <3>1
  <2> QED BY <2>1, <2>2
<1> QED BY <1>11, <1>12, <1>13, <1>14, <1>17, <1>18 DEF BoardParts

LEMMA JobMoves ==
  ASSUME NEW job \in Board!Job, NEW at \in {"resolve", "scan", "list", "find", "probe", "write",
                                            "answer", "failed"}, NEW new, new = [job EXCEPT !.at = at]
  PROVE  /\ new \in Board!Job /\ new.at = at /\ new.op = job.op /\ new.slug = job.slug
         /\ new.mine = job.mine /\ new.id = job.id /\ new.seen = job.seen
         /\ new.enabled = job.enabled /\ new.touched = job.touched /\ new.list = job.list
         /\ new.known = job.known /\ new.found = job.found /\ new.pasted = job.pasted
BY DEF Board!Job

LEMMA JobFacts ==
  ASSUME BoardParts, NEW j \in Calls, jobs[j] # Null
  PROVE  /\ jobs[j] \in Board!Job /\ Placed(jobs[j]) /\ jobs[j].slug \in Providers
         /\ ~board.behind /\ jobs[j].list # Null => \A p \in Providers : Remembers(rows, ids, p, jobs[j].list[p])
         /\ ~board.behind /\ jobs[j].op = "edit" => Edits(rows, ids, jobs[j])
         /\ ~board.raced /\ ~board.behind => Annotates(rows, jobs[j])
         /\ board.alone /\ ~board.behind => LeavesShown(rows, jobs[j], board.list)
         /\ board \in Board!Page /\ rows \in Board!Listing
         /\ snapshot \in Board!Listing /\ ids \in Nat /\ (~board.behind => snapshot = rows)
BY BoardFacts DEF BoardParts, BoardRemembers, NotRaced, BoardAlone, Board!Job

(* What neither finds nor lists nor writes.                                *)
LEMMA BoardWaits ==
  ASSUME BoardParts, NEW j \in Calls,
         \/ Board!Probe(j) \/ Board!ScanModels(j) \/ Board!Refuse(j)
  PROVE  BoardParts'
<1> DEFINE job == jobs[j]
<1>1. /\ job # Null /\ job \in Board!Job /\ Placed(job)
      /\ ~board.behind /\ job.list # Null => \A p \in Providers : Remembers(rows, ids, p, job.list[p])
      /\ ~board.raced /\ ~board.behind => Annotates(rows, job)
      /\ board.alone /\ ~board.behind => LeavesShown(rows, job, board.list)
      /\ board \in Board!Page
  BY JobFacts DEF Board!Probe, Board!ScanModels, Board!Refuse, Board!At
<1>2. PICK at \in {"answer", "list", "failed"} :
        /\ jobs' = [jobs EXCEPT ![j] = [job EXCEPT !.at = at]] /\ UNCHANGED <<rows, snapshot, ids>>
        /\ \/ board' = board /\ job.at = "probe" /\ at = "answer"
           \/ board' = board /\ job.at = "scan" /\ at = "list"
           \/ /\ board' = [board EXCEPT !.alone = @ /\ job.at = "write"]
              /\ job.at \in {"write", "list"} /\ at = "failed"
  BY DEF Board!Probe, Board!ScanModels, Board!Refuse, Board!At, Board!Go
<1>3. /\ board' \in Board!Page /\ board'.list = board.list /\ board'.busy = board.busy
      /\ board'.dialog = board.dialog /\ board'.crossed = board.crossed
      /\ board'.dismissed = board.dismissed /\ board'.raced = board.raced
      /\ board'.behind = board.behind
      /\ board'.alone => board.alone /\ job.at # "list"
  <2>1. CASE board' = board /\ job.at \in {"probe", "scan"}
    BY <1>1, <2>1
  <2>2. CASE board' = [board EXCEPT !.alone = @ /\ job.at = "write"]
    <3> DEFINE alone == board.alone /\ job.at = "write"
    <3>1. alone \in BOOLEAN /\ (alone => board.alone /\ job.at # "list")
      BY <1>1 DEF Board!Page
    <3>2. board' = [board EXCEPT !.alone = alone]
      BY <2>2
    <3> HIDE DEF alone
    <3>3. /\ board' \in Board!Page /\ board'.list = board.list /\ board'.busy = board.busy
          /\ board'.dialog = board.dialog /\ board'.crossed = board.crossed
          /\ board'.dismissed = board.dismissed /\ board'.raced = board.raced
          /\ board'.behind = board.behind
          /\ board'.alone = alone
      BY <1>1, <3>1, <3>2 DEF Board!Page
    <3> QED BY <3>1, <3>3
  <2> QED BY <1>2, <2>1, <2>2
<1> DEFINE new == [job EXCEPT !.at = at]
<1> HIDE DEF job
<1>4. /\ new \in Board!Job /\ new.at = at /\ new.op = job.op /\ new.slug = job.slug
      /\ new.mine = job.mine /\ new.id = job.id /\ new.seen = job.seen
      /\ new.enabled = job.enabled /\ new.touched = job.touched /\ new.list = job.list
      /\ new.known = job.known /\ new.found = job.found
  BY <1>1, JobMoves
<1>5. jobs' = [jobs EXCEPT ![j] = new]
  BY <1>2
<1> HIDE DEF new
<1>6. Placed(new)
  BY <1>1, <1>2, <1>4 DEF Placed
<1>7. ~board.raced /\ ~board.behind => Annotates(rows, new)
  BY <1>1, <1>2, <1>4 DEF Annotates
<1>8. board'.alone /\ ~board.behind => LeavesShown(rows, new, board.list)
  BY <1>1, <1>2, <1>3, <1>4 DEF LeavesShown, Placed
<1> QED BY <1>1, <1>2, <1>3, <1>4, <1>5, <1>6, <1>7, <1>8, BoardMovesOn DEF job

LEMMA BoardResolves ==
  ASSUME BoardParts, NEW j \in Calls, Board!Resolve(j)
  PROVE  BoardParts'
<1> DEFINE job == jobs[j]
           known == Board!Registered(job.slug)
           at == CASE job.op = "proxy" -> "find"
                   [] job.op # "proxy" /\ known -> "probe"
                   [] OTHER -> "failed"
           new == [job EXCEPT !.known = known, !.at = at]
<1>1. /\ job # Null /\ job \in Board!Job /\ Placed(job) /\ job.at = "resolve"
      /\ ~board.behind /\ job.list # Null => \A p \in Providers : Remembers(rows, ids, p, job.list[p])
      /\ ~board.raced /\ ~board.behind => Annotates(rows, job)
      /\ board.alone /\ ~board.behind => LeavesShown(rows, job, board.list)
      /\ board \in Board!Page
  BY JobFacts DEF Board!Resolve, Board!At
<1>2. jobs' = [jobs EXCEPT ![j] = new] /\ UNCHANGED <<rows, snapshot, ids, board>>
  BY DEF Board!Resolve
<1>3. /\ known \in BOOLEAN
      /\ ~board.behind /\ known /\ job.slug \in Custom => rows[job.slug] # Null
  BY JobFacts, <1>1 DEF Board!Registered
<1> HIDE DEF known
<1>4. /\ at \in {"find", "probe", "failed"} /\ (at = "find" => job.op = "proxy")
      /\ at = "probe" => job.op # "proxy"
  BY <1>3
<1> HIDE DEF at, job
<1>5. /\ new \in Board!Job /\ new.at = at /\ new.op = job.op /\ new.slug = job.slug
      /\ new.mine = job.mine /\ new.id = job.id /\ new.seen = job.seen
      /\ new.enabled = job.enabled /\ new.touched = job.touched /\ new.list = job.list
      /\ new.known = known /\ new.found = job.found
  BY <1>1, <1>3, <1>4 DEF Board!Job
<1> HIDE DEF new
<1>6. job.op \in {"test", "proxy"}
  BY <1>1 DEF Placed
<1>7. Placed(new)
  BY <1>1, <1>4, <1>5, <1>6 DEF Placed
<1>8. ~board.raced /\ ~board.behind => Annotates(rows, new)
  BY <1>3, <1>4, <1>5 DEF Annotates
<1>9. board.alone /\ ~board.behind => LeavesShown(rows, new, board.list)
  BY <1>1, <1>4, <1>5 DEF LeavesShown
<1> QED BY <1>1, <1>2, <1>4, <1>5, <1>7, <1>8, <1>9, BoardMovesOn DEF job

LEMMA BoardFinds ==
  ASSUME BoardParts, NEW j \in Calls, Board!Find(j)
  PROVE  BoardParts'
<1> DEFINE job == jobs[j]
<1>1. /\ job # Null /\ job \in Board!Job /\ Placed(job) /\ job.at = "find" /\ job.slug \in Providers
      /\ ~board.behind /\ job.list # Null => \A p \in Providers : Remembers(rows, ids, p, job.list[p])
      /\ ~board.behind /\ job.op = "edit" => Edits(rows, ids, job)
      /\ ~board.raced /\ ~board.behind => Annotates(rows, job)
      /\ board.alone /\ ~board.behind => LeavesShown(rows, job, board.list)
      /\ board \in Board!Page /\ rows \in Board!Listing
  BY JobFacts DEF Board!Find, Board!At
<1>2. UNCHANGED <<rows, snapshot, ids, board>>
  BY DEF Board!Find
<1>3. CASE Board!FindsNothing(job)
  <2> DEFINE new == [job EXCEPT !.at = "failed"]
  <2>1. jobs' = [jobs EXCEPT ![j] = new]
    BY <1>3 DEF Board!Find, Board!Go
  <2> HIDE DEF job
  <2>2. /\ new \in Board!Job /\ new.at = "failed" /\ new.op = job.op /\ new.slug = job.slug
        /\ new.mine = job.mine /\ new.id = job.id /\ new.seen = job.seen
        /\ new.enabled = job.enabled /\ new.touched = job.touched /\ new.list = job.list
    BY <1>1, JobMoves
  <2> HIDE DEF new
  <2>3. Placed(new) /\ Annotates(rows, new)
    BY <1>1, <2>2 DEF Placed, Annotates
  <2>4. board.alone /\ ~board.behind => LeavesShown(rows, new, board.list)
    BY <1>1, <2>2 DEF LeavesShown
  <2> QED BY <1>1, <1>2, <2>1, <2>2, <2>3, <2>4, BoardMovesOn DEF job
<1>4. CASE ~Board!FindsNothing(job)
  <2> DEFINE found == rows[job.slug]
             new == [job EXCEPT !.at = "write", !.found = found]
  <2>1. jobs' = [jobs EXCEPT ![j] = new]
    BY <1>4 DEF Board!Find
  <2>2. found \in Board!Row \union {Null}
    BY <1>1 DEF Board!Listing
  <2>3. ~board.behind /\ job.op = "edit" => found # Null /\ found.id = job.id
    <3> SUFFICES ASSUME ~board.behind, job.op = "edit"
                 PROVE  found # Null /\ found.id = job.id
      OBVIOUS
    <3>1. PICK p \in Providers : rows[p] # Null /\ rows[p].id = job.id
      BY <1>4 DEF Board!FindsNothing, Board!ById
    <3>2. PICK row \in Board!Row : job.id # 0 /\ row.id = job.id /\ Remembers(rows, ids, job.slug, row)
      BY <1>1 DEF Edits
    <3>3. row # Null
      BY BoardAssumption
    <3>4. p = job.slug
      BY <1>1, <3>1, <3>2, <3>3 DEF Remembers
    <3> QED BY <3>1, <3>4
  <2>4. ~board.raced /\ ~board.behind /\ job.op = "proxy" /\ job.slug \in Custom => found # Null
    BY <1>1, <1>4 DEF Board!FindsNothing, Annotates
  <2> HIDE DEF job, found
  <2>5. /\ new \in Board!Job /\ new.at = "write" /\ new.op = job.op /\ new.slug = job.slug
        /\ new.mine = job.mine /\ new.id = job.id /\ new.seen = job.seen
        /\ new.enabled = job.enabled /\ new.touched = job.touched /\ new.list = job.list
        /\ new.found = found
    BY <1>1, <2>2 DEF Board!Job
  <2> HIDE DEF new
  <2>6. Placed(new)
    BY <1>1, <2>5 DEF Placed
  <2>7. ~board.raced /\ ~board.behind => Annotates(rows, new)
    BY <2>4, <2>5 DEF Annotates
  <2>8. board.alone /\ ~board.behind => LeavesShown(rows, new, board.list)
    BY <1>1, <2>5 DEF LeavesShown
  <2> QED BY <1>1, <1>2, <2>1, <2>3, <2>5, <2>6, <2>7, <2>8, BoardMovesOn DEF job
<1> QED BY <1>3, <1>4

(* A listing gives a provider its row or a card for one, and what it says  *)
(* of a row is true as long as the registry has the rows.                  *)
LEMMA ListedFacts ==
  ASSUME rows \in Board!Listing, snapshot \in Board!Listing
  PROVE  /\ Board!Listed \in Board!Listing
         /\ snapshot = rows => Shows(rows, Board!Listed)
         /\ (snapshot = rows /\ \A p \in Providers : Remembers(rows, ids, p, rows[p])) =>
              \A p \in Providers : Remembers(rows, ids, p, Board!Listed[p])
<1> DEFINE has(p) == Board!Registered(p)
           off(p) == [rows[p] EXCEPT !.enabled = FALSE, !.proxies = FALSE]
           card(p) == IF has(p) THEN Board!Merged(p)
                      ELSE IF rows[p] # Null /\ rows[p].custom THEN off(p) ELSE Null
<1>1. Board!Listed = [p \in Providers |-> card(p)]
  <2>1. \A p \in Providers : card(p) =
          CASE has(p) -> Board!Merged(p)
            [] ~has(p) /\ rows[p] # Null /\ rows[p].custom -> off(p)
            [] OTHER -> Null
    <3> HIDE DEF has, off
    <3> QED OBVIOUS
  <2> QED BY <2>1 DEF Board!Listed
<1>2. ASSUME NEW p \in Providers
      PROVE  /\ card(p) \in Board!Row \union {Null}
             /\ snapshot = rows /\ (p \notin Custom \/ rows[p] = Null \/ rows[p].custom) =>
                  card(p) = CardOf(rows, p)
             /\ snapshot = rows /\ Remembers(rows, ids, p, rows[p]) => Remembers(rows, ids, p, card(p))
  <2> DEFINE row == rows[p]
             with == Board!Pooled(p)
             added == p \notin Providers \ Custom
  <2>1. /\ row \in Board!Row \union {Null} /\ snapshot[p] \in Board!Row \union {Null}
        /\ with \in BOOLEAN /\ added \in BOOLEAN /\ (added <=> p \in Custom)
    BY DEF Board!Listing, Board!Pooled
  <2>2. CASE row = Null /\ has(p)
    <3> DEFINE bare == [id |-> 0, custom |-> added, enabled |-> TRUE, proxies |-> with, version |-> 0]
    <3>1. card(p) = bare
      BY <2>2 DEF Board!Merged, Board!Bare
    <3>2. bare \in Board!Row /\ bare.id = 0
      BY <2>1 DEF Board!Row
    <3>3. snapshot = rows => ~added /\ ~with
      BY <2>2 DEF Board!Registered, Board!Pooled
    <3>4. CardOf(rows, p) = IF added THEN Null
                             ELSE [id |-> 0, custom |-> FALSE, enabled |-> TRUE, proxies |-> FALSE,
                                   version |-> 0]
      BY <2>2 DEF CardOf
    <3>5. snapshot = rows => bare = CardOf(rows, p)
      <4> SUFFICES ASSUME snapshot = rows
                   PROVE  bare = CardOf(rows, p)
        OBVIOUS
      <4>1. added = FALSE /\ with = FALSE
        BY <2>1, <3>3
      <4> HIDE DEF added, with
      <4> QED BY <3>4, <4>1
    <3> HIDE DEF card, bare
    <3> QED BY <3>1, <3>2, <3>5 DEF Remembers
  <2>3. CASE row # Null /\ has(p)
    <3> DEFINE merged == [row EXCEPT !.custom = added, !.proxies = with]
               shown == row.proxies /\ (row.custom => row.enabled)
    <3>1. card(p) = merged
      BY <2>3 DEF Board!Merged
    <3>2. CardOf(rows, p) = [row EXCEPT !.custom = added, !.proxies = shown]
      BY <2>3 DEF CardOf
    <3>3. snapshot = rows => with = shown
      <4>1. snapshot = rows => (with <=> shown)
        BY <2>3 DEF Board!Pooled
      <4>2. shown \in BOOLEAN
        OBVIOUS
      <4> HIDE DEF with, shown
      <4> QED BY <2>1, <4>1, <4>2
    <3> HIDE DEF card, added, with, shown
    <3>4. /\ merged \in Board!Row /\ merged.id = row.id /\ merged.version = row.version
          /\ merged.enabled = row.enabled
      BY <2>1, <2>3 DEF Board!Row
    <3>5. snapshot = rows => merged = CardOf(rows, p)
      BY <3>2, <3>3
    <3> HIDE DEF merged
    <3> QED BY <2>3, <3>1, <3>4, <3>5 DEF Remembers
  <2>4. CASE row # Null /\ ~has(p) /\ row.custom
    <3> DEFINE closed == [row EXCEPT !.enabled = FALSE, !.proxies = FALSE]
               shown == row.proxies /\ (row.custom => row.enabled)
    <3>1. card(p) = closed
      BY <2>4
    <3>2. CardOf(rows, p) = [row EXCEPT !.custom = added, !.proxies = shown]
      BY <2>4 DEF CardOf
    <3>3. row \in Board!Row
      BY <2>1, <2>4
    <3>4. /\ closed \in Board!Row /\ closed.id = row.id /\ closed.version = row.version
          /\ closed.enabled = FALSE
      BY <3>3 DEF Board!Row
    <3>5. snapshot = rows => row.enabled = FALSE /\ added = TRUE
      BY <2>1, <2>4, <3>3 DEF Board!Registered, Board!Row
    <3>6. snapshot = rows => closed = CardOf(rows, p)
      <4> SUFFICES ASSUME snapshot = rows
                   PROVE  closed = CardOf(rows, p)
        OBVIOUS
      <4>1. shown = FALSE /\ added = TRUE /\ row.custom = TRUE /\ row.enabled = FALSE
        BY <2>4, <3>3, <3>5 DEF Board!Row
      <4> HIDE DEF shown, added, row
      <4>2. CardOf(rows, p) = [row EXCEPT !.custom = TRUE, !.proxies = FALSE]
        BY <3>2, <4>1
      <4> QED BY <3>3, <4>1, <4>2 DEF Board!Row
    <3> HIDE DEF card, closed
    <3> QED BY <2>4, <3>1, <3>4, <3>5, <3>6 DEF Remembers
  <2>5. CASE ~has(p) /\ (row = Null \/ ~row.custom)
    <3>1. card(p) = Null
      BY <2>5
    <3>2. snapshot = rows /\ (p \notin Custom \/ row = Null \/ row.custom) => CardOf(rows, p) = Null
      BY <2>5 DEF CardOf, Board!Registered
    <3> HIDE DEF card
    <3> QED BY <3>1, <3>2 DEF Remembers
  <2> QED BY <2>2, <2>3, <2>4, <2>5
<1> HIDE DEF card
<1>3. Board!Listed \in Board!Listing
  BY <1>1, <1>2 DEF Board!Listing
<1> QED BY <1>1, <1>2, <1>3 DEF Shows

LEMMA BoardLists ==
  ASSUME BoardParts, NEW j \in Calls, Board!List(j)
  PROVE  BoardParts'
<1> DEFINE job == jobs[j]
           shown == Board!Listed
           new == [job EXCEPT !.list = shown, !.at = "answer"]
<1>1. /\ job # Null /\ job \in Board!Job /\ Placed(job) /\ job.at = "list"
      /\ ~board.behind /\ job.op = "edit" => Edits(rows, ids, job)
      /\ board.alone /\ ~board.behind => LeavesShown(rows, job, board.list)
      /\ board \in Board!Page /\ rows \in Board!Listing /\ snapshot \in Board!Listing
  BY JobFacts DEF Board!List, Board!At
<1>2. jobs' = [jobs EXCEPT ![j] = new] /\ UNCHANGED <<rows, snapshot, ids, board>>
  BY DEF Board!List
<1>3. shown \in Board!Listing /\ (~board.behind => Shows(rows, shown))
  BY <1>1, ListedFacts DEF BoardParts, BoardRemembers
<1>4. ~board.behind => \A p \in Providers : Remembers(rows, ids, p, shown[p])
  BY <1>1, ListedFacts DEF BoardParts, BoardRemembers
<1>5. shown # Null
  BY <1>3, BoardAssumption
<1> HIDE DEF job, shown
<1>6. /\ new \in Board!Job /\ new.at = "answer" /\ new.op = job.op /\ new.slug = job.slug
      /\ new.mine = job.mine /\ new.id = job.id /\ new.seen = job.seen
      /\ new.enabled = job.enabled /\ new.touched = job.touched /\ new.list = shown
  BY <1>1, <1>3 DEF Board!Job
<1> HIDE DEF new
<1>7. Placed(new) /\ Annotates(rows, new)
  BY <1>1, <1>5, <1>6 DEF Placed, Annotates
<1>8. board.alone /\ ~board.behind => LeavesShown(rows, new, board.list)
  BY <1>1, <1>3, <1>6 DEF LeavesShown, Placed
<1> QED BY <1>1, <1>2, <1>4, <1>6, <1>7, <1>8, BoardMovesOn DEF job

LEMMA BoardWrites ==
  ASSUME BoardParts, NEW j \in Calls, Board!Write(j)
  PROVE  BoardParts'
<1> DEFINE job == jobs[j]
           p == job.slug
<1>1. /\ job # Null /\ job \in Board!Job /\ Placed(job) /\ job.at = "write" /\ p \in Providers
      /\ ~board.behind /\ job.list # Null => \A q \in Providers : Remembers(rows, ids, q, job.list[q])
      /\ ~board.behind /\ job.op = "edit" => Edits(rows, ids, job)
      /\ ~board.raced /\ ~board.behind => Annotates(rows, job)
      /\ board.alone /\ ~board.behind => LeavesShown(rows, job, board.list)
      /\ board \in Board!Page /\ rows \in Board!Listing /\ ids \in Nat
      /\ rows[p] \in Board!Row \union {Null}
  BY JobFacts, BoardFacts DEF Board!Write, Board!At, BoardParts
<1>3. CASE Board!Collides(job)
  <2> DEFINE new == [job EXCEPT !.at = "failed"]
  <2>1. jobs' = [jobs EXCEPT ![j] = new] /\ UNCHANGED <<rows, snapshot, ids>>
    BY <1>3 DEF Board!Write, Board!Go
  <2>5. board' = board
    BY <1>3 DEF Board!Write
  <2> HIDE DEF job
  <2>2. /\ new \in Board!Job /\ new.at = "failed" /\ new.op = job.op /\ new.slug = job.slug
        /\ new.mine = job.mine /\ new.id = job.id /\ new.seen = job.seen
        /\ new.enabled = job.enabled /\ new.touched = job.touched /\ new.list = job.list
    BY <1>1, JobMoves
  <2> HIDE DEF new
  <2>3. Placed(new) /\ Annotates(rows, new)
    BY <1>1, <2>2 DEF Placed, Annotates
  <2>4. board.alone /\ ~board.behind => LeavesShown(rows, new, board.list)
    BY <1>1, <2>2 DEF LeavesShown
  <2> QED BY <1>1, <2>1, <2>2, <2>3, <2>4, <2>5, BoardMovesOn DEF job
<1>4. CASE ~Board!Collides(job)
  <2> DEFINE row == Board!Written(job)
             n == ids + (IF Board!Creates(job) THEN 1 ELSE 0)
             new == [job EXCEPT !.at = "list"]
  <2>1. jobs' = [jobs EXCEPT ![j] = new] /\ rows' = [rows EXCEPT ![p] = row] /\ ids' = n
    BY <1>4 DEF Board!Write, Board!Go
  <2>2. /\ row \in Board!Row \union {Null} /\ n \in Nat
        /\ \/ row = Null /\ n = ids
           \/ row # Null /\ row.id = ids + 1 /\ n = ids + 1
           \/ /\ rows[p] # Null /\ row # Null /\ row.id = rows[p].id
              /\ row.version = rows[p].version + 1 /\ n = ids
        /\ row = Null => job.op = "delete"
        /\ row # Null => \/ rows[p] # Null /\ row.custom = rows[p].custom
                         \/ row.custom \/ (job.op = "proxy" /\ job.found = Null)
    <3>1. CASE Board!Creates(job)
      <4>1. n = ids + 1 /\ n \in Nat
        BY <1>1, <3>1
      <4> DEFINE with == job.pasted # "none"
                 on == job.enabled
      <4>2. \/ row = Board!NewRow(TRUE, on, FALSE)
            \/ row = Board!NewRow(FALSE, TRUE, with) /\ job.op = "proxy" /\ job.found = Null
        <5>1. CASE job.op = "create"
          <6>1. row = Board!NewRow(TRUE, on, FALSE)
            BY <5>1 DEF Board!Written
          <6> QED BY <6>1
        <5>2. CASE job.op = "proxy" /\ job.found = Null
          <6> DEFINE first == Board!NewRow(TRUE, on, FALSE)
                     second == Board!NewRow(FALSE, TRUE, with)
                     third == [rows[p] EXCEPT !.proxies = with, !.version = @ + 1]
                     fourth == [rows[p] EXCEPT !.version = @ + 1]
                     fifth == [rows[p] EXCEPT !.enabled = on, !.version = @ + 1]
                     op == job.op
                     bare == job.found = Null
          <6>1. row = CASE op = "create"          -> first
                        [] op = "proxy" /\ bare   -> second
                        [] op = "proxy" /\ ~bare  -> third
                        [] op = "delete"          -> Null
                        [] op = "rotate"          -> fourth
                        [] OTHER                  -> fifth
            BY DEF Board!Written
          <6>2. op = "proxy" /\ bare
            BY <5>2
          <6> HIDE DEF row, first, second, third, fourth, fifth, op, bare
          <6>3. row = second
            BY <6>1, <6>2
          <6> QED BY <5>2, <6>3 DEF second
        <5> HIDE DEF row, job
        <5> QED BY <3>1, <5>1, <5>2 DEF Board!Creates
      <4>3. with \in BOOLEAN /\ on \in BOOLEAN
        BY <1>1 DEF Board!Job
      <4> HIDE DEF with, on, row
      <4>4. ASSUME NEW c \in BOOLEAN, NEW e \in BOOLEAN, NEW v \in BOOLEAN, row = Board!NewRow(c, e, v)
            PROVE  row \in Board!Row /\ row.id = ids + 1 /\ row.custom = c
        BY <1>1, <4>4 DEF Board!NewRow, Board!Row
      <4>5. /\ row \in Board!Row /\ row.id = ids + 1
            /\ row.custom \/ (job.op = "proxy" /\ job.found = Null)
        <5>1. CASE row = Board!NewRow(TRUE, on, FALSE)
          BY <4>3, <4>4, <5>1
        <5>2. CASE row = Board!NewRow(FALSE, TRUE, with) /\ job.op = "proxy" /\ job.found = Null
          BY <4>3, <4>4, <5>2
        <5> QED BY <4>2, <5>1, <5>2
      <4>6. row # Null
        BY <4>5, BoardAssumption
      <4> QED BY <4>1, <4>5, <4>6
    <3>2. CASE ~Board!Creates(job) /\ job.op = "delete"
      <4>1. row = Null /\ n = ids
        BY <1>1, <3>2 DEF Board!Written
      <4> QED BY <1>1, <3>2, <4>1
    <3>3. CASE ~Board!Creates(job) /\ job.op # "delete"
      <4> DEFINE old == rows[p]
                 with == job.pasted # "none"
                 on == job.enabled
                 v == old.version + 1
      <4>1. old # Null /\ n = ids
        BY <1>1, <1>4, <3>3 DEF Board!Collides
      <4>2. \/ row = [old EXCEPT !.proxies = with, !.version = v]
            \/ row = [old EXCEPT !.version = v]
            \/ row = [old EXCEPT !.enabled = on, !.version = v]
        BY <3>3 DEF Board!Written, Board!Creates
      <4>3. old \in Board!Row /\ with \in BOOLEAN /\ on \in BOOLEAN /\ v \in Nat
        BY <1>1, <4>1 DEF Board!Job, Board!Row
      <4> HIDE DEF row, with, on, v, old
      <4>4. /\ row \in Board!Row /\ row.id = old.id /\ row.version = v /\ row.custom = old.custom
        BY <4>2, <4>3 DEF Board!Row
      <4>5. row # Null
        BY <4>4, BoardAssumption
      <4> QED BY <1>1, <4>1, <4>4, <4>5 DEF old, v
    <3> QED BY <3>1, <3>2, <3>3
  <2> HIDE DEF row, n
  <2>3. /\ \A q \in Providers, s \in Board!Row \union {Null} :
             Remembers(rows, ids, q, s) => Remembers(rows', n, q, s)
        /\ \A q \in Providers : Remembers(rows', n, q, rows'[q])
    <3>1. \A q \in Providers : Remembers(rows, ids, q, rows[q])
      BY DEF BoardParts, BoardRemembers
    <3> QED BY <1>1, <2>1, <2>2, <3>1, BoardRowsAge
  <2>4. rows' \in Board!Listing /\ \A q \in Providers : rows'[q] = IF q = p THEN row ELSE rows[q]
    BY <1>1, <2>1, <2>2 DEF Board!Listing
  <2>11. /\ snapshot' \in Board!Listing
         /\ board' \in Board!Page /\ board'.list = board.list /\ board'.busy = board.busy
         /\ board'.dialog = board.dialog /\ board'.crossed = board.crossed
         /\ board'.dismissed = board.dismissed /\ board'.raced = board.raced
         /\ board'.alone = board.alone
         /\ board'.behind \/ (~board.behind /\ snapshot' = rows')
    <3>1. Board!Invalidate
      BY <1>4 DEF Board!Write
    <3> DEFINE behind == board.behind \/ snapshot' # rows'
    <3>2. board' = [board EXCEPT !.behind = behind]
      BY <3>1 DEF Board!Invalidate
    <3>3. snapshot' \in {rows', snapshot, Board!Nothing}
      BY <3>1 DEF Board!Invalidate
    <3>4. Board!Nothing \in Board!Listing /\ snapshot \in Board!Listing
      BY BoardFacts DEF Board!Nothing, Board!Listing, BoardParts
    <3>5. behind \in BOOLEAN /\ (behind \/ (~board.behind /\ snapshot' = rows'))
      BY BoardFacts DEF BoardParts
    <3> HIDE DEF behind
    <3>6. /\ board' \in Board!Page /\ board'.list = board.list /\ board'.busy = board.busy
          /\ board'.dialog = board.dialog /\ board'.crossed = board.crossed
          /\ board'.dismissed = board.dismissed /\ board'.raced = board.raced
          /\ board'.alone = board.alone /\ board'.behind = behind
      BY <1>1, <3>2, <3>5 DEF Board!Page
    <3> QED BY <2>4, <3>3, <3>4, <3>5, <3>6
  <2>5. ~board.raced /\ ~board.behind =>
          /\ \A i \in Calls : i # j /\ jobs[i] # Null => Annotates(rows', jobs[i])
          /\ \A q \in Custom : rows'[q] # Null => rows'[q].custom
    <3> SUFFICES ASSUME ~board.raced, ~board.behind
                 PROVE  /\ \A i \in Calls : i # j /\ jobs[i] # Null => Annotates(rows', jobs[i])
                        /\ \A q \in Custom : rows'[q] # Null => rows'[q].custom
      OBVIOUS
    <3>1. Custom \subseteq Providers
      BY CatalogueAssumption
    <3>2. ASSUME NEW i \in Calls, i # j, jobs[i] # Null
          PROVE  Annotates(rows', jobs[i])
      <4>1. /\ Annotates(rows, jobs[i]) /\ jobs[i].slug \in Providers
            /\ ~(job.op = "delete" /\ jobs[i].op = "proxy")
        BY <1>1, <3>2, JobFacts DEF BoardParts, NotRaced
      <4>2. CASE row # Null
        BY <2>4, <4>1, <4>2 DEF Annotates
      <4>3. CASE row = Null
        BY <2>2, <4>1, <4>3 DEF Annotates
      <4> QED BY <4>2, <4>3
    <3>3. ASSUME NEW q \in Custom, rows'[q] # Null
          PROVE  rows'[q].custom
      <4>1. rows[q] # Null => rows[q].custom
        BY DEF BoardParts, NotRaced
      <4>2. CASE q # p
        BY <2>4, <3>1, <3>3, <4>1, <4>2
      <4>3. CASE q = p
        <5>1. ~(job.op = "proxy" /\ job.found = Null)
          BY <1>1, <4>3 DEF Annotates
        <5>2. rows'[q] = row
          BY <1>1, <2>4, <4>3
        <5> QED BY <2>2, <3>3, <4>1, <4>3, <5>1, <5>2
      <4> QED BY <4>2, <4>3
    <3> QED BY <3>2, <3>3
  <2> HIDE DEF job
  <2>6. /\ new \in Board!Job /\ new.at = "list" /\ new.op = job.op /\ new.slug = job.slug
        /\ new.mine = job.mine /\ new.id = job.id /\ new.seen = job.seen
        /\ new.enabled = job.enabled /\ new.touched = job.touched /\ new.list = job.list
    BY <1>1, JobMoves
  <2> HIDE DEF new
  <2>7. Placed(new) /\ Annotates(rows', new)
    BY <1>1, <2>6 DEF Placed, Annotates
  <2>8. board.alone /\ ~board.behind => LeavesShown(rows', new, board.list)
    BY <1>1, <2>6 DEF LeavesShown, Placed
  <2>9. ~board.behind /\ new.list # Null => \A q \in Providers : Remembers(rows', ids', q, new.list[q])
    <3> SUFFICES ASSUME ~board.behind, job.list # Null, NEW q \in Providers
                 PROVE  Remembers(rows', n, q, job.list[q])
      BY <2>1, <2>6
    <3>1. job.list[q] \in Board!Row \union {Null}
      BY <1>1 DEF Board!Job, Board!Listing
    <3> QED BY <1>1, <2>3, <3>1
  <2>10. ~board.behind /\ new.op = "edit" => Edits(rows', ids', new)
    <3> SUFFICES ASSUME ~board.behind, job.op = "edit"
                 PROVE  Edits(rows', n, new)
      BY <2>1, <2>6
    <3>1. PICK r \in Board!Row : /\ job.id # 0 /\ r.id = job.id /\ r.version = job.seen
                                 /\ job.touched \/ job.enabled = r.enabled
                                 /\ Remembers(rows, ids, p, r)
      BY <1>1 DEF Edits
    <3>2. Remembers(rows', n, p, r)
      BY <1>1, <2>3, <3>1
    <3> QED BY <2>6, <3>1, <3>2 DEF Edits
  <2> QED BY <1>1, <2>1, <2>2, <2>3, <2>4, <2>5, <2>6, <2>7, <2>8, <2>9, <2>10, <2>11, BoardGoesOn
          DEF job
<1> QED BY <1>3, <1>4

(* An answer, or its failure, reaches the page that asked.                 *)
LEMMA BoardAnswers ==
  ASSUME BoardParts, NEW j \in Calls, Board!Answer(j) \/ Board!AnswerError(j)
  PROVE  BoardParts'
<1> DEFINE job == jobs[j]
           d == board.dialog
           rest == d.waits \ {j}
           left == IF d = Null THEN Null ELSE [d EXCEPT !.waits = rest]
<1>1. /\ job # Null /\ job \in Board!Job /\ Placed(job)
      /\ ~board.behind /\ job.list # Null => \A p \in Providers : Remembers(rows, ids, p, job.list[p])
      /\ board.alone /\ ~board.behind => LeavesShown(rows, job, board.list)
      /\ board \in Board!Page /\ rows \in Board!Listing /\ ids \in Nat
      /\ job.at \in {"answer", "failed"}
  BY JobFacts DEF Board!Answer, Board!AnswerError, Board!At
<1>2. /\ jobs' = [jobs EXCEPT ![j] = Null] /\ UNCHANGED <<rows, snapshot, ids>>
  BY DEF Board!Answer, Board!AnswerError
<1>3. /\ ~board.behind => \A p \in Providers : Remembers(rows, ids, p, board.list[p])
      /\ d \in Board!Dialog \union {Null} /\ board.list \in Board!Listing
      /\ board.busy \in Board!Button \union {Null} /\ board.loading \in BOOLEAN
      /\ board.dismissed \in BOOLEAN
  BY BoardFacts DEF BoardParts, BoardRemembers
<1>4. CASE ~job.mine
  <2>1. board' = board
    BY <1>4 DEF Board!Answer, Board!AnswerError
  <2>2. ~board.alone \/ board.behind
    BY <1>1, <1>4 DEF LeavesShown
  <2> QED BY <1>1, <1>2, <1>3, <1>4, <2>1, <2>2, BoardEnds
<1>5. CASE job.mine
  <2>1. /\ left \in Board!Dialog \union {Null}
        /\ left = Null \/ (d # Null /\ left = [d EXCEPT !.waits = @ \ {j}] /\ left.waits = rest)
        /\ left = Null => d = Null
    <3>1. CASE d = Null
      BY <3>1
    <3>2. CASE d # Null
      <4>1. d \in Board!Dialog
        BY <1>3, <3>2
      <4>2. rest \subseteq Calls
        BY <4>1 DEF Board!Dialog
      <4>3. left = [d EXCEPT !.waits = rest]
        BY <3>2
      <4> HIDE DEF left
      <4>4. left = [d EXCEPT !.waits = @ \ {j}]
        BY <4>3
      <4> HIDE DEF rest
      <4>5. left \in Board!Dialog /\ left.waits = rest
        BY <4>1, <4>2, <4>3 DEF Board!Dialog
      <4> QED BY <3>2, <4>4, <4>5, BoardAssumption
    <3> QED BY <3>1, <3>2
  <2> HIDE DEF left
  <2> DEFINE busy == IF job.op \in {"create", "reread"} THEN board.busy ELSE Null
             loading == board.loading /\ job.op # "reread"
             ended == [board EXCEPT !.busy = busy, !.loading = loading]
  <2>2. /\ busy \in Board!Button \union {Null} /\ loading \in BOOLEAN
        /\ Spins(j) \/ busy = board.busy
    BY <1>1, <1>3, <1>5 DEF Spins
  <2>3. Board!Ended(job) = ended
    BY DEF Board!Ended
  <2> HIDE DEF busy, loading
  <2>4. /\ ended \in Board!Page /\ ended.list = board.list /\ ended.dialog = d /\ ended.busy = busy
        /\ ended.dismissed = board.dismissed /\ ended.crossed = board.crossed
        /\ ended.alone = board.alone /\ ended.raced = board.raced
        /\ ended.behind = board.behind
    BY <1>1, <2>2 DEF Board!Page
  <2> HIDE DEF ended
  <2>5. CASE Board!AnswerError(j)
    <3>1. board' = [ended EXCEPT !.dialog = left] /\ job.at = "failed"
      BY <1>5, <2>3, <2>5 DEF Board!AnswerError, Board!Left, Board!At, left
    <3>2. /\ board' \in Board!Page /\ board'.list = board.list /\ board'.dialog = left
          /\ board'.busy = busy /\ board'.dismissed = board.dismissed
          /\ board'.crossed = board.crossed /\ board'.alone = board.alone /\ board'.raced = board.raced
          /\ board'.behind = board.behind
      BY <2>1, <2>4, <3>1 DEF Board!Page
    <3>3. board.alone /\ ~board.behind => Shows(rows, board'.list)
      BY <1>1, <3>1, <3>2 DEF LeavesShown
    <3> HIDE DEF job
    <3> QED BY <1>1, <1>2, <1>3, <2>1, <2>2, <3>2, <3>3, BoardEnds DEF job
  <2>6. CASE Board!Answer(j)
    <3> DEFINE list1 == IF job.op = "test" THEN board.list ELSE job.list
               next == Board!Closed(j)
               dismissed == board.dismissed \/ (next = Null /\ left # Null /\ left.waits # {})
    <3>1. job.at = "answer"
      BY <2>6 DEF Board!Answer, Board!At
    <3>2. next = Null \/ next = left
      BY DEF Board!Closed, Board!Left, left
    <3>3. /\ list1 \in Board!Listing /\ (~board.behind => \A p \in Providers : Remembers(rows, ids, p, list1[p]))
          /\ board.alone /\ ~board.behind => Shows(rows, list1)
      <4>1. CASE job.op = "test"
        BY <1>1, <1>3, <3>1, <4>1 DEF LeavesShown
      <4>2. CASE job.op # "test"
        <5>1. job.list # Null
          BY <1>1, <3>1, <4>2 DEF Placed
        <5>2. job.list \in Board!Listing
          BY <1>1, <5>1 DEF Board!Job
        <5> QED BY <1>1, <3>1, <4>2, <5>1, <5>2 DEF LeavesShown
      <4> QED BY <4>1, <4>2
    <3>4. board' = [ended EXCEPT !.list = list1, !.dialog = next, !.dismissed = dismissed]
      BY <1>5, <2>3, <2>4, <2>6 DEF Board!Answer, Board!Left, left
    <3>5. /\ dismissed \in BOOLEAN
          /\ ~dismissed => ~board.dismissed /\ (d # Null /\ next = Null => rest = {})
      BY <1>3, <2>1
    <3> HIDE DEF list1, next, dismissed
    <3>6. /\ board' \in Board!Page /\ board'.list = list1 /\ board'.dialog = next
          /\ board'.busy = busy /\ board'.dismissed = dismissed
          /\ board'.crossed = board.crossed /\ board'.alone = board.alone /\ board'.raced = board.raced
          /\ board'.behind = board.behind
      BY <2>1, <2>4, <3>2, <3>3, <3>4, <3>5 DEF Board!Page
    <3> HIDE DEF job
    <3> QED BY <1>1, <1>2, <2>1, <2>2, <3>2, <3>3, <3>5, <3>6, BoardEnds DEF job
  <2> QED BY <2>5, <2>6
<1> QED BY <1>4, <1>5

(* A request of a card's own button.                                       *)
LEMMA BoardClicks ==
  ASSUME BoardParts, NEW j \in Calls, NEW p \in Providers, NEW op \in {"test", "sync", "toggle"},
         NEW row \in Board!Row \union {Null}, NEW on \in BOOLEAN,
         Board!CardIsOpen(p, op), Board!Begin(j, Board!Request(op, p, row, on, TRUE), board)
  PROVE  BoardParts'
<1> DEFINE job == Board!Request(op, p, row, on, TRUE)
<1>1. op \in Board!Ops /\ op \notin Board!Modes /\ op \notin {"create", "reread", "edit"}
  BY DEF Board!Ops, Board!Modes
<1>2. /\ job \in Board!Job /\ job.op = op /\ job.slug = p /\ job.mine = TRUE
      /\ job.known = FALSE /\ job.list = Null
      /\ job.at \in {"resolve", "scan", "list", "find"}
      /\ job.at = "list" => op = "reread"
      /\ op \in {"test", "proxy"} <=> job.at = "resolve"
  <2> DEFINE id == IF row = Null THEN 0 ELSE row.id
             seen == IF row = Null THEN 0 ELSE row.version
             at == Board!FirstStep(op)
             yes == TRUE
  <2>1. job = [op |-> op, slug |-> p, id |-> id, seen |-> seen, enabled |-> on,
               touched |-> FALSE, known |-> FALSE, found |-> Null, list |-> Null,
               at |-> at, mine |-> yes, pasted |-> "none"]
    BY DEF Board!Request
  <2>2. id \in Nat /\ seen \in Nat
    BY DEF Board!Row
  <2>3. /\ at \in {"resolve", "scan", "list", "find"}
        /\ at = "list" => op = "reread"
        /\ op \in {"test", "proxy"} <=> at = "resolve"
    BY DEF Board!FirstStep
  <2>4. yes \in BOOLEAN /\ yes = TRUE
    OBVIOUS
  <2> HIDE DEF job, id, seen, at, yes
  <2>5. /\ job \in Board!Job /\ job.op = op /\ job.slug = p /\ job.mine = yes
        /\ job.known = FALSE /\ job.list = Null /\ job.at = at
    BY <1>1, <2>1, <2>2, <2>3, <2>4 DEF Board!Job, Board!Pasted
  <2> QED BY <2>3, <2>4, <2>5
<1>3. board.dialog = Null /\ board \in Board!Page
  BY DEF Board!CardIsOpen, BoardParts, BoardTyped
<1>4. board.crossed \/ \A i \in Calls : Spins(i) => jobs[i].slug # p
  <2> SUFFICES ASSUME ~board.crossed, NEW i \in Calls, Spins(i)
               PROVE  jobs[i].slug # p
    OBVIOUS
  <2>1. board.busy = [slug |-> jobs[i].slug, op |-> jobs[i].op]
    BY DEF BoardParts, OneSpins
  <2>2. board.busy # Null
    <3>1. jobs[i] \in Board!Job
      BY JobFacts DEF Spins
    <3>2. board.busy \in Board!Button
      BY <2>1, <3>1 DEF Board!Button, Board!Job
    <3> QED BY <3>2, BoardAssumption
  <2> QED BY <2>1, <2>2 DEF Board!CardIsOpen, Board!RowBusy
<1> HIDE DEF job
<1>5. Board!Begin(j, job, board)
  BY DEF job
<1> QED BY <1>1, <1>2, <1>3, <1>4, <1>5, BoardBegins

(* The other requests of the page and those of another operator.           *)
LEMMA BoardRereads ==
  ASSUME BoardParts, NEW j \in Calls, Board!Reread(j)
  PROVE  BoardParts'
<1> DEFINE p == CHOOSE q \in Providers : TRUE
           job == Board!Request("reread", p, Null, FALSE, TRUE)
           new == [board EXCEPT !.loading = TRUE]
<1>1. Board!Begin(j, job, new) /\ board.dialog = Null
  BY DEF Board!Reread
<1>2. p \in Providers
  BY BoardAssumption
<1>3. job = [op |-> "reread", slug |-> p, id |-> 0, seen |-> 0, enabled |-> FALSE,
             touched |-> FALSE, known |-> FALSE, found |-> Null, list |-> Null,
             at |-> "list", mine |-> TRUE, pasted |-> "none"]
  BY DEF Board!Request, Board!FirstStep
<1>4. "reread" \in Board!Ops /\ "reread" \notin Board!Modes
  BY DEF Board!Ops, Board!Modes
<1> HIDE DEF p, job
<1>5. /\ job \in Board!Job /\ job.op = "reread" /\ job.known = FALSE /\ job.list = Null
      /\ job.at = "list"
  BY <1>2, <1>3, <1>4 DEF Board!Job, Board!Pasted
<1>6. /\ new \in Board!Page /\ new.list = board.list /\ new.busy = board.busy /\ new.alone = board.alone
      /\ new.crossed = board.crossed /\ new.dismissed = board.dismissed /\ new.raced = board.raced
      /\ new.behind = board.behind
      /\ new.dialog = board.dialog
  BY DEF BoardParts, BoardTyped, Board!Page
<1> HIDE DEF new
<1> QED BY <1>1, <1>4, <1>5, <1>6, BoardBegins

LEMMA BoardElsewhere ==
  ASSUME BoardParts, NEW j \in Calls, NEW op \in {"toggle", "delete", "proxy"}, NEW p \in Providers,
         Board!Elsewhere(j, op, p)
  PROVE  BoardParts'
<1> DEFINE on == rows[p] # Null /\ ~rows[p].enabled
           asked == Board!Request(op, p, rows[p], on, FALSE)
           job == [asked EXCEPT !.pasted = "good"]
<1>1. Board!Begin(j, job, board)
  BY DEF Board!Elsewhere
<1> DEFINE id == IF rows[p] = Null THEN 0 ELSE rows[p].id
           seen == IF rows[p] = Null THEN 0 ELSE rows[p].version
           at == Board!FirstStep(op)
<1>2. asked = [op |-> op, slug |-> p, id |-> id, seen |-> seen, enabled |-> on,
               touched |-> FALSE, known |-> FALSE, found |-> Null, list |-> Null,
               at |-> at, mine |-> FALSE, pasted |-> "none"]
  BY DEF Board!Request
<1>3. op \in Board!Ops
  BY DEF Board!Ops, Board!Modes
<1>4. rows[p] \in Board!Row \union {Null} /\ board \in Board!Page
  BY BoardFacts DEF BoardParts
<1>5. /\ on \in BOOLEAN /\ id \in Nat /\ seen \in Nat
      /\ at \in {"find", "resolve"}
      /\ op \in {"test", "proxy"} <=> at = "resolve"
  BY <1>4 DEF Board!Row, Board!FirstStep
<1> HIDE DEF on, asked, id, seen, at
<1>6. /\ asked \in Board!Job /\ asked.op = op /\ asked.mine = FALSE
      /\ asked.known = FALSE /\ asked.list = Null /\ asked.at = at
  BY <1>2, <1>3, <1>5 DEF Board!Job, Board!Pasted
<1>7. /\ job \in Board!Job /\ job.op = op /\ job.mine = FALSE
      /\ job.known = FALSE /\ job.list = Null /\ job.at = asked.at
  BY <1>6 DEF Board!Job, Board!Pasted
<1> HIDE DEF job
<1> QED BY <1>1, <1>4, <1>5, <1>6, <1>7, BoardBegins

(* A dialog is sent.                                                       *)
LEMMA BoardSubmits ==
  ASSUME BoardParts, NEW j \in Calls, NEW pasted \in Board!Pasted, Board!Submit(j, pasted)
  PROVE  BoardParts'
<1> DEFINE d == board.dialog
           asked == Board!Request(d.mode, d.slug, d.row, d.enabled, TRUE)
           job == [asked EXCEPT !.pasted = pasted, !.touched = d.flipped]
           new == [board EXCEPT !.dialog.waits = @ \union {j}]
           waits == d.waits \union {j}
           sent == [d EXCEPT !.waits = waits]
<1>1. d # Null /\ ~Board!Saving /\ Board!Begin(j, job, new)
  BY DEF Board!Submit
<1>19. d.mode = "edit" => d.row.id # 0
  BY DEF Board!Submit
<1>2. /\ d \in Board!Dialog /\ board \in Board!Page
      /\ d.mode \in Board!Modes /\ d.slug \in Providers /\ d.row \in Board!Row \union {Null}
      /\ d.enabled \in BOOLEAN /\ d.flipped \in BOOLEAN /\ waits \subseteq Calls
  BY <1>1, BoardFacts DEF BoardParts, Board!Dialog
<1> DEFINE id == IF d.row = Null THEN 0 ELSE d.row.id
           seen == IF d.row = Null THEN 0 ELSE d.row.version
           at == Board!FirstStep(d.mode)
<1>3. /\ asked = [op |-> d.mode, slug |-> d.slug, id |-> id, seen |-> seen, enabled |-> d.enabled,
                  touched |-> FALSE, known |-> FALSE, found |-> Null, list |-> Null,
                  at |-> at, mine |-> TRUE, pasted |-> "none"]
      /\ id \in Nat /\ seen \in Nat /\ (d.row # Null => id = d.row.id /\ seen = d.row.version)
      /\ at \in {"find", "resolve"}
      /\ d.mode \in {"test", "proxy"} <=> at = "resolve"
  BY <1>2 DEF Board!Request, Board!Row, Board!FirstStep, Board!Modes
<1>4. d.mode \in Board!Ops
  BY <1>2 DEF Board!Ops
<1>5. ~board.behind => Remembering(rows, ids, d)
  BY <1>1 DEF BoardParts, BoardRemembers
<1>6. new = [board EXCEPT !.dialog = sent] /\ sent = [d EXCEPT !.waits = @ \union {j}]
  BY <1>1, <1>2 DEF Board!Page
<1>7. sent \in Board!Dialog /\ sent.waits = waits /\ sent.slug = d.slug /\ sent.mode = d.mode
  BY <1>2 DEF Board!Dialog
<1> HIDE DEF asked, sent, new, id, seen, at
<1>8. /\ asked \in Board!Job /\ asked.op = d.mode /\ asked.slug = d.slug /\ asked.mine = TRUE
      /\ asked.enabled = d.enabled /\ asked.known = FALSE /\ asked.list = Null
      /\ asked.id = id /\ asked.seen = seen /\ asked.at = at
  BY <1>2, <1>3, <1>4 DEF Board!Job, Board!Pasted
<1>9. /\ job \in Board!Job /\ job.op = d.mode /\ job.slug = d.slug /\ job.mine = TRUE
      /\ job.enabled = d.enabled /\ job.known = FALSE /\ job.list = Null
      /\ job.touched = d.flipped /\ job.at = asked.at /\ job.id = asked.id /\ job.seen = asked.seen
  BY <1>2, <1>8 DEF Board!Job
<1>10. /\ new \in Board!Page /\ new.list = board.list /\ new.busy = board.busy /\ new.alone = board.alone
       /\ new.crossed = board.crossed /\ new.dismissed = board.dismissed /\ new.raced = board.raced
       /\ new.behind = board.behind
       /\ new.dialog = sent
  BY <1>2, <1>6, <1>7 DEF Board!Page
<1>11. sent # Null /\ j \in sent.waits
  BY <1>7, BoardAssumption
<1>12. Board!Begin(j, job, new)
  BY <1>1
<1> HIDE DEF job, waits
<1>13. ~board.behind /\ job.op = "edit" => Edits(rows, ids, job)
  <2> SUFFICES ASSUME ~board.behind, job.op = "edit"
               PROVE  Edits(rows, ids, job)
    OBVIOUS
  <2>1. d.row \in Board!Row /\ d.row # Null /\ d.row.id # 0 /\ (d.flipped \/ d.enabled = d.row.enabled)
        /\ Remembers(rows, ids, d.slug, d.row)
    BY <1>2, <1>5, <1>9, <1>19 DEF Remembering
  <2>2. job.at # "write"
    BY <1>3, <1>8, <1>9
  <2> QED BY <1>3, <1>8, <1>9, <2>1, <2>2 DEF Edits
<1>14. job.op # "create" =>
         board.crossed \/ \A i \in Calls : Spins(i) => jobs[i].slug # job.slug
  <2> SUFFICES ASSUME job.op # "create", ~board.crossed, NEW i \in Calls, Spins(i)
               PROVE  jobs[i].slug # d.slug
    BY <1>9
  <2>1. /\ board.busy = [slug |-> jobs[i].slug, op |-> jobs[i].op]
        /\ d.mode # "create" /\ d.slug = jobs[i].slug => jobs[i].op = d.mode /\ i \in d.waits
    BY <1>1 DEF BoardParts, OneSpins
  <2>2. d.slug = jobs[i].slug => board.busy = [slug |-> d.slug, op |-> d.mode] /\ d.waits # {}
    BY <1>9, <2>1
  <2> QED BY <1>1, <2>2 DEF Board!Saving, Board!IsBusy
<1>15. job.op \notin {"test", "reread"} /\ (job.at = "list" => job.op = "reread")
  BY <1>2, <1>3, <1>8, <1>9 DEF Board!Modes
<1>16. job.op \in {"test", "proxy"} <=> job.at = "resolve"
  BY <1>3, <1>8, <1>9
<1>17. /\ d # Null /\ new.dialog = [d EXCEPT !.waits = @ \union {j}]
       /\ new.dialog.slug = job.slug /\ new.dialog.mode = job.op
       /\ new.dialog # Null /\ j \in new.dialog.waits
  BY <1>1, <1>6, <1>7, <1>9, <1>10, <1>11
<1>18. job.at \in {"resolve", "scan", "list", "find"}
  BY <1>3, <1>8, <1>9
<1> HIDE DEF d
<1> QED BY <1>9, <1>10, <1>12, <1>13, <1>14, <1>15, <1>16, <1>17, <1>18, BoardBegins DEF d

LEMMA BoardCards ==
  ASSUME BoardParts, NEW j \in Calls, NEW p \in Providers,
         Board!ClickTest(j, p) \/ Board!ClickSync(j, p) \/ Board!ClickToggle(j, p)
  PROVE  BoardParts'
<1> DEFINE row == board.list[p]
           off == ~row.enabled
<1>1. row \in Board!Row \union {Null}
  BY BoardFacts DEF BoardParts
<1>2. CASE Board!ClickTest(j, p)
  <2>1. Board!CardIsOpen(p, "test") /\ Board!Begin(j, Board!Request("test", p, row, FALSE, TRUE), board)
    BY <1>2 DEF Board!ClickTest
  <2> QED BY <1>1, <2>1, BoardClicks
<1>3. CASE Board!ClickSync(j, p)
  <2>1. Board!CardIsOpen(p, "sync") /\ Board!Begin(j, Board!Request("sync", p, Null, FALSE, TRUE), board)
    BY <1>3 DEF Board!ClickSync
  <2> QED BY <2>1, BoardClicks
<1>4. CASE Board!ClickToggle(j, p)
  <2>1. /\ Board!CardIsOpen(p, "toggle") /\ Board!Begin(j, Board!Request("toggle", p, row, off, TRUE), board)
        /\ row # Null
    BY <1>4 DEF Board!ClickToggle
  <2>2. off \in BOOLEAN
    BY <1>1, <2>1 DEF Board!Row
  <2> HIDE DEF row, off
  <2> QED BY <1>1, <2>1, <2>2, BoardClicks
<1> QED BY <1>2, <1>3, <1>4

LEMMA BoardOpens ==
  ASSUME BoardParts, NEW p \in Providers, NEW mode \in Board!Modes, Board!OpenDialog(p, mode)
  PROVE  BoardParts'
<1> DEFINE row == Board!OpenedOn(p, mode)
           on == row = Null \/ row.enabled
           d == [mode |-> mode, slug |-> p, row |-> row, waits |-> {}, flipped |-> FALSE, enabled |-> on]
           moves == board.moves + 1
<1>1. /\ board \in Board!Page /\ row \in Board!Row \union {Null} /\ moves \in Nat
      /\ ~board.behind => Remembers(rows, ids, p, row)
  BY BoardFacts DEF BoardParts, BoardRemembers, Board!OpenedOn, Remembers
<1>2. on \in BOOLEAN /\ (row # Null => on = row.enabled)
  BY <1>1 DEF Board!Row
<1>3. /\ board.dialog = Null /\ UNCHANGED <<rows, snapshot, ids, jobs>>
      /\ board' = [board EXCEPT !.dialog = d, !.moves = moves]
  BY DEF Board!OpenDialog, Board!Opened
<1>4. mode # "create" => ~Board!RowBusy(p)
  BY DEF Board!OpenDialog, Board!Modes
<1>5. mode = "edit" => row # Null
  BY DEF Board!OpenDialog, Board!OpenedOn
<1> HIDE DEF row, on, moves
<1>6. /\ d \in Board!Dialog /\ d.slug = p /\ d.mode = mode /\ d.row = row /\ d.enabled = on
      /\ d.flipped = FALSE
  BY <1>1, <1>2 DEF Board!Dialog
<1> HIDE DEF d
<1>7. /\ board' \in Board!Page /\ board'.list = board.list /\ board'.busy = board.busy
      /\ board'.crossed = board.crossed /\ board'.alone = board.alone /\ board'.raced = board.raced
      /\ board'.behind = board.behind
      /\ board'.dialog = d /\ board'.dismissed = board.dismissed
  BY <1>1, <1>3, <1>6 DEF Board!Page
<1>8. ~board.behind => Remembering(rows, ids, d)
  BY <1>1, <1>2, <1>5, <1>6 DEF Remembering
<1>9. ASSUME ~board.crossed, NEW j \in Calls, Spins(j), mode # "create", p = jobs[j].slug
      PROVE  FALSE
  <2>1. board.busy = [slug |-> jobs[j].slug, op |-> jobs[j].op]
    BY <1>9 DEF BoardParts, OneSpins
  <2>2. board.busy # Null
    <3>1. jobs[j] \in Board!Job
      BY <1>9, JobFacts DEF Spins
    <3>2. board.busy \in Board!Button
      BY <2>1, <3>1 DEF Board!Button, Board!Job
    <3> QED BY <3>2, BoardAssumption
  <2> QED BY <1>4, <1>9, <2>1, <2>2 DEF Board!RowBusy
<1>10. ~board.dismissed => \A j \in Calls : ~OfDialog(j)
  BY <1>3 DEF BoardParts, OwnDialog
<1> QED BY <1>3, <1>6, <1>7, <1>8, <1>9, <1>10, BoardDialogs

LEMMA BoardFlips ==
  ASSUME BoardParts, Board!Flip
  PROVE  BoardParts'
<1> DEFINE d == board.dialog
           on == ~d.enabled
           flipped == ~d.flipped
           turned == [d EXCEPT !.enabled = on, !.flipped = flipped]
<1>1. d # Null /\ UNCHANGED <<rows, snapshot, ids, jobs>>
  BY DEF Board!Flip
<1>2. d \in Board!Dialog /\ board \in Board!Page
  BY <1>1, BoardFacts DEF BoardParts
<1>3. on \in BOOLEAN /\ flipped \in BOOLEAN /\ d.enabled \in BOOLEAN /\ d.flipped \in BOOLEAN
  BY <1>2 DEF Board!Dialog
<1>4. board' = [board EXCEPT !.dialog = turned]
  <2>1. board' = [board EXCEPT !.dialog.enabled = ~@, !.dialog.flipped = ~@]
    BY DEF Board!Flip
  <2> QED BY <1>2, <2>1 DEF Board!Page, Board!Dialog
<1>5. ~board.behind => Remembering(rows, ids, d)
  BY <1>1 DEF BoardParts, BoardRemembers
<1>6. ~board.behind /\ d.mode = "edit" => d.row # Null /\ d.row \in Board!Row /\ d.row.enabled \in BOOLEAN
  BY <1>2, <1>5 DEF Remembering, Board!Dialog, Board!Row
<1>7. ~board.behind /\ d.mode = "edit" => (flipped <=> on # d.row.enabled)
  <2> SUFFICES ASSUME ~board.behind, d.mode = "edit"
               PROVE  (~d.flipped) <=> ((~d.enabled) # d.row.enabled)
    OBVIOUS
  <2>1. d.flipped <=> d.enabled # d.row.enabled
    BY <1>5 DEF Remembering
  <2>2. d.row.enabled \in BOOLEAN /\ d.enabled \in BOOLEAN /\ d.flipped \in BOOLEAN
    BY <1>3, <1>6
  <2> QED BY <2>1, <2>2
<1> HIDE DEF on, flipped
<1>8. /\ turned \in Board!Dialog /\ turned.slug = d.slug /\ turned.mode = d.mode /\ turned.row = d.row
      /\ turned.enabled = on /\ turned.flipped = flipped /\ turned.waits = d.waits
  BY <1>2, <1>3 DEF Board!Dialog
<1> HIDE DEF turned
<1>9. /\ board' \in Board!Page /\ board'.list = board.list /\ board'.busy = board.busy
      /\ board'.crossed = board.crossed /\ board'.alone = board.alone /\ board'.raced = board.raced
      /\ board'.behind = board.behind
      /\ board'.dialog = turned /\ board'.dismissed = board.dismissed
  BY <1>2, <1>4, <1>8 DEF Board!Page
<1>10. ~board.behind => Remembering(rows, ids, turned)
  BY <1>5, <1>6, <1>7, <1>8 DEF Remembering
<1>11. turned # Null
  BY <1>8, BoardAssumption
<1>12. ~board.crossed => \A j \in Calls :
         /\ Spins(j) /\ turned.mode # "create" /\ turned.slug = jobs[j].slug
         => jobs[j].op = turned.mode /\ j \in turned.waits
  BY <1>1, <1>8 DEF BoardParts, OneSpins
<1>13. ~board.dismissed => \A j \in Calls : OfDialog(j) => j \in turned.waits
  BY <1>8 DEF BoardParts, OwnDialog
<1> QED BY <1>1, <1>9, <1>10, <1>11, <1>12, <1>13, BoardDialogs

LEMMA BoardCloses ==
  ASSUME BoardParts, Board!CloseDialog
  PROVE  BoardParts'
<1> DEFINE left == board.dismissed \/ board.dialog.waits # {}
<1>1. /\ board.dialog # Null /\ UNCHANGED <<rows, snapshot, ids, jobs>>
      /\ board' = [board EXCEPT !.dialog = Null, !.dismissed = left]
  BY DEF Board!CloseDialog
<1>2. board \in Board!Page /\ board.dismissed \in BOOLEAN
  BY BoardFacts DEF BoardParts
<1>3. left \in BOOLEAN
  BY <1>2
<1>4. ~left => \A j \in Calls : ~OfDialog(j)
  BY DEF BoardParts, OwnDialog
<1> HIDE DEF left
<1>5. /\ board' \in Board!Page /\ board'.list = board.list /\ board'.busy = board.busy
      /\ board'.crossed = board.crossed /\ board'.alone = board.alone /\ board'.raced = board.raced
      /\ board'.behind = board.behind
      /\ board'.dialog = Null /\ board'.dismissed = left
  BY <1>1, <1>2, <1>3 DEF Board!Page
<1> QED BY <1>1, <1>4, <1>5, BoardDialogs

LEMMA BoardSteps ==
  ASSUME BoardParts, Board!BoardNext
  PROVE  BoardParts'
<1>1. ASSUME NEW j \in Calls, NEW p \in Providers,
             \/ Board!ClickTest(j, p) \/ Board!ClickSync(j, p) \/ Board!ClickToggle(j, p)
             \/ \E op \in {"toggle", "delete", "proxy"} : Board!Elsewhere(j, op, p)
      PROVE  BoardParts'
  BY <1>1, BoardCards, BoardElsewhere
<1>2. ASSUME NEW p \in Providers, NEW mode \in Board!Modes, Board!OpenDialog(p, mode)
      PROVE  BoardParts'
  BY <1>2, BoardOpens
<1>3. ASSUME NEW j \in Calls, Board!Reread(j) \/ \E pasted \in Board!Pasted : Board!Submit(j, pasted)
      PROVE  BoardParts'
  BY <1>3, BoardRereads, BoardSubmits
<1>4. ASSUME NEW j \in Calls,
             \/ Board!Resolve(j) \/ Board!Probe(j) \/ Board!ScanModels(j) \/ Board!Find(j)
             \/ Board!Refuse(j)
      PROVE  BoardParts'
  BY <1>4, BoardResolves, BoardWaits, BoardFinds
<1>5. ASSUME NEW j \in Calls,
             \/ Board!Write(j) \/ Board!List(j) \/ Board!Answer(j) \/ Board!AnswerError(j)
      PROVE  BoardParts'
  BY <1>5, BoardWrites, BoardLists, BoardAnswers
<1>6. CASE Board!Flip
  BY <1>6, BoardFlips
<1>7. CASE Board!CloseDialog
  BY <1>7, BoardCloses
<1>8. CASE Board!Rebuild
  <2>1. board.behind /\ snapshot' = rows /\ UNCHANGED <<rows, ids, jobs, board>>
    BY <1>8 DEF Board!Rebuild, BoardParts, BoardRemembers
  <2>2. BoardTyped' /\ BoardRemembers' /\ NotRaced' /\ BoardAlone'
    BY <2>1 DEF BoardParts, BoardTyped, BoardRemembers, NotRaced, BoardAlone
  <2>3. OneSpins' /\ OwnDialog'
    BY <2>1 DEF BoardParts, OneSpins, OwnDialog, Spins, OfDialog
  <2> QED BY <2>2, <2>3 DEF BoardParts
<1> QED BY <1>1, <1>2, <1>3, <1>4, <1>5, <1>6, <1>7, <1>8 DEF Board!BoardNext

(* A board begins at rest, over rows that each have an id of their own.    *)
LEMMA BoardStarts ==
  ASSUME Board!BoardInit
  PROVE  BoardParts
<1>1. PICK b \in Boards :
        /\ rows = b.rows /\ snapshot = b.rows /\ jobs = [j \in Calls |-> Null]
        /\ ids = Board!Cardinality({p \in Providers : b.rows[p] # Null})
        /\ board = [list |-> Board!Listed, menu |-> b.menu, busy |-> Null, loading |-> FALSE,
                    dialog |-> Null, moves |-> 0,
                    alone |-> TRUE, crossed |-> FALSE, dismissed |-> FALSE, raced |-> FALSE,
                    behind |-> FALSE]
  BY DEF Board!BoardInit
<1> DEFINE kept == {p \in Providers : rows[p] # Null}
<1>2. ids = Cardinality(kept)
  BY <1>1 DEF Board!Cardinality, Cardinality
<1>3. /\ rows \in Board!Listing /\ snapshot = rows /\ b.menu \subseteq STRING
      /\ \A p \in kept : /\ rows[p].id \in 1 .. Cardinality(kept)
                         /\ p \in Custom => rows[p].custom
                         /\ \A q \in kept : rows[q].id = rows[p].id => q = p
  BY <1>1, BoardAssumption DEF Numbered
<1>4. ids \in Nat
  <2>1. IsFiniteSet(kept)
    BY BoardAssumption, FS_Subset
  <2> QED BY <1>2, <2>1, FS_CardinalityType
<1>5. BoardTyped
  BY <1>1, <1>3, <1>4, ListedFacts DEF BoardTyped, Board!Page
<1>6. \A p \in Providers : Remembers(rows, ids, p, rows[p])
  <2> SUFFICES ASSUME NEW p \in Providers, rows[p] # Null
               PROVE  Remembers(rows, ids, p, rows[p])
    BY DEF Remembers
  <2>1. rows[p] \in Board!Row /\ rows[p].id \in Nat /\ rows[p].version \in Nat
    BY <1>3 DEF Board!Listing, Board!Row
  <2> QED BY <1>2, <1>3, <1>4, <2>1 DEF Remembers
<1>7. /\ board.list = Board!Listed /\ board.dialog = Null /\ \A j \in Calls : jobs[j] = Null
      /\ \A p \in Custom : rows[p] # Null => rows[p].custom
  BY <1>1, <1>3, CatalogueAssumption
<1>8. BoardRemembers
  BY <1>3, <1>6, <1>7, ListedFacts DEF BoardRemembers
<1>9. NotRaced /\ BoardAlone /\ OneSpins /\ OwnDialog
  BY <1>3, <1>7, ListedFacts DEF NotRaced, BoardAlone, OneSpins, OwnDialog, Shows, Spins, OfDialog
<1> QED BY <1>5, <1>8, <1>9 DEF BoardParts

(* The invariant holds of every behaviour.                                 *)
THEOREM BoardInvariance == Spec => []BoardInv
<1>1. Init => BoardInv
  BY BoardStarts DEF Init, BoardInv
<1>2. BoardInv /\ [Next]_vars => BoardInv'
  <2> SUFFICES ASSUME BoardInv, [Next]_vars, part' = "board"
               PROVE  BoardParts'
    BY DEF BoardInv
  <2>1. part = "board" /\ BoardParts
    BY DEF BoardInv, Next, vars
  <2>2. CASE Board!BoardNext
    BY <2>1, <2>2, BoardSteps
  <2>3. CASE UNCHANGED boardOnly
    <3>1. rows' = rows /\ snapshot' = snapshot /\ ids' = ids /\ jobs' = jobs /\ board' = board
      BY <2>3 DEF boardOnly
    <3>2. BoardTyped' /\ BoardRemembers'
      BY <2>1, <3>1 DEF BoardParts, BoardTyped, BoardRemembers
    <3>3. NotRaced' /\ BoardAlone'
      BY <2>1, <3>1 DEF BoardParts, NotRaced, BoardAlone
    <3>4. OneSpins' /\ OwnDialog'
      BY <2>1, <3>1 DEF BoardParts, OneSpins, OwnDialog, Spins, OfDialog
    <3> QED BY <3>2, <3>3, <3>4 DEF BoardParts
  <2> QED BY <2>1, <2>2, <2>3 DEF Next, vars
<1> QED BY <1>1, <1>2, PTL DEF Spec

(* What the board says holds up to the races named, for any providers, any *)
(* rows and any number of requests: a row nobody can reach comes only of   *)
(* proxies saved beside a removal, or while the registry still has what is *)
(* removed; a board left alone shows what is stored, unless the registry   *)
(* missed a write; a row has one request of the page at a time; and an     *)
(* edit turns the switch only by hand, over a row written since, or off a  *)
(* board that showed the registry's word for the row's.                    *)
THEOREM BoardIsTruthful == Spec => BoardTellsTheTruth
<1>1. ASSUME BoardParts
      PROVE  Board!BoardTellsTheTruth
  <2>1. Board!GhostsComeByRace
    BY <1>1 DEF BoardParts, NotRaced, Board!GhostsComeByRace, Board!Ghosts
  <2>2. Board!BoardShowsStoredRows
    <3> SUFFICES ASSUME board.alone, ~board.behind, Board!UnderWay = {}, NEW p \in Providers, p \notin Board!Ghosts
                 PROVE  board.list[p] = Board!Card(p)
      BY DEF Board!BoardShowsStoredRows
    <3>1. \A j \in Calls : jobs[j] = Null
      BY DEF Board!UnderWay
    <3>2. Shows(rows, board.list)
      BY <1>1, <3>1 DEF BoardParts, BoardAlone
    <3>3. p \notin Custom \/ rows[p] = Null \/ rows[p].custom
      BY DEF Board!Ghosts
    <3> QED BY <3>2, <3>3 DEF Shows, CardOf, Board!Card
  <2>3. Board!OneRequestPerRow
    BY <1>1 DEF BoardParts, OneSpins, Spins, Board!OneRequestPerRow, Board!Spinning, Board!Mine,
                Board!UnderWay
  <2> QED BY <2>1, <2>2, <2>3 DEF Board!BoardTellsTheTruth
<1>2. BoardInv => (part = "board" => Board!BoardTellsTheTruth)
  BY <1>1 DEF BoardInv
<1>3. ASSUME BoardParts, Next, part = "board", NEW j \in Calls, NEW p \in Providers,
             Board!At(j, "write"), jobs'[j].at = "list", jobs[j].op = "edit", jobs[j].slug = p,
             rows'[p].enabled # rows[p].enabled, ~board.behind
      PROVE  jobs[j].touched \/ jobs[j].seen # rows[p].version
  <2> DEFINE job == jobs[j]
  <2>1. /\ job # Null /\ job \in Board!Job /\ job.at = "write" /\ p \in Providers
        /\ Edits(rows, ids, job) /\ rows[p] \in Board!Row \union {Null} /\ rows \in Board!Listing
        /\ jobs \in [Calls -> Board!Job \union {Null}]
    BY <1>3, JobFacts, BoardFacts DEF Board!At, BoardParts, BoardTyped
  <2>2. PICK i \in Calls : Board!Write(i)
    <3>1. rows' # rows
      BY <1>3
    <3>2. Board!BoardNext
      BY <1>3 DEF Next
    <3>3. ASSUME NEW i \in Calls, NEW q \in Providers, NEW op \in {"toggle", "delete", "proxy"}
          PROVE  ~(\/ Board!ClickTest(i, q) \/ Board!ClickSync(i, q) \/ Board!ClickToggle(i, q)
                   \/ Board!Elsewhere(i, op, q))
      BY <3>1 DEF Board!ClickTest, Board!ClickSync, Board!ClickToggle, Board!Elsewhere, Board!Begin
    <3>4. /\ \A q \in Providers, mode \in Board!Modes : ~Board!OpenDialog(q, mode)
          /\ ~Board!Flip /\ ~Board!CloseDialog /\ ~Board!Rebuild
      BY <3>1 DEF Board!OpenDialog, Board!Flip, Board!CloseDialog, Board!Rebuild
    <3>5. ASSUME NEW i \in Calls
          PROVE  ~(\/ Board!Reread(i) \/ \E pasted \in Board!Pasted : Board!Submit(i, pasted)
                   \/ Board!Resolve(i) \/ Board!Probe(i) \/ Board!ScanModels(i) \/ Board!Find(i)
                   \/ Board!Refuse(i) \/ Board!List(i) \/ Board!Answer(i) \/ Board!AnswerError(i))
      BY <3>1 DEF Board!Reread, Board!Submit, Board!Begin, Board!Resolve, Board!Probe,
                  Board!ScanModels, Board!Find, Board!Refuse, Board!List, Board!Answer,
                  Board!AnswerError
    <3> QED BY <3>2, <3>3, <3>4, <3>5 DEF Board!BoardNext
  <2>3. i = j
    <3>1. ASSUME i # j
          PROVE  jobs'[j] = jobs[j]
      BY <2>1, <2>2, <3>1 DEF Board!Write, Board!Go
    <3> QED BY <1>3, <2>1, <3>1
  <2>4. ~Board!Collides(job) /\ rows' = [rows EXCEPT ![p] = Board!Written(job)]
    BY <1>3, <2>2, <2>3 DEF Board!Write
  <2>5. rows[p] # Null /\ rows[p].id = job.found.id /\ job.found.id = job.id
    BY <1>3, <2>1, <2>4 DEF Board!Collides, Board!Creates, Edits
  <2>6. rows'[p].enabled = job.enabled
    <3> DEFINE on == job.enabled
               v == rows[p].version + 1
               new == [rows[p] EXCEPT !.enabled = on, !.version = v]
    <3>1. Board!Written(job) = new
      BY <1>3, <2>5 DEF Board!Written
    <3>2. rows'[p] = new
      BY <1>3, <2>1, <2>4, <3>1 DEF Board!Listing
    <3>3. rows[p] \in Board!Row
      BY <2>1, <2>5
    <3> HIDE DEF on, v
    <3>4. new.enabled = on
      BY <3>3 DEF Board!Row
    <3> QED BY <3>2, <3>4 DEF on
  <2>7. PICK row \in Board!Row : /\ job.id # 0 /\ row.id = job.id /\ row.version = job.seen
                                 /\ job.touched \/ job.enabled = row.enabled
                                 /\ Remembers(rows, ids, job.slug, row)
    BY <2>1 DEF Edits
  <2>8. row # Null
    BY BoardAssumption
  <2>9. row.version = rows[p].version => row.enabled = rows[p].enabled
    BY <1>3, <2>5, <2>7, <2>8 DEF Remembers
  <2> QED BY <1>3, <2>6, <2>7, <2>9
<1>4. BoardInv /\ [Next]_vars => [part = "board" => Board!EditKeepsTheSwitch]_vars
  BY <1>3 DEF BoardInv, Board!EditKeepsTheSwitch
<1> QED BY <1>2, <1>4, BoardInvariance, PTL DEF Spec, BoardTellsTheTruth


-----------------------------------------------------------------------------
(* The figures of the dashboard, of a calendar c, a log u and a page o:    *)
(* what Metrics says of the variables, said of parameters.                 *)

Entry == [at : Nat, model : {m1, m2}, ok : BOOLEAN]
Width == Dashboard!MaxWindow

Midnights(c) ==
  /\ c \in Seq(Nat) /\ c # <<>> /\ c[1] = 0
  /\ \A d, e \in DOMAIN c : d < e => c[d] < c[e]

DayIn(c, t) == Dashboard!Max({d \in DOMAIN c : c[d] <= t})
Dated(c, u, date) == {i \in DOMAIN u : DayIn(c, u[i].at) = date}
DateIn(c, window, k) == DayIn(c, window + (k - 1) * Day)
Homes(c, window, k, date) == \A j \in k + 1 .. Width : DateIn(c, window, j) # date
Kept(c, window, k, u) ==
  {i \in Dated(c, u, DateIn(c, window, k)) : Homes(c, window, k, DateIn(c, window, k))}

BucketIn(c, window, k, u) ==
  [date |-> DateIn(c, window, k), requests |-> Cardinality(Kept(c, window, k, u)),
   errors |-> Cardinality({i \in Kept(c, window, k, u) : ~u[i].ok}),
   models |-> [m \in {m1, m2} |-> Cardinality({i \in Kept(c, window, k, u) : u[i].model = m})]]

Buckets(c, window, u) == [k \in 1 .. Width |-> BucketIn(c, window, k, u)]

Evenly(c, opened) ==
  \A d \in DOMAIN c :
    opened - Width < d /\ d <= opened => ~(d < Len(c) /\ c[d + 1] - c[d] # Day)

TrendFollows(c, u, o) ==
  Evenly(c, o.opened) =>
    \A w \in Windows :
      /\ [k \in 1 .. w |-> o.windows[w].trend[k].date] = [k \in 1 .. w |-> o.opened - w + k]
      /\ \A k \in 1 .. w - 1 :
           o.windows[w].trend[k].requests = Cardinality(Dated(c, u, o.windows[w].trend[k].date))

RowsOf(c, o, w) ==
  {i \in DOMAIN o.scan : \E k \in 1 .. w : o.windows[w].trend[k].date = DayIn(c, o.scan[i].at)}

Successes(u, S) == {i \in S : u[i].ok}
Using(u, S, m) == {i \in S : u[i].model = m}

WindowAgrees(c, o, w) ==
  /\ Len(o.windows[w].trend) = w
  /\ o.windows[w].requests = Cardinality(RowsOf(c, o, w))
  /\ o.windows[w].successes = Cardinality(Successes(o.scan, RowsOf(c, o, w)))
  /\ \A m \in {m1, m2} :
       o.windows[w].models[m] = Cardinality(Using(o.scan, RowsOf(c, o, w), m))
  /\ \A v \in Windows :
       v <= w => o.windows[v].trend = SubSeq(o.windows[w].trend, w - v + 1, w)

CardsAgreeOn(o) ==
  o.answered = o.opened => o.requestsToday = o.windows[Width].trend[Width].requests

AddsUp(c, u, o) ==
  TrendFollows(c, u, o) /\ (\A w \in Windows : WindowAgrees(c, o, w)) /\ CardsAgreeOn(o)

(* Of the rows of a log, a scan holds those of the window whose day was    *)
(* over when the page was opened.                                          *)
HasRead(c, u, o) ==
  /\ DOMAIN o.scan \subseteq DOMAIN u
  /\ \A i \in DOMAIN o.scan : o.scan[i] = u[i]
  /\ \A i \in DOMAIN u : o.window <= u[i].at /\ u[i].at < c[o.opened] => i \in DOMAIN o.scan

Opened(c, t, o) == o.opened \in DOMAIN c /\ c[o.opened] <= t

Reads(c, t, u, o) ==
  /\ Opened(c, t, o)
  /\ o.window \in Nat /\ o.window = c[o.opened] - (Width - 1) * Day /\ o.month \in Nat
  /\ o.scan # Null => HasRead(c, u, o)
  /\ o = [at |-> "reading", opened |-> o.opened, window |-> o.window, month |-> o.month,
          scan |-> o.scan, recent |-> o.recent]

Counts(c, t, u, o) ==
  /\ c \in Calendars /\ t \in Nat /\ u \in Seq(Entry)
  /\ o.at \in {"idle", "reading", "shown"}
  /\ o.at = "reading" => Reads(c, t, u, o)
  /\ o.at = "shown" => Opened(c, t, o) /\ AddsUp(c, u, o)

MetricsInv == part = "dashboard" => Counts(calendar, clock, usage, overview)

-----------------------------------------------------------------------------
(* A set of natural numbers that is not empty has a least element.         *)
LEMMA LeastNumber ==
  ASSUME NEW S \in SUBSET Nat, S # {}
  PROVE  \E n \in S : \A m \in S : n <= m
<1> DEFINE R == OpToRel(<, Nat)
<1>1. \E n \in S : \A m \in S : <<m, n>> \notin R
  <2>1. IsWellFoundedOn(R, Nat)
    BY NatLessThanWellFounded
  <2> HIDE DEF R
  <2> QED BY <2>1, WFMin
<1>2. \A n, m \in Nat : m < n => <<m, n>> \in R
  BY DEF OpToRel
<1> HIDE DEF R
<1>3. PICK n \in S : \A m \in S : <<m, n>> \notin R
  BY <1>1
<1>4. ASSUME NEW m \in S PROVE n <= m
  <2>1. n \in Nat /\ m \in Nat
    OBVIOUS
  <2>2. ~(m < n)
    BY <1>2, <1>3, <2>1
  <2> QED BY <2>1, <2>2
<1> QED BY <1>4

(* A finite set of numbers has a bound.                                    *)
LEMMA FiniteSetHasBound ==
  ASSUME NEW S \in SUBSET Nat, IsFiniteSet(S)
  PROVE  \E n \in Nat : \A s \in S : s <= n
<1> DEFINE k == Cardinality(S)
<1>1. k \in Nat /\ ExistsBijection(1 .. k, S)
  BY FS_CardinalityType
<1>2. PICK f \in [1 .. k -> S] : \A s \in S : \E i \in 1 .. k : f[i] = s
  BY <1>1 DEF ExistsBijection, Bijection, Surjection
<1> HIDE DEF k
<1> DEFINE Over(n, i) == \A j \in 1 .. i : f[j] <= n
<1> DEFINE Stuck == {i \in Nat : i <= k /\ ~ \E n \in Nat : Over(n, i)}
<1>3. Stuck = {}
  <2>1. SUFFICES ASSUME Stuck # {} PROVE FALSE
    OBVIOUS
  <2>2. Stuck \in SUBSET Nat
    OBVIOUS
  <2>3. PICK i \in Stuck : \A j \in Stuck : i <= j
    <3> HIDE DEF Stuck
    <3> QED BY <2>1, <2>2, LeastNumber
  <2>4. i \in Nat /\ i <= k /\ ~ \E n \in Nat : Over(n, i)
    OBVIOUS
  <2>5. i # 0
    <3>1. 0 \in Nat /\ Over(0, 0)
      OBVIOUS
    <3> QED BY <2>4, <3>1
  <2>6. i - 1 \in Nat /\ i - 1 <= k /\ ~(i <= i - 1)
    BY <1>1, <2>4, <2>5
  <2>7. i - 1 \notin Stuck
    <3> HIDE DEF Stuck
    <3> QED BY <2>3, <2>6
  <2>8. PICK n \in Nat : Over(n, i - 1)
    BY <2>6, <2>7
  <2>9. f[i] \in Nat
    <3>1. i \in 1 .. k
      BY <1>1, <2>4, <2>5
    <3> QED BY <1>2, <3>1
  <2>10. \E top \in Nat : n <= top /\ f[i] <= top
    <3>1. CASE f[i] <= n
      BY <2>8, <3>1
    <3>2. CASE ~(f[i] <= n)
      BY <2>8, <2>9, <3>2
    <3> QED BY <3>1, <3>2
  <2>11. PICK top \in Nat : n <= top /\ f[i] <= top
    BY <2>10
  <2>12. ASSUME NEW j \in 1 .. i PROVE f[j] <= top
    <3>1. CASE j = i
      BY <2>11, <3>1
    <3>2. CASE j # i
      <4>1. j \in 1 .. i - 1 /\ j \in 1 .. k
        BY <1>1, <2>4, <2>12, <3>2
      <4>2. f[j] <= n /\ f[j] \in Nat
        BY <1>2, <2>8, <4>1
      <4>3. n \in Nat /\ top \in Nat /\ n <= top
        BY <2>8, <2>11
      <4> DEFINE v == f[j]
      <4> HIDE DEF v
      <4>4. v <= n /\ v \in Nat
        BY <4>2 DEF v
      <4>5. v <= top
        BY <4>3, <4>4
      <4> QED BY <4>5 DEF v
    <3> QED BY <3>1, <3>2
  <2> QED BY <2>4, <2>12, <2>11
<1>4. k \notin Stuck
  BY <1>3
<1>5. PICK n \in Nat : Over(n, k)
  BY <1>1, <1>4
<1>6. ASSUME NEW s \in S PROVE s <= n
  <2>1. PICK i \in 1 .. k : f[i] = s
    BY <1>2
  <2> QED BY <1>5, <2>1
<1> QED BY <1>6

(* A set of natural numbers with a bound has a greatest element, and Max   *)
(* finds it.                                                               *)
LEMMA Greatest ==
  ASSUME NEW n \in Nat, NEW S \in SUBSET (0 .. n), S # {}
  PROVE  Dashboard!Max(S) \in S /\ \A s \in S : s <= Dashboard!Max(S)
<1> DEFINE B == {b \in Nat : \A s \in S : s <= b}
<1>1. n \in B
  OBVIOUS
<1>2. B \in SUBSET Nat /\ B # {}
  BY <1>1
<1>3. PICK b \in B : \A a \in B : b <= a
  <2> HIDE DEF B
  <2> QED BY <1>2, LeastNumber
<1>4. b \in S
  <2>1. SUFFICES ASSUME b \notin S PROVE FALSE
    OBVIOUS
  <2>3. b \in Nat /\ \A s \in S : s <= b
    OBVIOUS
  <2>2. b # 0
    <3>1. PICK s \in S : TRUE
      OBVIOUS
    <3>2. s \in Nat /\ s <= b /\ s # b
      BY <2>1, <2>3
    <3> QED BY <2>3, <3>2
  <2>4. ASSUME NEW s \in S PROVE s <= b - 1
    <3>1. s \in Nat /\ s <= b /\ s # b
      BY <2>1, <2>3
    <3> QED BY <2>3, <3>1
  <2>5. b - 1 \in B /\ ~(b <= b - 1)
    BY <2>2, <2>3, <2>4
  <2> HIDE DEF B
  <2> QED BY <1>3, <2>5
<1>5. \E s \in S : \A r \in S : s >= r
  BY <1>3, <1>4
<1>6. Dashboard!Max(S) \in S /\ \A r \in S : Dashboard!Max(S) >= r
  BY <1>5 DEF Dashboard!Max
<1> QED BY <1>6

LEMMA WidthIs ==
  /\ Width \in Windows /\ Width \in Nat \ {0}
  /\ \A w \in Windows : w \in Nat \ {0} /\ w <= Width
<1>1. Windows \subseteq Nat \ {0} /\ Windows # {} /\ IsFiniteSet(Windows)
  BY MetricsAssumption
<1>2. PICK n \in Nat : \A w \in Windows : w <= n
  BY <1>1, FiniteSetHasBound
<1>3. Windows \in SUBSET (0 .. n)
  BY <1>1, <1>2
<1>4. Width \in Windows /\ \A w \in Windows : w <= Width
  BY <1>1, <1>3, Greatest DEF Width, Dashboard!MaxWindow
<1> QED BY <1>1, <1>4

LEMMA MidnightsAre ==
  ASSUME NEW c \in Calendars
  PROVE  /\ Midnights(c) /\ Len(c) \in Nat \ {0} /\ DOMAIN c = 1 .. Len(c)
         /\ \A d \in DOMAIN c : c[d] \in Nat
<1>1. Midnights(c)
  BY MetricsAssumption DEF Midnights
<1>2. c \in Seq(Nat) /\ c # <<>>
  BY <1>1 DEF Midnights
<1> QED BY <1>1, <1>2

(* The day of an instant is the last that has begun.                       *)
LEMMA DayIs ==
  ASSUME NEW c \in Calendars, NEW t \in Nat
  PROVE  /\ DayIn(c, t) \in DOMAIN c /\ c[DayIn(c, t)] <= t
         /\ \A d \in DOMAIN c : c[d] <= t => d <= DayIn(c, t)
<1> DEFINE S == {d \in DOMAIN c : c[d] <= t}
<1>1. Midnights(c) /\ Len(c) \in Nat \ {0} /\ DOMAIN c = 1 .. Len(c)
  BY MidnightsAre
<1>2. 1 \in S
  BY <1>1 DEF Midnights
<1>3. S \in SUBSET (0 .. Len(c)) /\ S # {}
  BY <1>1, <1>2
<1>4. Dashboard!Max(S) \in S /\ \A s \in S : s <= Dashboard!Max(S)
  <2> HIDE DEF S
  <2> QED BY <1>1, <1>3, Greatest
<1> QED BY <1>4 DEF DayIn

LEMMA DayBetween ==
  ASSUME NEW c \in Calendars, NEW t \in Nat, NEW d \in DOMAIN c,
         c[d] <= t, \A e \in DOMAIN c : d < e => t < c[e]
  PROVE  DayIn(c, t) = d
<1>1. Len(c) \in Nat /\ DOMAIN c = 1 .. Len(c) /\ \A e \in DOMAIN c : c[e] \in Nat
  BY MidnightsAre
<1> DEFINE e == DayIn(c, t)
<1>2. e \in DOMAIN c /\ c[e] <= t /\ d <= e
  BY DayIs
<1> HIDE DEF e
<1>3. ~(d < e)
  BY <1>1, <1>2
<1>4. e = d
  BY <1>1, <1>2, <1>3
<1> QED BY <1>4 DEF e

LEMMA DayAtMidnight ==
  ASSUME NEW c \in Calendars, NEW d \in DOMAIN c
  PROVE  DayIn(c, c[d]) = d
<1>1. c[d] \in Nat /\ Midnights(c)
  BY MidnightsAre
<1>2. c[d] <= c[d] /\ \A e \in DOMAIN c : d < e => c[d] < c[e]
  BY <1>1 DEF Midnights
<1> QED BY <1>1, <1>2, DayBetween

-----------------------------------------------------------------------------
(* A sum is what its recursion says.                                       *)
LEMMA TotalIs ==
  ASSUME NEW w \in Nat, NEW f, Len(f) = w, \A k \in 1 .. w : f[k] \in Int
  PROVE  \E sum : /\ sum[0] = 0 /\ \A k \in 1 .. w : sum[k] = sum[k - 1] + f[k]
                  /\ Dashboard!Total(f) = sum[w]
<1> DEFINE Sums(g, n) == g = [k \in 0 .. n |-> IF k = 0 THEN 0 ELSE g[k - 1] + f[k]]
<1>1. \A n \in Nat : \E g : Sums(g, n)
  <2> DEFINE Stuck == {n \in Nat : ~ \E g : Sums(g, n)}
  <2>1. SUFFICES ASSUME Stuck # {} PROVE FALSE
    OBVIOUS
  <2>2. Stuck \in SUBSET Nat
    OBVIOUS
  <2>3. PICK n \in Stuck : \A k \in Stuck : n <= k
    <3> HIDE DEF Stuck
    <3> QED BY <2>1, <2>2, LeastNumber
  <2>4. n \in Nat /\ ~ \E g : Sums(g, n)
    OBVIOUS
  <2>5. n # 0
    <3>1. Sums([k \in 0 .. 0 |-> 0], 0)
      OBVIOUS
    <3> QED BY <2>4, <3>1
  <2>6. n - 1 \in Nat /\ ~(n <= n - 1)
    BY <2>4, <2>5
  <2>7. n - 1 \notin Stuck
    <3> HIDE DEF Stuck
    <3> QED BY <2>3, <2>6
  <2>8. PICK g : Sums(g, n - 1)
    BY <2>6, <2>7
  <2> DEFINE h == [k \in 0 .. n |-> IF k = n THEN g[n - 1] + f[n] ELSE g[k]]
  <2>9. ASSUME NEW k \in 0 .. n PROVE h[k] = IF k = 0 THEN 0 ELSE h[k - 1] + f[k]
    <3>1. CASE k = 0
      BY <2>4, <2>5, <2>8, <3>1
    <3>2. CASE k = n
      <4>1. h[n] = g[n - 1] + f[n] /\ h[n - 1] = g[n - 1]
        BY <2>4, <2>5
      <4> QED BY <2>5, <3>2, <4>1
    <3>3. CASE k # 0 /\ k # n
      <4>1. k \in 0 .. n - 1 /\ k - 1 \in 0 .. n - 1
        BY <2>4, <3>3
      <4>2. g[k] = g[k - 1] + f[k]
        BY <2>8, <3>3, <4>1
      <4>3. h[k] = g[k] /\ h[k - 1] = g[k - 1]
        BY <2>4, <3>3, <4>1
      <4> QED BY <3>3, <4>2, <4>3
    <3> QED BY <3>1, <3>2, <3>3
  <2>10. Sums(h, n)
    <3>1. h = [k \in 0 .. n |-> h[k]]
      OBVIOUS
    <3> HIDE DEF h
    <3> QED BY <2>9, <3>1
  <2> QED BY <2>4, <2>10
<1> DEFINE sum == CHOOSE g : Sums(g, w)
<1>2. Dashboard!Total(f) = sum[w]
  BY DEF Dashboard!Total
<1>3. Sums(sum, w)
  <2>1. \E g : Sums(g, w)
    BY <1>1
  <2> QED BY <2>1
<1> HIDE DEF sum
<1>4. sum[0] = 0 /\ \A k \in 1 .. w : sum[k] = sum[k - 1] + f[k]
  BY <1>3
<1> QED BY <1>2, <1>4

(* P is cut into the first w of the parts S, and f says how large each is. *)
Parted(U, P, w, S, f) ==
  /\ IsFiniteSet(U) /\ w \in Nat /\ \A k \in 1 .. w : S[k] \subseteq U
  /\ \A j, k \in 1 .. w : j < k => S[j] \cap S[k] = {}
  /\ Len(f) = w /\ \A k \in 1 .. w : f[k] = Cardinality(S[k])
  /\ P \subseteq U /\ \A i \in U : i \in P <=> \E k \in 1 .. w : i \in S[k]

(* Counting part by part, each member once, is counting.                   *)
LEMMA Tallied ==
  ASSUME NEW U, NEW P, NEW w, NEW S, NEW f, Parted(U, P, w, S, f)
  PROVE  Dashboard!Total(f) = Cardinality(P)
<1>0. /\ IsFiniteSet(U) /\ w \in Nat /\ \A k \in 1 .. w : S[k] \subseteq U
      /\ \A j, k \in 1 .. w : j < k => S[j] \cap S[k] = {}
      /\ Len(f) = w /\ \A k \in 1 .. w : f[k] = Cardinality(S[k])
      /\ P \subseteq U /\ \A i \in U : i \in P <=> \E k \in 1 .. w : i \in S[k]
  BY DEF Parted
<1> DEFINE Upto(n) == {i \in U : \E k \in 1 .. n : i \in S[k]}
<1>1. \A k \in 1 .. w : IsFiniteSet(S[k]) /\ f[k] \in Nat
  <2>1. ASSUME NEW k \in 1 .. w PROVE IsFiniteSet(S[k]) /\ Cardinality(S[k]) \in Nat
    <3>1. S[k] \in SUBSET U
      BY <1>0
    <3>2. IsFiniteSet(S[k])
      BY <1>0, <3>1, FS_Subset
    <3> QED BY <3>2, FS_CardinalityType
  <2> QED BY <1>0, <2>1
<1>2. PICK sum : /\ sum[0] = 0 /\ \A k \in 1 .. w : sum[k] = sum[k - 1] + f[k]
                 /\ Dashboard!Total(f) = sum[w]
  <2>1. w \in Nat /\ Len(f) = w /\ \A k \in 1 .. w : f[k] \in Int
    BY <1>0, <1>1
  <2> QED BY <2>1, TotalIs, Zenon
<1>3. \A n : IsFiniteSet(Upto(n)) /\ Cardinality(Upto(n)) \in Nat
  <2>1. ASSUME NEW n PROVE IsFiniteSet(Upto(n)) /\ Cardinality(Upto(n)) \in Nat
    <3>1. Upto(n) \in SUBSET U
      OBVIOUS
    <3> HIDE DEF Upto
    <3>2. IsFiniteSet(Upto(n))
      BY <1>0, <3>1, FS_Subset
    <3> QED BY <3>2, FS_CardinalityType
  <2> HIDE DEF Upto
  <2> QED BY <2>1
<1> DEFINE Wrong == {n \in Nat : n <= w /\ sum[n] # Cardinality(Upto(n))}
<1>4. Wrong = {}
  <2>1. SUFFICES ASSUME Wrong # {} PROVE FALSE
    OBVIOUS
  <2>2. Wrong \in SUBSET Nat
    OBVIOUS
  <2>3. PICK n \in Wrong : \A k \in Wrong : n <= k
    <3> HIDE DEF Wrong
    <3> QED BY <2>1, <2>2, LeastNumber
  <2>4. n \in Nat /\ n <= w /\ sum[n] # Cardinality(Upto(n))
    OBVIOUS
  <2>5. n # 0
    <3>1. Upto(0) = {}
      OBVIOUS
    <3> HIDE DEF Upto
    <3>2. Cardinality(Upto(0)) = 0
      BY <3>1, FS_EmptySet
    <3> QED BY <1>2, <2>4, <3>2
  <2>6. n - 1 \in Nat /\ n - 1 <= w /\ ~(n <= n - 1) /\ n \in 1 .. w
    BY <1>0, <2>4, <2>5
  <2>7. sum[n - 1] = Cardinality(Upto(n - 1))
    <3>1. n - 1 \notin Wrong
      <4> HIDE DEF Wrong
      <4> QED BY <2>3, <2>6
    <3> QED BY <2>6, <3>1
  <2> DEFINE A == Upto(n - 1)
  <2> DEFINE B == S[n]
  <2>8. Upto(n) = A \cup B
    <3>1. ASSUME NEW i \in U PROVE i \in Upto(n) <=> i \in A \/ i \in B
      <4>1. \A k : k \in 1 .. n <=> k \in 1 .. n - 1 \/ k = n
        BY <2>6
      <4> QED BY <3>1, <4>1
    <3>2. B \subseteq U
      BY <1>0, <2>6
    <3> QED BY <3>1, <3>2
  <2>9. A \cap B = {}
    <3>1. SUFFICES ASSUME NEW i \in A, i \in B PROVE FALSE
      OBVIOUS
    <3>2. PICK k \in 1 .. n - 1 : i \in S[k]
      BY <3>1
    <3>3. k \in 1 .. w /\ k < n
      BY <1>0, <2>6, <3>2
    <3>4. S[k] \cap S[n] = {}
      BY <1>0, <2>6, <3>3
    <3> QED BY <3>1, <3>2, <3>4
  <2> HIDE DEF A, B
  <2>10. IsFiniteSet(A) /\ IsFiniteSet(B) /\ Cardinality(A) \in Nat /\ Cardinality(B) \in Nat
         /\ sum[n] = Cardinality(A) + Cardinality(B)
    <3>1. IsFiniteSet(A) /\ Cardinality(A) \in Nat /\ sum[n - 1] = Cardinality(A)
      BY <1>3, <2>7 DEF A
    <3>2. IsFiniteSet(B) /\ f[n] = Cardinality(B) /\ f[n] \in Nat
      BY <1>0, <1>1, <2>6 DEF B
    <3> HIDE DEF Upto
    <3>3. sum[n] = sum[n - 1] + f[n]
      BY <1>2, <2>6
    <3> QED BY <3>1, <3>2, <3>3
  <2>11. Cardinality(A \cup B) = Cardinality(A) + Cardinality(B)
    <3>1. Cardinality(A \cup B) = Cardinality(A) + Cardinality(B) - Cardinality(A \cap B)
      BY <2>10, FS_Union
    <3>2. Cardinality(A \cap B) = 0
      BY <2>9, FS_EmptySet
    <3> QED BY <2>10, <3>1, <3>2
  <2> HIDE DEF Upto
  <2> QED BY <2>4, <2>8, <2>10, <2>11
<1>5. w \notin Wrong
  BY <1>4
<1>6. sum[w] = Cardinality(Upto(w))
  BY <1>0, <1>5
<1>7. Upto(w) = P
  BY <1>0
<1> HIDE DEF Upto
<1> QED BY <1>2, <1>6, <1>7

-----------------------------------------------------------------------------
(* The days of the window.                                                 *)
LEMMA StepsAdd ==
  /\ Day \in Nat \ {0}
  /\ \A a \in Nat : a * Day \in Nat
  /\ \A a, b \in Nat : (a + b) * Day = a * Day + b * Day
<1>1. Day \in Nat \ {0}
  BY MetricsAssumption
<1>2. ASSUME NEW a \in Nat PROVE a * Day \in Nat
  BY <1>1
<1>3. ASSUME NEW a \in Nat, NEW b \in Nat PROVE (a + b) * Day = a * Day + b * Day
  BY <1>1
<1> QED BY <1>1, <1>2, <1>3

LEMMA InstantIs ==
  ASSUME NEW window \in Nat, NEW k \in 1 .. Width
  PROVE  window + (k - 1) * Day \in Nat
<1>1. k - 1 \in Nat
  BY WidthIs
<1> DEFINE a == k - 1
<1>2. a * Day \in Nat
  <2> HIDE DEF a
  <2> QED BY <1>1, StepsAdd DEF a
<1> DEFINE b == a * Day
<1>3. b \in Nat
  BY <1>2
<1> HIDE DEF b
<1>4. window + b \in Nat
  BY <1>3
<1> QED BY <1>4 DEF b

LEMMA DatesAreDays ==
  ASSUME NEW c \in Calendars, NEW window \in Nat, NEW k \in 1 .. Width
  PROVE  DateIn(c, window, k) \in DOMAIN c
<1> DEFINE t == window + (k - 1) * Day
<1>1. t \in Nat
  BY InstantIs
<1> HIDE DEF t
<1>2. DayIn(c, t) \in DOMAIN c
  BY <1>1, DayIs
<1> QED BY <1>2 DEF t, DateIn

LEMMA LastDate ==
  ASSUME NEW c \in Calendars, NEW opened \in DOMAIN c, NEW window \in Nat,
         window = c[opened] - (Width - 1) * Day
  PROVE  DateIn(c, window, Width) = opened
<1> DEFINE b == (Width - 1) * Day
<1>1. Width \in 1 .. Width
  BY WidthIs
<1>2. b \in Nat
  <2> DEFINE a == Width - 1
  <2>1. a \in Nat
    BY WidthIs
  <2> HIDE DEF a
  <2>2. a * Day \in Nat
    BY <2>1, StepsAdd
  <2> QED BY <2>2 DEF a
<1>3. window = c[opened] - b
  OBVIOUS
<1> HIDE DEF b
<1>4. c[opened] \in Nat
  BY MidnightsAre
<1>5. window + b = c[opened]
  BY <1>2, <1>3, <1>4
<1>6. DayIn(c, window + b) = opened
  BY <1>5, DayAtMidnight
<1> QED BY <1>6 DEF DateIn, b

(* Where every day of the window is 24 hours long, each midnight is that   *)
(* many days before the last.                                              *)
LEMMA EvenMidnights ==
  ASSUME NEW c \in Calendars, NEW opened \in DOMAIN c, NEW window \in Nat,
         window = c[opened] - (Width - 1) * Day, Evenly(c, opened)
  PROVE  \A j \in 0 .. Width - 1 : /\ opened - j \in DOMAIN c
                                   /\ c[opened - j] = c[opened] - j * Day
<1> DEFINE Wrong == {j \in Nat : /\ j <= Width - 1
                                 /\ ~(/\ opened - j \in DOMAIN c
                                      /\ c[opened - j] = c[opened] - j * Day)}
<1>1. Wrong = {}
  <2>1. SUFFICES ASSUME Wrong # {} PROVE FALSE
    OBVIOUS
  <2>2. Wrong \in SUBSET Nat
    OBVIOUS
  <2>3. PICK j \in Wrong : \A i \in Wrong : j <= i
    <3> HIDE DEF Wrong
    <3> QED BY <2>1, <2>2, LeastNumber
  <2>4. /\ j \in Nat /\ j <= Width - 1
        /\ ~(opened - j \in DOMAIN c /\ c[opened - j] = c[opened] - j * Day)
    OBVIOUS
  <2>5. /\ Midnights(c) /\ Len(c) \in Nat /\ DOMAIN c = 1 .. Len(c) /\ c[opened] \in Nat
        /\ Width \in Nat \ {0} /\ opened \in 1 .. Len(c) /\ Day \in Nat \ {0}
    BY MidnightsAre, WidthIs, StepsAdd
  <2>6. j # 0
    <3>1. CASE j = 0
      <4>1. opened - j = opened /\ j * Day = 0
        BY <2>5, <3>1
      <4> QED BY <2>4, <2>5, <4>1
    <3> QED BY <3>1
  <2>7. j - 1 \in Nat /\ j - 1 <= Width - 1 /\ ~(j <= j - 1)
    BY <2>4, <2>5, <2>6
  <2> DEFINE e == opened - (j - 1)
  <2>8. e \in DOMAIN c /\ c[e] = c[opened] - (j - 1) * Day
    <3>1. j - 1 \notin Wrong
      <4> HIDE DEF Wrong
      <4> QED BY <2>3, <2>7
    <3> QED BY <2>7, <3>1
  <2> DEFINE m == (j - 1) * Day
  <2> DEFINE n == (Width - 1 - j) * Day
  <2>9. m \in Nat /\ n \in Nat /\ (Width - 1) * Day = m + n + Day /\ j * Day = m + Day
    <3> DEFINE a == j - 1
    <3> DEFINE b == Width - 1 - j
    <3>1. a \in Nat /\ b \in Nat /\ j = a + 1 /\ Width - 1 = (a + b) + 1
      BY <2>4, <2>5, <2>7
    <3> HIDE DEF a, b
    <3>2. a * Day \in Nat /\ b * Day \in Nat /\ 1 * Day = Day /\ (a + 1) * Day = a * Day + 1 * Day
      BY <3>1, StepsAdd
    <3>3. (a + b) * Day = a * Day + b * Day /\ ((a + b) + 1) * Day = (a + b) * Day + 1 * Day
      <4>1. a + b \in Nat
        BY <3>1
      <4> QED BY <3>1, <4>1, StepsAdd
    <3>4. (Width - 1) * Day = ((a + b) + 1) * Day /\ j * Day = (a + 1) * Day
      BY <3>1
    <3>5. (Width - 1) * Day = a * Day + b * Day + Day /\ j * Day = a * Day + Day
      BY <2>5, <3>2, <3>3, <3>4
    <3> QED BY <3>2, <3>5 DEF a, b
  <2>10. window = c[opened] - (m + n + Day) /\ c[e] = c[opened] - m
    BY <2>8, <2>9
  <2> HIDE DEF m, n
  <2> DEFINE d == opened - j
  <2>11. c[e] > 0 /\ e = d + 1 /\ d < opened /\ opened - Width < d /\ e \in 1 .. Len(c) /\ d \in Int
    <3>1. c[e] > 0
      <4> HIDE DEF e
      <4> QED BY <2>5, <2>9, <2>10
    <3>2. e \in 1 .. Len(c)
      BY <2>5, <2>8
    <3>3. opened \in Int /\ Width \in Int /\ j \in Int /\ 0 < j /\ j <= Width - 1
      BY <2>4, <2>5, <2>6
    <3>4. e = d + 1 /\ d < opened /\ opened - Width < d /\ d \in Int
      BY <3>3
    <3> QED BY <3>1, <3>2, <3>4
  <2>12. opened - j = d
    OBVIOUS
  <2> HIDE DEF e, d
  <2>13. e # 1
    BY <2>11, <2>5 DEF Midnights
  <2>14. d \in DOMAIN c /\ d < Len(c)
    BY <2>5, <2>11, <2>13
  <2>15. c[d + 1] - c[d] = Day
    <3>1. opened - Width < d /\ d <= opened
      BY <2>5, <2>11
    <3>2. \A f \in DOMAIN c :
            opened - Width < f /\ f <= opened => ~(f < Len(c) /\ c[f + 1] - c[f] # Day)
      BY DEF Evenly
    <3> QED BY <2>14, <3>1, <3>2
  <2>16. c[d] \in Nat /\ c[e] \in Nat /\ c[e] - c[d] = Day
    BY <2>8, <2>11, <2>14, <2>15, MidnightsAre
  <2>17. c[d] = c[opened] - (m + Day)
    <3> DEFINE p == c[opened]
    <3> DEFINE q == c[e]
    <3> DEFINE r == c[d]
    <3>1. p \in Nat /\ q \in Nat /\ r \in Nat /\ Day \in Nat /\ m \in Nat
          /\ q - r = Day /\ q = p - m
      BY <2>5, <2>9, <2>10, <2>16
    <3> HIDE DEF p, q, r
    <3>2. r = p - (m + Day)
      BY <3>1
    <3> QED BY <3>2 DEF p, r
  <2> QED BY <2>4, <2>9, <2>12, <2>14, <2>17
<1>2. ASSUME NEW j \in 0 .. Width - 1
      PROVE  opened - j \in DOMAIN c /\ c[opened - j] = c[opened] - j * Day
  <2>1. j \in Nat /\ j <= Width - 1 /\ j \notin Wrong
    BY <1>1, WidthIs
  <2> QED BY <2>1
<1> QED BY <1>2

(* There the buckets are of consecutive dates, and each is the last of its *)
(* date.                                                                   *)
LEMMA EvenDates ==
  ASSUME NEW c \in Calendars, NEW opened \in DOMAIN c, NEW window \in Nat,
         window = c[opened] - (Width - 1) * Day, Evenly(c, opened), NEW k \in 1 .. Width
  PROVE  /\ opened - Width + k \in DOMAIN c /\ DateIn(c, window, k) = opened - Width + k
         /\ window <= c[opened - Width + k]
<1>1. Width \in Nat \ {0} /\ k \in Nat /\ 1 <= k /\ k <= Width /\ opened \in Nat
      /\ c[opened] \in Nat
  BY WidthIs, MidnightsAre
<1> DEFINE a == k - 1
<1> DEFINE b == Width - k
<1>2. a \in Nat /\ b \in Nat /\ b \in 0 .. Width - 1 /\ Width - 1 = a + b
      /\ opened - b = opened - Width + k
  BY <1>1
<1> DEFINE d == opened - b
<1>3. d \in DOMAIN c /\ c[d] = c[opened] - b * Day
  <2> HIDE DEF b
  <2> QED BY <1>2, EvenMidnights
<1> HIDE DEF d
<1>4. a * Day \in Nat /\ b * Day \in Nat /\ (Width - 1) * Day = a * Day + b * Day
  <2> HIDE DEF a, b
  <2>1. a * Day \in Nat /\ b * Day \in Nat /\ (a + b) * Day = a * Day + b * Day
    BY <1>2, StepsAdd
  <2> QED BY <1>2, <2>1
<1> DEFINE m == a * Day
<1> DEFINE n == b * Day
<1>5. m \in Nat /\ n \in Nat /\ window = c[opened] - (m + n) /\ c[d] = c[opened] - n
  BY <1>3, <1>4
<1> HIDE DEF m, n
<1>6. window + m = c[d] /\ window <= c[d]
  BY <1>1, <1>5
<1>7. DayIn(c, window + m) = d
  BY <1>3, <1>6, DayAtMidnight
<1>8. DateIn(c, window, k) = d
  BY <1>7 DEF DateIn, m
<1> QED BY <1>2, <1>3, <1>6, <1>8 DEF d

-----------------------------------------------------------------------------
AllBuckets(c, window, u) == {BucketIn(c, window, k, u) : k \in 1 .. Width}

(* A window is the end of the widest, bucket by bucket.                    *)
LEMMA SliceIsTheEnd ==
  ASSUME NEW c, NEW window, NEW u, NEW w \in Windows,
         NEW slice, slice = Dashboard!Slice(Buckets(c, window, u), w)
  PROVE  /\ slice \in Seq(AllBuckets(c, window, u)) /\ Len(slice) = w
         /\ \A k \in 1 .. w : slice[k] = BucketIn(c, window, Width - w + k, u)
<1> DEFINE V == AllBuckets(c, window, u)
<1> DEFINE days == Buckets(c, window, u)
<1> DEFINE a == Width - w + 1
<1>1. w \in Nat \ {0} /\ w <= Width /\ Width \in Nat \ {0}
  BY WidthIs
<1>2. Len(days) = Width /\ \A k \in 1 .. Width : days[k] = BucketIn(c, window, k, u) /\ days[k] \in V
  BY <1>1 DEF Buckets, AllBuckets
<1> HIDE DEF days, V
<1>3. slice = SubSeq(days, a, Width)
  BY <1>2 DEF Dashboard!Slice, days
<1>4. a \in Int /\ Width \in Int /\ a <= Width /\ Width - a + 1 = w /\ \A i \in a .. Width : days[i] \in V
  BY <1>1, <1>2
<1>5. \A k \in 1 .. w : a + k - 1 = Width - w + k /\ Width - w + k \in 1 .. Width
  BY <1>1
<1> HIDE DEF a
<1>6. /\ slice \in Seq(V) /\ Len(slice) = Width - a + 1
      /\ \A k \in 1 .. Width - a + 1 : slice[k] = days[a + k - 1]
  BY <1>3, <1>4, SubSeqProperties
<1>7. ASSUME NEW k \in 1 .. w PROVE slice[k] = BucketIn(c, window, Width - w + k, u)
  <2>1. slice[k] = days[a + k - 1] /\ a + k - 1 = Width - w + k
    BY <1>4, <1>5, <1>6
  <2>2. days[Width - w + k] = BucketIn(c, window, Width - w + k, u)
    BY <1>2, <1>5
  <2> QED BY <2>1, <2>2
<1> QED BY <1>4, <1>6, <1>7 DEF V

EndOf(s, v, w) == SubSeq(s, w - v + 1, w)

(* A narrower window is the end of a wider one.                            *)
LEMMA NarrowerIsTheEnd ==
  ASSUME NEW c, NEW window, NEW u, NEW w \in Windows, NEW v \in Windows, v <= w
  PROVE  Dashboard!Slice(Buckets(c, window, u), v) =
           EndOf(Dashboard!Slice(Buckets(c, window, u), w), v, w)
<1> DEFINE V == AllBuckets(c, window, u)
<1> DEFINE s == Dashboard!Slice(Buckets(c, window, u), v)
<1> DEFINE r == Dashboard!Slice(Buckets(c, window, u), w)
<1> DEFINE a == w - v + 1
<1> DEFINE q == SubSeq(r, a, w)
<1>1. w \in Nat \ {0} /\ w <= Width /\ Width \in Nat \ {0} /\ v \in Nat \ {0}
  BY WidthIs
<1>2. s \in Seq(V) /\ Len(s) = v /\ \A k \in 1 .. v : s[k] = BucketIn(c, window, Width - v + k, u)
  <2>1. s = Dashboard!Slice(Buckets(c, window, u), v)
    OBVIOUS
  <2> HIDE DEF s
  <2> QED BY <2>1, SliceIsTheEnd
<1>3. r \in Seq(V) /\ Len(r) = w /\ \A k \in 1 .. w : r[k] = BucketIn(c, window, Width - w + k, u)
  <2>1. r = Dashboard!Slice(Buckets(c, window, u), w)
    OBVIOUS
  <2> HIDE DEF r
  <2> QED BY <2>1, SliceIsTheEnd
<1> HIDE DEF s, r, V
<1>4. a \in Int /\ w \in Int /\ a <= w /\ w - a + 1 = v /\ \A i \in a .. w : r[i] \in V
  BY <1>1, <1>3, ElementOfSeq
<1>5. \A k \in 1 .. v : /\ a + k - 1 \in 1 .. w /\ Width - w + (a + k - 1) = Width - v + k
  BY <1>1
<1> HIDE DEF a
<1>6. /\ q \in Seq(V) /\ Len(q) = w - a + 1 /\ \A k \in 1 .. w - a + 1 : q[k] = r[a + k - 1]
  BY <1>4, SubSeqProperties
<1> HIDE DEF q
<1>7. ASSUME NEW k \in 1 .. v PROVE q[k] = s[k]
  <2> DEFINE j == a + k - 1
  <2>1. q[k] = r[j] /\ j \in 1 .. w /\ Width - w + j = Width - v + k
    BY <1>4, <1>5, <1>6
  <2> HIDE DEF j
  <2>2. r[j] = BucketIn(c, window, Width - v + k, u)
    BY <1>3, <2>1
  <2> QED BY <1>2, <2>1, <2>2
<1>8. q = s
  BY <1>2, <1>4, <1>6, <1>7, SeqEqual
<1> QED BY <1>8 DEF q, s, r, a, EndOf

(* A date of the window has a last bucket.                                 *)
LEMMA LastHome ==
  ASSUME NEW c, NEW window, NEW k \in 1 .. Width, NEW date, date = DateIn(c, window, k)
  PROVE  \E j \in k .. Width : DateIn(c, window, j) = date /\ Homes(c, window, j, date)
<1> DEFINE S == {j \in k .. Width : DateIn(c, window, j) = date}
<1>1. Width \in Nat /\ k \in Nat /\ S \in SUBSET (0 .. Width) /\ k \in S
  BY WidthIs
<1> DEFINE j == Dashboard!Max(S)
<1>2. j \in S /\ \A i \in S : i <= j
  <2> HIDE DEF S
  <2> QED BY <1>1, Greatest
<1> HIDE DEF j
<1>3. j \in k .. Width /\ DateIn(c, window, j) = date
  BY <1>2
<1>4. ASSUME NEW i \in j + 1 .. Width, DateIn(c, window, i) = date PROVE FALSE
  <2>1. i \in k .. Width /\ ~(i <= j)
    BY <1>1, <1>3, <1>4
  <2> QED BY <1>2, <1>4, <2>1
<1> QED BY <1>3, <1>4 DEF Homes

-----------------------------------------------------------------------------
(* The figures of a window count the rows of its dates, each once.         *)
Share(c, window, u, w, k) == Kept(c, window, Width - w + k, u)

Dates(c, window, u, w) ==
  {i \in DOMAIN u : \E k \in 1 .. w : DateIn(c, window, Width - w + k) = DayIn(c, u[i].at)}

LEMMA SharesAreApart ==
  ASSUME NEW c, NEW window, NEW u, NEW w \in Windows,
         NEW j \in 1 .. w, NEW k \in 1 .. w, j < k
  PROVE  Share(c, window, u, w, j) \cap Share(c, window, u, w, k) = {}
<1>1. SUFFICES ASSUME NEW i \in Share(c, window, u, w, j), i \in Share(c, window, u, w, k) PROVE FALSE
  OBVIOUS
<1> DEFINE a == Width - w + j
<1> DEFINE b == Width - w + k
<1>2. b \in a + 1 .. Width
  BY WidthIs
<1> HIDE DEF a, b
<1>3. DayIn(c, u[i].at) = DateIn(c, window, a) /\ Homes(c, window, a, DateIn(c, window, a))
  BY <1>1 DEF Share, Kept, Dated, a
<1>4. DayIn(c, u[i].at) = DateIn(c, window, b)
  BY <1>1 DEF Share, Kept, Dated, b
<1> QED BY <1>2, <1>3, <1>4 DEF Homes

LEMMA SharesAreAll ==
  ASSUME NEW c, NEW window, NEW u, NEW w \in Windows, NEW i \in DOMAIN u
  PROVE  i \in Dates(c, window, u, w) <=> \E k \in 1 .. w : i \in Share(c, window, u, w, k)
<1>1. ASSUME NEW k \in 1 .. w, i \in Share(c, window, u, w, k) PROVE i \in Dates(c, window, u, w)
  BY <1>1 DEF Share, Kept, Dated, Dates
<1>2. ASSUME i \in Dates(c, window, u, w) PROVE \E k \in 1 .. w : i \in Share(c, window, u, w, k)
  <2> DEFINE date == DayIn(c, u[i].at)
  <2>1. PICK k \in 1 .. w : DateIn(c, window, Width - w + k) = date
    BY <1>2 DEF Dates
  <2> HIDE DEF date
  <2> DEFINE a == Width - w + k
  <2>2. a \in 1 .. Width
    BY WidthIs
  <2> HIDE DEF a
  <2>3. PICK b \in a .. Width : DateIn(c, window, b) = date /\ Homes(c, window, b, date)
    <3>1. date = DateIn(c, window, a)
      BY <2>1 DEF a
    <3> QED BY <2>2, <3>1, LastHome
  <2> DEFINE j == b - (Width - w)
  <2>4. j \in 1 .. w /\ Width - w + j = b
    BY <2>2, <2>3, WidthIs DEF a
  <2> HIDE DEF j
  <2>5. i \in Kept(c, window, b, u)
    BY <2>3 DEF Kept, Dated, date
  <2>6. i \in Share(c, window, u, w, j)
    BY <2>4, <2>5 DEF Share
  <2> QED BY <2>4, <2>6
<1> QED BY <1>1, <1>2

(* A figure that counts, in each bucket, the rows of a kind counts those   *)
(* of the window.                                                          *)
CountsShares(c, window, u, w, T, f) ==
  /\ IsFiniteSet(DOMAIN u) /\ Len(f) = w
  /\ \A k \in 1 .. w : f[k] = Cardinality(Share(c, window, u, w, k) \cap T)

LEMMA FigureIs ==
  ASSUME NEW c, NEW window, NEW u, NEW w \in Windows, NEW T, NEW f,
         CountsShares(c, window, u, w, T, f)
  PROVE  Dashboard!Total(f) = Cardinality(Dates(c, window, u, w) \cap T)
<1> DEFINE S == [k \in 1 .. w |-> Share(c, window, u, w, k) \cap T]
<1> DEFINE U == DOMAIN u
<1>1. w \in Nat /\ IsFiniteSet(U) /\ Len(f) = w
  BY WidthIs DEF CountsShares
<1>2. \A k \in 1 .. w : S[k] = Share(c, window, u, w, k) \cap T
  OBVIOUS
<1>3. \A k \in 1 .. w : S[k] \subseteq U
  BY <1>2 DEF Share, Kept, Dated
<1>4. \A j, k \in 1 .. w : j < k => S[j] \cap S[k] = {}
  <2>1. ASSUME NEW j \in 1 .. w, NEW k \in 1 .. w, j < k PROVE S[j] \cap S[k] = {}
    <3>1. Share(c, window, u, w, j) \cap Share(c, window, u, w, k) = {}
      BY <2>1, SharesAreApart
    <3> QED BY <3>1
  <2> HIDE DEF S
  <2> QED BY <2>1
<1>5. \A k \in 1 .. w : f[k] = Cardinality(S[k])
  BY DEF CountsShares
<1> HIDE DEF S
<1> DEFINE P == Dates(c, window, u, w) \cap T
<1>6. P \in SUBSET U
  BY DEF Dates
<1>7. ASSUME NEW i \in U PROVE i \in P <=> \E k \in 1 .. w : i \in S[k]
  <2>1. i \in Dates(c, window, u, w) <=> \E k \in 1 .. w : i \in Share(c, window, u, w, k)
    BY SharesAreAll
  <2> QED BY <1>2, <2>1
<1> HIDE DEF P, U
<1>8. Parted(U, P, w, S, f)
  BY <1>1, <1>3, <1>4, <1>5, <1>6, <1>7 DEF Parted
<1>9. Dashboard!Total(f) = Cardinality(P)
  BY <1>8, Tallied
<1> QED BY <1>9 DEF P

LEMMA FoldIs ==
  ASSUME NEW c, NEW window, NEW u, NEW w \in Windows, IsFiniteSet(DOMAIN u),
         \A i \in DOMAIN u : u[i] \in Entry,
         NEW fold, fold = Dashboard!FoldWindow(Buckets(c, window, u), w),
         NEW slice, slice = Dashboard!Slice(Buckets(c, window, u), w)
  PROVE  /\ fold.trend = slice
         /\ fold.requests = Cardinality(Dates(c, window, u, w))
         /\ fold.successes = Cardinality(Successes(u, Dates(c, window, u, w)))
         /\ \A m \in {m1, m2} :
              fold.models[m] = Cardinality(Using(u, Dates(c, window, u, w), m))
<1> DEFINE U == DOMAIN u
<1> DEFINE D == Dates(c, window, u, w)
<1> DEFINE f == [k \in 1 .. w |-> slice[k].requests]
<1> DEFINE g == [k \in 1 .. w |-> slice[k].requests - slice[k].errors]
<1> DEFINE h(m) == [k \in 1 .. w |-> slice[k].models[m]]
<1> DEFINE OK == {i \in U : u[i].ok}
<1> DEFINE By(m) == {i \in U : u[i].model = m}
<1>1. /\ fold.trend = slice /\ fold.requests = Dashboard!Total(f)
      /\ fold.successes = Dashboard!Total(g)
      /\ \A m \in {m1, m2} : fold.models[m] = Dashboard!Total(h(m))
  BY DEF Dashboard!FoldWindow
<1>2. w \in Nat /\ Len(f) = w /\ Len(g) = w /\ \A m : Len(h(m)) = w
  BY WidthIs
<1>3. ASSUME NEW k \in 1 .. w
      PROVE  /\ slice[k].requests = Cardinality(Share(c, window, u, w, k))
             /\ slice[k].errors = Cardinality({i \in Share(c, window, u, w, k) : ~u[i].ok})
             /\ \A m \in {m1, m2} :
                  slice[k].models[m] = Cardinality({i \in Share(c, window, u, w, k) : u[i].model = m})
  <2>1. slice[k] = BucketIn(c, window, Width - w + k, u)
    BY SliceIsTheEnd
  <2> QED BY <2>1 DEF BucketIn, Share
<1> HIDE DEF D
<1>4. D \subseteq U /\ \A k : Share(c, window, u, w, k) \subseteq U
  BY DEF D, Dates, Share, Kept, Dated
<1>5. fold.requests = Cardinality(D)
  <2>1. ASSUME NEW k \in 1 .. w PROVE f[k] = Cardinality(Share(c, window, u, w, k) \cap U)
    <3>1. Share(c, window, u, w, k) \cap U = Share(c, window, u, w, k)
      BY <1>4
    <3> QED BY <1>3, <3>1
  <2> HIDE DEF f, U
  <2>2. Dashboard!Total(f) = Cardinality(Dates(c, window, u, w) \cap U)
    <3>1. CountsShares(c, window, u, w, U, f)
      BY <1>2, <2>1 DEF CountsShares
    <3> QED BY <3>1, FigureIs
  <2>3. D \cap U = D
    BY <1>4
  <2> QED BY <1>1, <2>2, <2>3 DEF D
<1>6. fold.successes = Cardinality(Successes(u, D))
  <2>1. ASSUME NEW k \in 1 .. w PROVE g[k] = Cardinality(Share(c, window, u, w, k) \cap OK)
    <3> DEFINE A == Share(c, window, u, w, k)
    <3> DEFINE B == {i \in A : ~u[i].ok}
    <3>1. slice[k].requests = Cardinality(A) /\ slice[k].errors = Cardinality(B)
      BY <1>3, <2>1
    <3>2. A \subseteq U /\ B \subseteq A /\ A \cap OK = A \ B /\ A \cap B = B
      BY <1>4
    <3>3. g[k] = slice[k].requests - slice[k].errors
      BY <2>1
    <3> HIDE DEF A, B, OK, g
    <3>4. IsFiniteSet(A)
      BY <3>2, FS_Subset
    <3>5. Cardinality(A \ B) = Cardinality(A) - Cardinality(A \cap B)
      BY <3>4, FS_Difference
    <3>6. g[k] = Cardinality(A \cap OK)
      BY <3>1, <3>2, <3>3, <3>5
    <3> QED BY <3>6 DEF A
  <2> HIDE DEF g, OK
  <2>2. Dashboard!Total(g) = Cardinality(Dates(c, window, u, w) \cap OK)
    <3>1. CountsShares(c, window, u, w, OK, g)
      BY <1>2, <2>1 DEF CountsShares
    <3> QED BY <3>1, FigureIs
  <2>3. D \cap OK = Successes(u, D)
    BY <1>4 DEF OK, Successes
  <2> QED BY <1>1, <2>2, <2>3 DEF D
<1>7. ASSUME NEW m \in {m1, m2} PROVE fold.models[m] = Cardinality(Using(u, D, m))
  <2> DEFINE e == h(m)
  <2> DEFINE T == By(m)
  <2>1. ASSUME NEW k \in 1 .. w PROVE e[k] = Cardinality(Share(c, window, u, w, k) \cap T)
    <3>1. Share(c, window, u, w, k) \cap T = {i \in Share(c, window, u, w, k) : u[i].model = m}
      BY <1>4
    <3>2. slice[k].models[m] = Cardinality({i \in Share(c, window, u, w, k) : u[i].model = m})
      BY <1>3, <1>7, <2>1
    <3> QED BY <2>1, <3>1, <3>2
  <2>2. Len(e) = w /\ fold.models[m] = Dashboard!Total(e)
    BY <1>1, <1>2, <1>7
  <2>3. D \cap T = Using(u, D, m)
    BY <1>4 DEF Using
  <2> HIDE DEF e, T
  <2>4. Dashboard!Total(e) = Cardinality(Dates(c, window, u, w) \cap T)
    <3>1. CountsShares(c, window, u, w, T, e)
      BY <2>1, <2>2 DEF CountsShares
    <3> QED BY <3>1, FigureIs
  <2> QED BY <2>2, <2>3, <2>4 DEF D
<1> QED BY <1>1, <1>5, <1>6, <1>7 DEF D

-----------------------------------------------------------------------------
(* The answer p to the request o, of which the scan is u.                  *)
Answers(c, o, p) ==
  /\ p.at = "shown" /\ p.opened = o.opened /\ p.scan = o.scan
  /\ p.windows = [w \in Windows |-> Dashboard!FoldWindow(Buckets(c, o.window, o.scan), w)]
  /\ p.answered \in Nat /\ p.requestsToday = Cardinality(Dated(c, o.scan, p.answered))

LEMMA ScanIs ==
  ASSUME NEW c, NEW u \in Seq(Entry), NEW o, HasRead(c, u, o)
  PROVE  IsFiniteSet(DOMAIN o.scan) /\ \A i \in DOMAIN o.scan : o.scan[i] \in Entry
<1>1. Len(u) \in Nat /\ DOMAIN u = 1 .. Len(u) /\ \A i \in DOMAIN u : u[i] \in Entry
  BY ElementOfSeq
<1>2. IsFiniteSet(1 .. Len(u))
  BY <1>1, FS_Interval
<1>3. DOMAIN o.scan \in SUBSET (1 .. Len(u)) /\ \A i \in DOMAIN o.scan : o.scan[i] = u[i]
  BY <1>1 DEF HasRead
<1>4. IsFiniteSet(DOMAIN o.scan)
  BY <1>2, <1>3, FS_Subset
<1> QED BY <1>1, <1>3, <1>4

LEMMA TrendIs ==
  ASSUME NEW c, NEW o, NEW p, Answers(c, o, p), NEW w \in Windows,
         NEW trend, trend = p.windows[w].trend
  PROVE  /\ trend = Dashboard!Slice(Buckets(c, o.window, o.scan), w) /\ Len(trend) = w
         /\ \A k \in 1 .. w :
              /\ trend[k].date = DateIn(c, o.window, Width - w + k)
              /\ trend[k].requests = Cardinality(Kept(c, o.window, Width - w + k, o.scan))
<1> DEFINE slice == Dashboard!Slice(Buckets(c, o.window, o.scan), w)
<1>1. trend = slice
  <2> DEFINE B == Buckets(c, o.window, o.scan)
  <2>1. p.windows[w] = Dashboard!FoldWindow(B, w)
    BY DEF Answers
  <2> HIDE DEF B
  <2>2. Dashboard!FoldWindow(B, w).trend = Dashboard!Slice(B, w)
    BY DEF Dashboard!FoldWindow
  <2> QED BY <2>1, <2>2 DEF B
<1>2. Len(slice) = w /\ \A k \in 1 .. w : slice[k] = BucketIn(c, o.window, Width - w + k, o.scan)
  <2>1. slice = Dashboard!Slice(Buckets(c, o.window, o.scan), w)
    OBVIOUS
  <2> HIDE DEF slice
  <2> QED BY <2>1, SliceIsTheEnd
<1>3. ASSUME NEW k \in 1 .. w
      PROVE  /\ trend[k].date = DateIn(c, o.window, Width - w + k)
             /\ trend[k].requests = Cardinality(Kept(c, o.window, Width - w + k, o.scan))
  <2>1. trend[k] = BucketIn(c, o.window, Width - w + k, o.scan)
    BY <1>1, <1>2
  <2> HIDE DEF slice
  <2> QED BY <2>1 DEF BucketIn
<1> QED BY <1>1, <1>2, <1>3

LEMMA RowsAre ==
  ASSUME NEW c, NEW o, NEW p, Answers(c, o, p), NEW w \in Windows
  PROVE  RowsOf(c, p, w) = Dates(c, o.window, o.scan, w)
<1>1. p.scan = o.scan
  BY DEF Answers
<1> DEFINE trend == p.windows[w].trend
<1>2. \A k \in 1 .. w : trend[k].date = DateIn(c, o.window, Width - w + k)
  BY TrendIs
<1>3. \A i \in DOMAIN o.scan :
        (\E k \in 1 .. w : trend[k].date = DayIn(c, p.scan[i].at)) <=>
        (\E k \in 1 .. w : DateIn(c, o.window, Width - w + k) = DayIn(c, o.scan[i].at))
  BY <1>1, <1>2
<1> QED BY <1>1, <1>3 DEF RowsOf, Dates

LEMMA WindowsDoAgree ==
  ASSUME NEW c, NEW u \in Seq(Entry), NEW o, HasRead(c, u, o), NEW p, Answers(c, o, p),
         NEW w \in Windows
  PROVE  WindowAgrees(c, p, w)
<1> DEFINE window == o.window
<1> DEFINE scan == o.scan
<1> DEFINE B == Buckets(c, window, scan)
<1> DEFINE trend == p.windows[w].trend
<1> DEFINE D == Dates(c, window, scan, w)
<1> DEFINE fold == Dashboard!FoldWindow(B, w)
<1> DEFINE slice == Dashboard!Slice(B, w)
<1>1. p.scan = scan /\ p.windows[w] = fold
  BY DEF Answers
<1>2. RowsOf(c, p, w) = D
  BY RowsAre
<1>3. IsFiniteSet(DOMAIN scan) /\ \A i \in DOMAIN scan : scan[i] \in Entry
  BY ScanIs
<1>4. Len(trend) = w /\ trend = slice
  BY TrendIs
<1>5. ASSUME NEW v \in Windows PROVE p.windows[v].trend = Dashboard!Slice(B, v)
  BY TrendIs
<1> HIDE DEF window, scan
<1>6. /\ fold.requests = Cardinality(D)
      /\ fold.successes = Cardinality(Successes(scan, D))
      /\ \A m \in {m1, m2} : fold.models[m] = Cardinality(Using(scan, D, m))
  <2>1. fold = Dashboard!FoldWindow(Buckets(c, window, scan), w)
        /\ slice = Dashboard!Slice(Buckets(c, window, scan), w)
    OBVIOUS
  <2> HIDE DEF fold, slice
  <2> QED BY <1>3, <2>1, FoldIs
<1>7. ASSUME NEW v \in Windows, v <= w
      PROVE  p.windows[v].trend = SubSeq(trend, w - v + 1, w)
  <2>1. Dashboard!Slice(Buckets(c, window, scan), v) =
          EndOf(Dashboard!Slice(Buckets(c, window, scan), w), v, w)
    BY <1>7, NarrowerIsTheEnd
  <2>2. p.windows[v].trend = Dashboard!Slice(B, v)
    BY <1>5, <1>7
  <2> HIDE DEF trend
  <2> QED BY <1>4, <2>1, <2>2 DEF EndOf
<1> HIDE DEF D, fold
<1>8. /\ p.windows[w].requests = Cardinality(D)
      /\ p.windows[w].successes = Cardinality(Successes(p.scan, D))
      /\ \A m \in {m1, m2} : p.windows[w].models[m] = Cardinality(Using(p.scan, D, m))
  BY <1>1, <1>6
<1> QED BY <1>2, <1>4, <1>7, <1>8 DEF WindowAgrees

LEMMA CardsDoAgree ==
  ASSUME NEW c \in Calendars, NEW t, NEW u, NEW o, Reads(c, t, u, o), NEW p, Answers(c, o, p)
  PROVE  CardsAgreeOn(p)
<1>1. SUFFICES ASSUME p.answered = p.opened
               PROVE  p.requestsToday = p.windows[Width].trend[Width].requests
  BY DEF CardsAgreeOn
<1> DEFINE opened == o.opened
<1> DEFINE window == o.window
<1>2. opened \in DOMAIN c /\ window \in Nat /\ window = c[opened] - (Width - 1) * Day
  BY DEF Reads, Opened
<1>3. DateIn(c, window, Width) = opened
  <2> HIDE DEF window, opened
  <2> QED BY <1>2, LastDate
<1> HIDE DEF window
<1>4. Width \in Windows /\ Width \in 1 .. Width /\ Width - Width + Width = Width
  BY WidthIs
<1> DEFINE trend == p.windows[Width].trend
<1>5. trend[Width].requests = Cardinality(Kept(c, window, Width, o.scan))
  <2>1. \A k \in 1 .. Width :
          trend[k].requests = Cardinality(Kept(c, window, Width - Width + k, o.scan))
    BY <1>4, TrendIs DEF window
  <2> HIDE DEF trend
  <2> QED BY <1>4, <2>1
<1>6. Homes(c, window, Width, opened)
  BY <1>4, WidthIs DEF Homes
<1>7. Kept(c, window, Width, o.scan) = Dated(c, o.scan, opened)
  BY <1>3, <1>6 DEF Kept
<1>8. p.requestsToday = Cardinality(Dated(c, o.scan, opened))
  BY <1>1 DEF Answers
<1> QED BY <1>5, <1>7, <1>8

(* Where the days of the window are even, a day that is over is in one     *)
(* bucket, with every row the log has of it.                               *)
LEMMA DaysAreWhole ==
  ASSUME NEW c \in Calendars, NEW t, NEW u \in Seq(Entry), NEW o, Reads(c, t, u, o),
         o.scan # Null, Evenly(c, o.opened), NEW j \in 1 .. Width - 1
  PROVE  /\ DateIn(c, o.window, j) = o.opened - Width + j
         /\ Kept(c, o.window, j, o.scan) = Dated(c, u, DateIn(c, o.window, j))
<1> DEFINE date == o.opened - Width + j
<1> DEFINE opened == o.opened
<1> DEFINE window == o.window
<1> DEFINE scan == o.scan
<1>1. opened \in DOMAIN c /\ window \in Nat /\ window = c[opened] - (Width - 1) * Day
      /\ Evenly(c, opened)
  BY DEF Reads, Opened
<1>2. /\ DOMAIN scan \subseteq DOMAIN u /\ \A i \in DOMAIN scan : scan[i] = u[i]
      /\ \A i \in DOMAIN u : window <= u[i].at /\ u[i].at < c[opened] => i \in DOMAIN scan
  BY DEF Reads, HasRead
<1>3. date = opened - Width + j
  OBVIOUS
<1> HIDE DEF opened, window, scan, date
<1>4. ASSUME NEW k \in 1 .. Width
      PROVE  /\ DateIn(c, window, k) = opened - Width + k
             /\ opened - Width + k \in DOMAIN c /\ window <= c[opened - Width + k]
  BY <1>1, EvenDates
<1>5. Width \in Nat /\ j \in Nat /\ 1 <= j /\ j < Width /\ opened \in Nat /\ j \in 1 .. Width
      /\ c[opened] \in Nat
  BY <1>1, WidthIs, MidnightsAre
<1>6. DateIn(c, window, j) = date /\ date \in DOMAIN c /\ window <= c[date] /\ date < opened
      /\ date \in Nat /\ c[date] \in Nat
  <2>1. DateIn(c, window, j) = date /\ date \in DOMAIN c /\ window <= c[date]
    BY <1>3, <1>4, <1>5
  <2>2. date < opened
    BY <1>3, <1>5
  <2> QED BY <2>1, <2>2, MidnightsAre
<1>7. Homes(c, window, j, date)
  <2>1. ASSUME NEW i \in j + 1 .. Width PROVE DateIn(c, window, i) # date
    <3>1. i \in 1 .. Width /\ i \in Nat /\ i # j
      BY <1>5
    <3>2. DateIn(c, window, i) = opened - Width + i
      BY <1>4, <3>1
    <3> QED BY <1>3, <1>5, <3>1, <3>2
  <2> QED BY <2>1 DEF Homes
<1>8. Kept(c, window, j, scan) = Dated(c, scan, date)
  BY <1>6, <1>7 DEF Kept
<1>9. ASSUME NEW i \in DOMAIN u, DayIn(c, u[i].at) = date PROVE i \in DOMAIN scan
  <2> DEFINE r == u[i].at
  <2>1. r \in Nat
    <3>1. u[i] \in Entry
      BY ElementOfSeq
    <3> QED BY <3>1 DEF Entry
  <2>2. DayIn(c, r) = date
    BY <1>9
  <2> HIDE DEF r
  <2>3. c[date] <= r /\ \A d \in DOMAIN c : c[d] <= r => d <= date
    BY <2>1, <2>2, DayIs
  <2>4. ~(c[opened] <= r)
    BY <1>1, <1>5, <1>6, <2>3
  <2>5. window <= r /\ r < c[opened]
    BY <1>1, <1>5, <1>6, <2>1, <2>3, <2>4
  <2> QED BY <1>2, <2>5 DEF r
<1>10. Dated(c, scan, date) = Dated(c, u, date)
  <2>1. ASSUME NEW i \in DOMAIN u
        PROVE  i \in DOMAIN scan /\ DayIn(c, scan[i].at) = date <=> DayIn(c, u[i].at) = date
    BY <1>2, <1>9
  <2> QED BY <1>2, <2>1 DEF Dated
<1> QED BY <1>3, <1>6, <1>8, <1>10 DEF window, scan, opened

LEMMA TrendDoesFollow ==
  ASSUME NEW c \in Calendars, NEW t, NEW u \in Seq(Entry), NEW o, Reads(c, t, u, o),
         o.scan # Null, NEW p, Answers(c, o, p)
  PROVE  TrendFollows(c, u, p)
<1> DEFINE opened == o.opened
<1>1. p.opened = opened
  BY DEF Answers
<1>2. opened \in DOMAIN c /\ opened \in Nat
  BY MidnightsAre DEF Reads, Opened
<1>3. SUFFICES ASSUME Evenly(c, opened), NEW w \in Windows
               PROVE  /\ [k \in 1 .. w |-> p.windows[w].trend[k].date] = [k \in 1 .. w |-> opened - w + k]
                      /\ \A k \in 1 .. w - 1 :
                           p.windows[w].trend[k].requests =
                             Cardinality(Dated(c, u, p.windows[w].trend[k].date))
  BY <1>1 DEF TrendFollows
<1> DEFINE trend == p.windows[w].trend
<1> DEFINE window == o.window
<1> DEFINE scan == o.scan
<1>4. \A k \in 1 .. w : /\ trend[k].date = DateIn(c, window, Width - w + k)
                        /\ trend[k].requests = Cardinality(Kept(c, window, Width - w + k, scan))
  BY TrendIs
<1>5. w \in Nat \ {0} /\ w <= Width /\ Width \in Nat \ {0}
  BY WidthIs
<1>6. ASSUME NEW k \in 1 .. w - 1
      PROVE  /\ trend[k].date = opened - w + k
             /\ trend[k].requests = Cardinality(Dated(c, u, trend[k].date))
  <2> DEFINE j == Width - w + k
  <2> DEFINE date == opened - w + k
  <2>1. k \in 1 .. w /\ j \in 1 .. Width - 1 /\ date = opened - Width + j
    BY <1>2, <1>5
  <2>2. trend[k].date = DateIn(c, window, j)
        /\ trend[k].requests = Cardinality(Kept(c, window, j, scan))
    BY <1>4, <2>1
  <2> HIDE DEF j, date, trend
  <2>3. DateIn(c, window, j) = opened - Width + j
        /\ Kept(c, window, j, scan) = Dated(c, u, DateIn(c, window, j))
    BY <1>3, <2>1, DaysAreWhole
  <2>4. trend[k].date = date /\ trend[k].requests = Cardinality(Dated(c, u, trend[k].date))
    BY <2>1, <2>2, <2>3
  <2> QED BY <2>4 DEF date
<1>7. trend[w].date = opened
  <2>1. w \in 1 .. w /\ Width - w + w = Width
    BY <1>5
  <2>2. trend[w].date = DateIn(c, window, Width)
    BY <1>4, <2>1
  <2>3. window \in Nat /\ window = c[opened] - (Width - 1) * Day
    BY DEF Reads
  <2> HIDE DEF window, opened, trend
  <2>4. DateIn(c, window, Width) = opened
    BY <1>2, <2>3, LastDate
  <2> QED BY <2>2, <2>4
<1>8. ASSUME NEW k \in 1 .. w PROVE trend[k].date = opened - w + k
  <2>1. CASE k = w
    <3>1. opened - w + k = opened
      BY <1>2, <1>5, <2>1
    <3> QED BY <1>7, <2>1, <3>1
  <2>2. CASE k # w
    <3>1. k \in 1 .. w - 1
      BY <1>5, <2>2
    <3> QED BY <1>6, <3>1
  <2> QED BY <2>1, <2>2
<1> HIDE DEF trend
<1>9. [k \in 1 .. w |-> trend[k].date] = [k \in 1 .. w |-> opened - w + k]
  BY <1>8
<1> QED BY <1>6, <1>9 DEF trend

LEMMA AnswerAddsUp ==
  ASSUME NEW c \in Calendars, NEW t, NEW u \in Seq(Entry), NEW o, Reads(c, t, u, o),
         o.scan # Null, NEW p, Answers(c, o, p)
  PROVE  AddsUp(c, u, p)
<1>1. HasRead(c, u, o)
  BY DEF Reads
<1>2. TrendFollows(c, u, p) /\ CardsAgreeOn(p)
  BY TrendDoesFollow, CardsDoAgree
<1>3. ASSUME NEW w \in Windows PROVE WindowAgrees(c, p, w)
  BY <1>1, WindowsDoAgree
<1> QED BY <1>2, <1>3 DEF AddsUp

-----------------------------------------------------------------------------
(* What Metrics says of the variables.                                     *)
LEMMA SameDay ==
  ASSUME NEW t
  PROVE  Dashboard!DayOf(t) = DayIn(calendar, t)
BY DEF Dashboard!DayOf, Dashboard!Days, DayIn

LEMMA SameDates ==
  ASSUME NEW u, NEW date
  PROVE  Dashboard!Of(u, date) = Dated(calendar, u, date)
BY SameDay DEF Dashboard!Of, Dated

LEMMA SameBuckets ==
  ASSUME NEW window, NEW u
  PROVE  Dashboard!AllDays(window, u) = Buckets(calendar, window, u)
<1>1. ASSUME NEW k PROVE Dashboard!DateOf(window, k) = DateIn(calendar, window, k)
  BY SameDay DEF Dashboard!DateOf, DateIn
<1>2. ASSUME NEW k, NEW date PROVE Dashboard!Home(window, k, date) = Homes(calendar, window, k, date)
  BY <1>1 DEF Dashboard!Home, Homes, Width
<1>3. ASSUME NEW k PROVE Dashboard!Bucket(window, k, u) = BucketIn(calendar, window, k, u)
  <2> DEFINE date == DateIn(calendar, window, k)
  <2> DEFINE mine == {i \in Dashboard!Of(u, date) : Dashboard!Home(window, k, date)}
  <2>1. mine = Kept(calendar, window, k, u)
    BY <1>2, SameDates DEF Kept
  <2>2. Dashboard!Bucket(window, k, u) =
          [date |-> date, requests |-> Cardinality(mine),
           errors |-> Cardinality({i \in mine : ~u[i].ok}),
           models |-> [m \in {m1, m2} |-> Cardinality({i \in mine : u[i].model = m})]]
    <3>1. Dashboard!DateOf(window, k) = date
      BY <1>1
    <3> HIDE DEF date
    <3> QED BY <3>1 DEF Dashboard!Bucket, Dashboard!Cardinality, Cardinality
  <2> HIDE DEF mine
  <2> QED BY <2>1, <2>2 DEF BucketIn
<1> QED BY <1>3 DEF Dashboard!AllDays, Buckets, Width

LEMMA PageIsOpened ==
  ASSUME Counts(calendar, clock, usage, overview), Dashboard!Open
  PROVE  Counts(calendar, clock, usage, overview)'
<1> DEFINE c == calendar
<1> DEFINE opened == DayIn(c, clock)
<1> DEFINE starts == {d \in MonthStarts : d <= opened}
<1> DEFINE month == c[Dashboard!Max(starts)]
<1> DEFINE window == c[opened] - (Width - 1) * Day
<1>1. c \in Calendars /\ clock \in Nat /\ usage \in Seq(Entry)
  BY DEF Counts
<1>2. opened \in DOMAIN c /\ c[opened] <= clock
  BY <1>1, DayIs
<1>3. /\ window >= 0 /\ UNCHANGED <<calendar, clock, usage>>
      /\ overview' = [at |-> "reading", opened |-> opened, window |-> window, month |-> month,
                      scan |-> Null, recent |-> Null]
  BY SameDay DEF Dashboard!Open, Dashboard!WindowStart, Dashboard!MonthStart, Width
<1>4. window \in Nat
  <2> DEFINE a == Width - 1
  <2>1. a \in Nat /\ c[opened] \in Nat
    BY <1>1, <1>2, WidthIs, MidnightsAre
  <2> HIDE DEF a
  <2>2. a * Day \in Nat
    BY <2>1, StepsAdd
  <2> DEFINE b == a * Day
  <2> HIDE DEF b
  <2>3. b \in Nat /\ window = c[opened] - b
    BY <2>2 DEF a, b
  <2> HIDE DEF window
  <2> QED BY <1>3, <2>1, <2>3
<1>5. month \in Nat
  <2>1. opened \in Nat /\ 1 <= opened /\ DOMAIN c = 1 .. Len(c) /\ Len(c) \in Nat
        /\ opened \in 1 .. Len(c)
    BY <1>1, <1>2, MidnightsAre
  <2> HIDE DEF opened
  <2>2. starts \in SUBSET (0 .. opened) /\ 1 \in starts
    <3>1. MonthStarts \subseteq Nat /\ 1 \in MonthStarts
      BY MetricsAssumption
    <3>2. ASSUME NEW d \in starts PROVE d \in 0 .. opened
      <4>1. d \in Nat /\ d <= opened
        BY <3>1
      <4> QED BY <2>1, <4>1
    <3> QED BY <2>1, <3>1, <3>2
  <2> HIDE DEF starts
  <2>3. Dashboard!Max(starts) \in 0 .. opened /\ 1 <= Dashboard!Max(starts)
    BY <2>1, <2>2, Greatest
  <2>4. Dashboard!Max(starts) \in DOMAIN c
    BY <2>1, <2>3
  <2> QED BY <1>1, <2>4, MidnightsAre
<1> HIDE DEF opened, window, month
<1>6. /\ overview'.at = "reading" /\ overview'.opened = opened /\ overview'.window = window
      /\ overview'.month = month /\ overview'.scan = Null /\ overview'.recent = Null
  BY <1>3
<1>7. Reads(c, clock, usage, overview')
  <2>1. overview' = [at |-> "reading", opened |-> overview'.opened, window |-> overview'.window,
                     month |-> overview'.month, scan |-> overview'.scan,
                     recent |-> overview'.recent]
    BY <1>3, <1>6
  <2> QED BY <1>2, <1>4, <1>5, <1>6, <2>1 DEF Reads, Opened, window
<1> QED BY <1>1, <1>3, <1>6, <1>7 DEF Counts

(* A page that stays where it is when something is read.                   *)
LEMMA LogsAreRead ==
  ASSUME Counts(calendar, clock, usage, overview), Dashboard!ReadLogs
  PROVE  Counts(calendar, clock, usage, overview)'
<1> DEFINE c == calendar
<1> DEFINE u == usage
<1> DEFINE o == overview
<1> DEFINE early == Dashboard!Earliest(o.window, o.month)
<1> DEFINE S == {i \in DOMAIN u : u[i].at >= early}
<1> DEFINE scan == Dashboard!Restrict(u, S)
<1>1. c \in Calendars /\ clock \in Nat /\ u \in Seq(Entry) /\ o.at = "reading"
      /\ Reads(c, clock, u, o) /\ UNCHANGED <<calendar, clock, usage>>
      /\ o' = [o EXCEPT !.scan = scan]
  BY DEF Counts, Dashboard!ReadLogs
<1>2. early \in Nat /\ early <= o.window
  BY <1>1 DEF Reads, Dashboard!Earliest
<1>3. DOMAIN scan = S /\ \A i \in S : scan[i] = u[i]
  BY DEF Dashboard!Restrict
<1> HIDE DEF scan, early
<1>4. /\ o'.at = "reading" /\ o'.opened = o.opened /\ o'.window = o.window /\ o'.month = o.month
      /\ o'.scan = scan /\ o'.recent = o.recent
      /\ o' = [at |-> "reading", opened |-> o.opened, window |-> o.window, month |-> o.month,
               scan |-> scan, recent |-> o.recent]
  BY <1>1 DEF Reads
<1>5. HasRead(c, u, o')
  <2>1. ASSUME NEW i \in DOMAIN u, o.window <= u[i].at PROVE i \in S
    <3>1. u[i].at \in Nat
      <4>1. u[i] \in Entry
        <5> HIDE DEF u
        <5> QED BY <1>1, <2>1, ElementOfSeq
      <4> QED BY <4>1 DEF Entry
    <3>2. o.window \in Nat
      BY <1>1 DEF Reads
    <3> QED BY <1>2, <2>1, <3>1, <3>2
  <2> HIDE DEF o, u
  <2> QED BY <1>3, <1>4, <2>1 DEF HasRead
<1>6. Reads(c, clock, u, o')
  BY <1>1, <1>4, <1>5 DEF Reads, Opened
<1> QED BY <1>1, <1>4, <1>6 DEF Counts

LEMMA RecentIsRead ==
  ASSUME Counts(calendar, clock, usage, overview), Dashboard!ReadRecent
  PROVE  Counts(calendar, clock, usage, overview)'
<1> DEFINE c == calendar
<1> DEFINE u == usage
<1> DEFINE o == overview
<1>1. /\ c \in Calendars /\ clock \in Nat /\ u \in Seq(Entry) /\ o.at = "reading"
      /\ Reads(c, clock, u, o) /\ UNCHANGED <<calendar, clock, usage>>
      /\ \E r : o' = [o EXCEPT !.recent = r]
  BY DEF Counts, Dashboard!ReadRecent
<1>2. PICK r : o' = [o EXCEPT !.recent = r]
  BY <1>1
<1>3. /\ o'.at = "reading" /\ o'.opened = o.opened /\ o'.window = o.window /\ o'.month = o.month
      /\ o'.scan = o.scan /\ o'.recent = r
      /\ o' = [at |-> "reading", opened |-> o.opened, window |-> o.window, month |-> o.month,
               scan |-> o.scan, recent |-> r]
  BY <1>1, <1>2 DEF Reads
<1>4. Reads(c, clock, u, o')
  BY <1>1, <1>3 DEF Reads, Opened, HasRead
<1> QED BY <1>1, <1>3, <1>4 DEF Counts

LEMMA PageIsAnswered ==
  ASSUME Counts(calendar, clock, usage, overview), Dashboard!Answer
  PROVE  Counts(calendar, clock, usage, overview)'
<1> DEFINE c == calendar
<1> DEFINE u == usage
<1> DEFINE o == overview
<1> DEFINE today == DayIn(c, clock)
<1>1. /\ c \in Calendars /\ clock \in Nat /\ u \in Seq(Entry) /\ o.at = "reading"
      /\ Reads(c, clock, u, o) /\ o.scan # Null /\ UNCHANGED <<calendar, clock, usage>>
  BY DEF Counts, Dashboard!Answer
<1>2. /\ o'.at = "shown" /\ o'.opened = o.opened /\ o'.answered = today /\ o'.scan = o.scan
      /\ o'.requestsToday = Dashboard!Cardinality(Dashboard!Of(o.scan, today))
      /\ o'.windows = [w \in Windows |->
                         Dashboard!FoldWindow(Dashboard!AllDays(o.window, o.scan), w)]
  BY SameDay DEF Dashboard!Answer
<1>3. Dashboard!AllDays(o.window, o.scan) = Buckets(c, o.window, o.scan)
      /\ Dashboard!Of(o.scan, today) = Dated(c, o.scan, today)
  BY SameBuckets, SameDates
<1>4. o'.requestsToday = Cardinality(Dated(c, o.scan, today))
  <2>1. o'.requestsToday = Cardinality(Dashboard!Of(o.scan, today))
    BY <1>2 DEF Dashboard!Cardinality, Cardinality
  <2> QED BY <1>3, <2>1
<1>5. today \in Nat /\ Opened(c, clock, o)
  <2>1. today \in DOMAIN c
    BY <1>1, DayIs
  <2> QED BY <1>1, <2>1, MidnightsAre DEF Reads
<1> DEFINE p == o'
<1>6. Answers(c, o, p)
  BY <1>2, <1>3, <1>4, <1>5 DEF Answers
<1> HIDE DEF p
<1>7. AddsUp(c, u, p)
  BY <1>1, <1>6, AnswerAddsUp
<1> QED BY <1>1, <1>2, <1>5, <1>7 DEF Counts, p, Opened

(* A row that is logged is of the day the page was opened or of a later    *)
(* one.                                                                    *)
LEMMA RowIsLogged ==
  ASSUME NEW m \in {m1, m2}, NEW ok \in BOOLEAN,
         Counts(calendar, clock, usage, overview), Dashboard!Log(m, ok)
  PROVE  Counts(calendar, clock, usage, overview)'
<1> DEFINE c == calendar
<1> DEFINE t == clock
<1> DEFINE u == usage
<1> DEFINE o == overview
<1> DEFINE row == [at |-> t, model |-> m, ok |-> ok]
<1>1. /\ c \in Calendars /\ t \in Nat /\ u \in Seq(Entry) /\ o.at \in {"idle", "reading", "shown"}
      /\ UNCHANGED <<calendar, clock, overview>> /\ u' = Append(u, row)
  BY DEF Counts, Dashboard!Log
<1>2. row \in Entry /\ row.at = t
  BY <1>1 DEF Entry
<1> HIDE DEF row
<1>3. /\ u' \in Seq(Entry) /\ Len(u) \in Nat /\ DOMAIN u = 1 .. Len(u) /\ DOMAIN u' = 1 .. Len(u) + 1
      /\ \A i \in DOMAIN u : u'[i] = u[i]
      /\ u'[Len(u) + 1] = row
  BY <1>1, <1>2
<1>4. DOMAIN u \subseteq DOMAIN u' /\ \A i \in DOMAIN u' : i \in DOMAIN u \/ u'[i] = row
  BY <1>3
<1>5. CASE o.at = "reading"
  <2>1. Reads(c, t, u, o)
    BY <1>5 DEF Counts
  <2>2. c[o.opened] <= t /\ c[o.opened] \in Nat
    BY <1>1, <2>1, MidnightsAre DEF Reads, Opened
  <2>3. ASSUME o.scan # Null PROVE HasRead(c, u', o)
    <3>1. /\ DOMAIN o.scan \subseteq DOMAIN u /\ \A i \in DOMAIN o.scan : o.scan[i] = u[i]
          /\ \A i \in DOMAIN u : o.window <= u[i].at /\ u[i].at < c[o.opened] => i \in DOMAIN o.scan
      BY <2>1, <2>3 DEF Reads, HasRead
    <3>2. ~(row.at < c[o.opened])
      BY <1>1, <1>2, <2>2
    <3>3. ASSUME NEW i \in DOMAIN u', o.window <= u'[i].at, u'[i].at < c[o.opened]
          PROVE  i \in DOMAIN o.scan
      <4>1. i \in DOMAIN u /\ u'[i] = u[i]
        BY <1>3, <1>4, <3>2, <3>3
      <4> QED BY <3>1, <3>3, <4>1
    <3> QED BY <1>3, <1>4, <3>1, <3>3 DEF HasRead
  <2>4. Reads(c, t, u', o)
    BY <2>1, <2>3 DEF Reads
  <2> QED BY <1>1, <1>3, <1>5, <2>4 DEF Counts
<1>6. CASE o.at = "shown"
  <2>1. Opened(c, t, o) /\ AddsUp(c, u, o)
    BY <1>6 DEF Counts
  <2>2. o.opened \in DOMAIN c /\ c[o.opened] <= t /\ DayIn(c, t) \in Nat /\ o.opened <= DayIn(c, t)
        /\ o.opened \in Nat
    <3>1. o.opened \in DOMAIN c /\ c[o.opened] <= t
      BY <2>1 DEF Opened
    <3>2. DayIn(c, t) \in DOMAIN c /\ \A d \in DOMAIN c : c[d] <= t => d <= DayIn(c, t)
      BY <1>1, DayIs
    <3>3. DOMAIN c = 1 .. Len(c) /\ Len(c) \in Nat
      BY <1>1, MidnightsAre
    <3>4. \A d \in DOMAIN c : d \in Nat
      BY <3>3
    <3> QED BY <3>1, <3>2, <3>4
  <2>3. ASSUME NEW date \in Int, date < o.opened PROVE Dated(c, u', date) = Dated(c, u, date)
    <3>1. DayIn(c, row.at) # date
      BY <1>2, <2>2, <2>3
    <3>2. ASSUME NEW i PROVE i \in Dated(c, u', date) <=> i \in Dated(c, u, date)
      <4>1. CASE i \in DOMAIN u
        BY <1>3, <1>4, <4>1 DEF Dated
      <4>2. CASE i \notin DOMAIN u
        BY <1>4, <3>1, <4>2 DEF Dated
      <4> QED BY <4>1, <4>2
    <3> QED BY <3>2
  <2>4. TrendFollows(c, u', o)
    <3>1. SUFFICES ASSUME Evenly(c, o.opened), NEW w \in Windows
                   PROVE  /\ [k \in 1 .. w |-> o.windows[w].trend[k].date] = [k \in 1 .. w |-> o.opened - w + k]
                          /\ \A k \in 1 .. w - 1 :
                               o.windows[w].trend[k].requests =
                                 Cardinality(Dated(c, u', o.windows[w].trend[k].date))
      BY DEF TrendFollows
    <3> DEFINE trend == o.windows[w].trend
    <3>2. /\ [k \in 1 .. w |-> trend[k].date] = [k \in 1 .. w |-> o.opened - w + k]
          /\ \A k \in 1 .. w - 1 : trend[k].requests = Cardinality(Dated(c, u, trend[k].date))
      BY <2>1, <3>1 DEF AddsUp, TrendFollows
    <3> HIDE DEF trend
    <3>3. w \in Nat \ {0}
      BY WidthIs
    <3>4. ASSUME NEW k \in 1 .. w PROVE trend[k].date = o.opened - w + k
      <4> DEFINE f == [j \in 1 .. w |-> trend[j].date]
      <4> DEFINE g == [j \in 1 .. w |-> o.opened - w + j]
      <4>1. f[k] = trend[k].date /\ g[k] = o.opened - w + k /\ f = g
        BY <3>2, <3>4
      <4> HIDE DEF f, g
      <4> QED BY <4>1
    <3>5. ASSUME NEW k \in 1 .. w - 1
          PROVE  trend[k].requests = Cardinality(Dated(c, u', trend[k].date))
      <4>1. k \in 1 .. w
        BY <3>3
      <4>2. trend[k].date \in Int /\ trend[k].date < o.opened
        <5>1. trend[k].date = o.opened - w + k
          BY <3>4, <4>1
        <5>2. o.opened - w + k \in Int /\ o.opened - w + k < o.opened
          BY <2>2, <3>3
        <5> QED BY <5>1, <5>2
      <4> QED BY <2>3, <3>2, <4>2
    <3> QED BY <3>2, <3>5 DEF trend
  <2>5. AddsUp(c, u', o)
    BY <2>1, <2>4 DEF AddsUp
  <2> QED BY <1>1, <1>3, <1>6, <2>1, <2>5 DEF Counts
<1>7. CASE o.at = "idle"
  BY <1>1, <1>3, <1>7 DEF Counts
<1> QED BY <1>1, <1>5, <1>6, <1>7

LEMMA ClockTicks ==
  ASSUME Counts(calendar, clock, usage, overview), Dashboard!Tick
  PROVE  Counts(calendar, clock, usage, overview)'
<1> DEFINE c == calendar
<1> DEFINE o == overview
<1>1. /\ c \in Calendars /\ clock \in Nat /\ clock' = clock + 1
      /\ UNCHANGED <<calendar, usage, overview>>
  BY DEF Counts, Dashboard!Tick
<1>2. Opened(c, clock, o) => Opened(c, clock', o)
  <2>1. SUFFICES ASSUME Opened(c, clock, o) PROVE Opened(c, clock', o)
    OBVIOUS
  <2>2. o.opened \in DOMAIN c /\ c[o.opened] \in Nat /\ c[o.opened] <= clock
    BY <1>1, <2>1, MidnightsAre DEF Opened
  <2>3. c[o.opened] <= clock'
    BY <1>1, <2>2
  <2> QED BY <2>2, <2>3 DEF Opened
<1>3. Reads(c, clock, usage, o) => Reads(c, clock', usage, o)
  BY <1>2 DEF Reads
<1>4. clock' \in Nat
  BY <1>1
<1>5. Counts(c, clock', usage, o)
  BY <1>2, <1>3, <1>4 DEF Counts
<1> QED BY <1>1, <1>5

LEMMA MetricsKeep ==
  ASSUME Counts(calendar, clock, usage, overview), Dashboard!MetricsNext
  PROVE  Counts(calendar, clock, usage, overview)'
<1>1. CASE Dashboard!Open
  BY <1>1, PageIsOpened
<1>2. CASE Dashboard!ReadLogs
  BY <1>2, LogsAreRead
<1>3. CASE Dashboard!ReadRecent
  BY <1>3, RecentIsRead
<1>4. CASE Dashboard!Answer
  BY <1>4, PageIsAnswered
<1>5. CASE Dashboard!Leave
  BY <1>5 DEF Counts, Dashboard!Leave, Dashboard!Idle
<1>6. ASSUME NEW m \in {m1, m2}, NEW ok \in BOOLEAN, Dashboard!Log(m, ok)
      PROVE  Counts(calendar, clock, usage, overview)'
  BY <1>6, RowIsLogged
<1>7. CASE Dashboard!Tick
  BY <1>7, ClockTicks
<1> QED BY <1>1, <1>2, <1>3, <1>4, <1>5, <1>6, <1>7 DEF Dashboard!MetricsNext

LEMMA MetricsBegin ==
  ASSUME Dashboard!MetricsInit
  PROVE  Counts(calendar, clock, usage, overview)
BY DEF Counts, Dashboard!MetricsInit, Dashboard!Idle

LEMMA PageAddsUp ==
  ASSUME Counts(calendar, clock, usage, overview)
  PROVE  Dashboard!DashboardAddsUp
<1> DEFINE c == calendar
<1> DEFINE o == overview
<1>1. SUFFICES ASSUME o.at = "shown"
               PROVE  Dashboard!TrendFollowsTheCalendar /\ Dashboard!WindowsAgree /\ Dashboard!CardsAgree
  BY DEF Dashboard!DashboardAddsUp
<1>2. TrendFollows(c, usage, o) /\ (\A w \in Windows : WindowAgrees(c, o, w)) /\ CardsAgreeOn(o)
  BY <1>1 DEF Counts, AddsUp
<1>3. Dashboard!CardsAgree
  BY <1>2 DEF CardsAgreeOn, Dashboard!CardsAgree, Width
<1>4. Dashboard!TrendFollowsTheCalendar
  <2>1. (\A d \in Dashboard!Days : Dashboard!InWindow(d, Dashboard!MaxWindow) => ~Dashboard!Uneven(d))
          => Evenly(c, o.opened)
    BY DEF Evenly, Dashboard!Days, Dashboard!InWindow, Dashboard!Uneven, Width
  <2>2. SUFFICES ASSUME Evenly(c, o.opened), NEW w \in Windows
                 PROVE  LET trend == o.windows[w].trend IN
                        /\ [k \in 1 .. w |-> trend[k].date] = [k \in 1 .. w |-> o.opened - w + k]
                        /\ \A k \in 1 .. w - 1 :
                             trend[k].requests = Dashboard!Cardinality(Dashboard!Of(usage, trend[k].date))
    BY <2>1 DEF Dashboard!TrendFollowsTheCalendar
  <2>3. /\ [k \in 1 .. w |-> o.windows[w].trend[k].date] = [k \in 1 .. w |-> o.opened - w + k]
        /\ \A k \in 1 .. w - 1 :
             o.windows[w].trend[k].requests = Cardinality(Dated(c, usage, o.windows[w].trend[k].date))
    BY <1>2, <2>2 DEF TrendFollows
  <2>4. \A d : Dashboard!Of(usage, d) = Dated(c, usage, d)
    BY SameDates
  <2>5. \A k \in 1 .. w - 1 :
          o.windows[w].trend[k].requests =
            Cardinality(Dashboard!Of(usage, o.windows[w].trend[k].date))
    BY <2>3, <2>4
  <2> QED BY <2>3, <2>5 DEF Dashboard!Cardinality, Cardinality
<1>5. Dashboard!WindowsAgree
  <2>1. SUFFICES ASSUME NEW w \in Windows
                 PROVE  LET folded == o.windows[w]
                            within == {i \in DOMAIN o.scan :
                                         \E k \in 1 .. w : folded.trend[k].date = Dashboard!DayOf(o.scan[i].at)}
                        IN /\ Len(folded.trend) = w
                           /\ folded.requests = Dashboard!Cardinality(within)
                           /\ folded.successes = Dashboard!Cardinality({i \in within : o.scan[i].ok})
                           /\ \A m \in {m1, m2} :
                                folded.models[m] =
                                  Dashboard!Cardinality({i \in within : o.scan[i].model = m})
                           /\ \A v \in Windows :
                                v <= w => o.windows[v].trend = SubSeq(folded.trend, w - v + 1, w)
    BY DEF Dashboard!WindowsAgree
  <2> DEFINE within == {i \in DOMAIN o.scan :
                          \E k \in 1 .. w : o.windows[w].trend[k].date = Dashboard!DayOf(o.scan[i].at)}
  <2>2. within = RowsOf(c, o, w)
    BY SameDay DEF RowsOf
  <2> HIDE DEF within
  <2>3. WindowAgrees(c, o, w)
    BY <1>2
  <2>4. /\ Len(o.windows[w].trend) = w
        /\ o.windows[w].requests = Cardinality(within)
        /\ o.windows[w].successes = Cardinality({i \in within : o.scan[i].ok})
        /\ \A m \in {m1, m2} :
             o.windows[w].models[m] = Cardinality({i \in within : o.scan[i].model = m})
        /\ \A v \in Windows :
             v <= w => o.windows[v].trend = SubSeq(o.windows[w].trend, w - v + 1, w)
    BY <2>2, <2>3 DEF WindowAgrees, Successes, Using
  <2> QED BY <2>4 DEF within, Dashboard!Cardinality, Cardinality
<1> QED BY <1>3, <1>4, <1>5

(* The invariant holds of every behaviour.                                 *)
THEOREM MetricsInvariance == Spec => []MetricsInv
<1>1. Init => MetricsInv
  BY MetricsBegin DEF Init, MetricsInv
<1>2. MetricsInv /\ [Next]_vars => MetricsInv'
  <2> SUFFICES ASSUME MetricsInv, [Next]_vars, part' = "dashboard"
               PROVE  Counts(calendar, clock, usage, overview)'
    BY DEF MetricsInv
  <2>1. part = "dashboard" /\ Counts(calendar, clock, usage, overview)
    BY DEF MetricsInv, Next, vars
  <2>2. CASE Dashboard!MetricsNext
    BY <2>1, <2>2, MetricsKeep
  <2>3. CASE UNCHANGED metricsOnly
    BY <2>1, <2>3 DEF metricsOnly
  <2> QED BY <2>1, <2>2, <2>3 DEF Next, vars
<1> QED BY <1>1, <1>2, PTL DEF Spec

(* The dashboard adds up, for any calendar, any windows and any log: a     *)
(* window counts the rows read of its dates, each once, however a clock    *)
(* change shifts its buckets; its trend follows the calendar, with every   *)
(* row of the days that are over, where each day is 24 hours long; and the *)
(* cards agree with it unless midnight passed under the request.           *)
THEOREM FiguresAddUp == Spec => []DashboardAddsUp
<1>1. MetricsInv => DashboardAddsUp
  BY PageAddsUp DEF MetricsInv, DashboardAddsUp
<1> QED BY <1>1, MetricsInvariance, PTL

=============================================================================
