---------------------------- MODULE Integrations ----------------------------
(***************************************************************************)
(* Saved integrations (integrations-service.ts) and the page that lists    *)
(* them (integrations-workbench.tsx), open in one or two tabs of the same  *)
(* owner.  An integration is a note of where a key is used; what it says    *)
(* is left out, and so is the snippet builder beside it.  The two dialogs  *)
(* of the page share one word, `busy'.                                     *)
(***************************************************************************)
EXTENDS Integers, FiniteSets, Absent

CONSTANTS
  Windows,           \* the tabs
  Posts,             \* bound: requests under way at once
  MaxIntegrations,   \* the cap of createIntegration, 25 in the code
  MaxNotes,          \* bound: rows ever created
  MaxClicks          \* bound: requests and dialogs begun

VARIABLES
  notes,     \* the rows by id: whether its create had company; Null once removed
  posts,     \* posts[q]: a request, or Null
  bench      \* bench[w]: the state of the page in window w

benchVars == <<notes, posts, bench>>

Rows == {i \in DOMAIN notes : notes[i] # Null}
Clicks == bench[CHOOSE w \in Windows : TRUE].clicks

(* alone: no other tab has sent a request; missed: the last answer was     *)
(* lost after its write; 0 deletes nothing.                                *)
Bench == [list : SUBSET Nat, creating : BOOLEAN, deleting : Nat, busy : BOOLEAN,
          clicks : Nat, alone : BOOLEAN, missed : BOOLEAN]

Note == [together : BOOLEAN]

Request == [window : Windows, kind : {"create", "delete"}, id : Nat, list : SUBSET Nat,
            at : {"count", "create", "delete", "list", "answer", "refused"},
            together : BOOLEAN]

Open(w) == bench[w].creating \/ bench[w].deleting # 0
Sent(w) == {q \in Posts : posts[q] # Null /\ posts[q].window = w}

(* A click in window w that leaves the page as given.                      *)
Click(w, page) ==
  /\ Clicks < MaxClicks
  /\ bench' = [v \in Windows |-> [IF v = w THEN page ELSE bench[v] EXCEPT !.clicks = @ + 1]]

-----------------------------------------------------------------------------
(* The page.                                                               *)

OpenCreate(w) ==
  /\ ~Open(w)
  /\ Click(w, [bench[w] EXCEPT !.creating = TRUE])
  /\ UNCHANGED <<notes, posts>>

OpenDelete(w, i) ==
  /\ ~Open(w) /\ i \in bench[w].list
  /\ Click(w, [bench[w] EXCEPT !.deleting = i])
  /\ UNCHANGED <<notes, posts>>

(* Escape: Cancel is disabled while busy, the key and the cross are not.   *)
Dismiss(w) ==
  /\ Open(w)
  /\ bench' = [bench EXCEPT ![w].creating = FALSE, ![w].deleting = 0]
  /\ UNCHANGED <<notes, posts>>

Post(q, w, kind, id) ==
  /\ posts[q] = Null
  /\ posts' = [posts EXCEPT ![q] =
       [window |-> w, kind |-> kind, id |-> id, list |-> {},
        at |-> IF kind = "create" THEN "count" ELSE "delete", together |-> FALSE]]
  /\ Clicks < MaxClicks
  /\ bench' = [v \in Windows |->
       [bench[v] EXCEPT !.clicks = @ + 1, !.busy = @ \/ v = w,
          !.alone = @ /\ v = w /\ \A r \in Posts : posts[r] = Null \/ posts[r].window = v]]
  /\ UNCHANGED notes

(* Fault: only the form waits for the create, only the dialog for the      *)
(* removal.                                                                *)
WaitsOwn(w, kind) == \E q \in Sent(w) : posts[q].kind = kind

Waits(w, kind) == bench[w].busy

SubmitCreate(q, w) ==
  /\ bench[w].creating /\ ~Waits(w, "create")
  /\ Post(q, w, "create", 0)

SubmitDelete(q, w) ==
  /\ bench[w].deleting # 0 /\ ~Waits(w, "delete")
  /\ Post(q, w, "delete", bench[w].deleting)

-----------------------------------------------------------------------------
(* The service.                                                            *)

At(q, at) == posts[q] # Null /\ posts[q].at = at
Go(q, at) == posts' = [posts EXCEPT ![q].at = at]

(* Fault: the cap is tested with the wrong comparison.                     *)
AtCapLate == Cardinality(Rows) > MaxIntegrations

AtCap == Cardinality(Rows) >= MaxIntegrations

(* together records that another create had counted and not yet created.   *)
Count(q) ==
  /\ At(q, "count")
  /\ posts' = [posts EXCEPT ![q].at = IF AtCap THEN "refused" ELSE "create",
                            ![q].together = \E r \in Posts : At(r, "create")]
  /\ UNCHANGED <<notes, bench>>

Create(q) ==
  /\ At(q, "create") /\ Cardinality(DOMAIN notes) < MaxNotes
  /\ LET id == Cardinality(DOMAIN notes) + 1 IN
       notes' = [i \in 1 .. id |->
                   IF i = id THEN [together |-> posts[q].together] ELSE notes[i]]
  /\ Go(q, "list")
  /\ UNCHANGED bench

(* deleteMany: no row is an error.                                         *)
Delete(q) ==
  /\ At(q, "delete")
  /\ IF posts[q].id \in Rows
       THEN notes' = [notes EXCEPT ![posts[q].id] = Null] /\ Go(q, "list")
       ELSE Go(q, "refused") /\ UNCHANGED notes
  /\ UNCHANGED bench

List(q) ==
  /\ At(q, "list")
  /\ posts' = [posts EXCEPT ![q].list = Rows, ![q].at = "answer"]
  /\ UNCHANGED <<notes, bench>>

-----------------------------------------------------------------------------
(* Answers.                                                                *)

Answer(q) ==
  /\ At(q, "answer")
  /\ LET w == posts[q].window
         created == posts[q].kind = "create" IN
       bench' = [bench EXCEPT ![w].list = posts[q].list, ![w].busy = FALSE,
                              ![w].missed = FALSE,
                              ![w].creating = bench[w].creating /\ ~created,
                              ![w].deleting = IF created THEN bench[w].deleting ELSE 0]
  /\ posts' = [posts EXCEPT ![q] = Null]
  /\ UNCHANGED notes

(* A request fails at an await, or its answer is lost: the page reports a  *)
(* failure and keeps its list, whatever was written before.                *)
Lose(q) ==
  /\ posts[q] # Null /\ posts[q].at # "refused"
  /\ bench' = [bench EXCEPT ![posts[q].window].missed =
                 @ \/ posts[q].at \in {"list", "answer"}]
  /\ Go(q, "refused")
  /\ UNCHANGED notes

AnswerError(q) ==
  /\ At(q, "refused")
  /\ bench' = [bench EXCEPT ![posts[q].window].busy = FALSE]
  /\ posts' = [posts EXCEPT ![q] = Null]
  /\ UNCHANGED notes

-----------------------------------------------------------------------------
BenchInit ==
  /\ notes = <<[together |-> FALSE]>>
  /\ posts = [q \in Posts |-> Null]
  /\ bench = [w \in Windows |->
       [list |-> Rows, creating |-> FALSE, deleting |-> 0, busy |-> FALSE,
        clicks |-> 0, alone |-> TRUE, missed |-> FALSE]]

BenchNext ==
  \/ \E w \in Windows :
       \/ OpenCreate(w) \/ Dismiss(w) \/ \E i \in bench[w].list : OpenDelete(w, i)
       \/ \E q \in Posts : SubmitCreate(q, w) \/ SubmitDelete(q, w)
  \/ \E q \in Posts :
       \/ Count(q) \/ Create(q) \/ Delete(q) \/ List(q) \/ Answer(q) \/ Lose(q)
       \/ AnswerError(q)

-----------------------------------------------------------------------------
(* The cap is overshot by at most the creates that counted while another   *)
(* had counted and not yet created.                                        *)
CapOvershootIsBounded ==
  Cardinality(Rows) <=
    MaxIntegrations + Cardinality({i \in DOMAIN notes : notes[i] # Null /\ notes[i].together})

(* "busy" is one word for both dialogs: a page has one request at a time,  *)
(* so its list is the stored one whenever it waits for nothing, no other   *)
(* tab has sent a request and the last answer was not lost on its way.     *)
BenchShowsTheRows ==
  \A w \in Windows :
    /\ Cardinality(Sent(w)) <= 1
    /\ bench[w].alone /\ ~bench[w].missed /\ Sent(w) = {} => bench[w].list = Rows
=============================================================================
