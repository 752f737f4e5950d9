------------------------------ MODULE Catalog ------------------------------
(***************************************************************************)
(* The catalog: categories, the questions of their quiz, the options of a  *)
(* question, the genres, and the cached list of categories of every pod.   *)
(* Admins edit it in forms, visitors read it, customers order from it.     *)
(*                                                                         *)
(* What a form writes is told by the request that wrote it: a category is  *)
(* the stamp of its last save, an option the pair of a request and of its  *)
(* place in the form.  A form that is refused before it reaches a          *)
(* statement changes nothing, and is left out.                             *)
(***************************************************************************)
EXTENDS Integers, FiniteSets

CONSTANTS
  Pods,
  Requests,     \* the requests, each made once
  Categories,   \* slugs, which an admin chooses
  Questions, Genres,  \* serial numbers, never used twice
  QuizForms,    \* what an admin fills in for a question
  MaxFaults,    \* bound: statements that fail
  Seed,         \* the stamp of what the migrations put in
  Nothing       \* no category

ASSUME CatalogFaults == MaxFaults \in Nat
ASSUME CatalogStamps == Seed \notin Requests /\ Nothing \notin Requests \cup {Seed}
ASSUME CatalogThings == Questions \cap Categories = {} /\ Nothing \notin Questions \cup Categories

\* How a question is answered: in words, or by a choice of its own options or of genres.
QuizForm == [kind : {"text", "inline", "genres"}, required : BOOLEAN, n : 0 .. 2]

ASSUME CatalogForms == QuizForms \subseteq QuizForm

VARIABLES
  category,   \* the stamp of each category, Nothing for one that is not there
  question,   \* the rows of questions
  options,    \* the rows of question_options of each question
  genre,      \* the genres: "active", "inactive", not yet there or gone
  links,      \* the rows of category_genres
  orders,     \* the orders: category_id of the one a request made
  cache,      \* PromptUseCase of each pod: cachedAll, and whether its TTL runs
  proc,       \* the requests
  faults,
  clean       \* history: what was edited without overlap and without a failure
              \* ever since the edit that replaced it last

vars == <<category, question, options, genre, links, orders, cache, proc, faults, clean>>
quiz == <<question, options>>
genres == <<genre, links>>

Stamps == Requests \cup {Seed}
Empty == [c \in Categories |-> Nothing]
NoCache == [list |-> Empty, fresh |-> FALSE]
NoQuestion == [state |-> "free", category |-> Nothing, by |-> Seed,
               form |-> [kind |-> "text", required |-> FALSE, n |-> 0]]

\* A request: its pod, its category and question, the options it has still to insert, the
\* list of categories or the links it has read, the genres it wants, whether its edit
\* overlaps no other (a history variable).
New == [pc |-> "new", pod |-> Nothing, category |-> Nothing, question |-> Nothing,
        n |-> 0, list |-> Empty, rows |-> {}, wanted |-> {}, alone |-> TRUE]
Done == [New EXCEPT !.pc = "done"]

Rows(c) == {l \in links : l.category = c}

\* Every category is there with a question of the first form, and links or none.
Init ==
  /\ category = [c \in Categories |-> Seed]
  /\ \E q \in Questions, f \in QuizForms, c \in Categories :
       /\ f.kind = "inline" /\ f.n > 0
       /\ question = [x \in Questions |-> IF x # q THEN NoQuestion ELSE
            [state |-> "there", category |-> c, by |-> Seed, form |-> f]]
       /\ options = [x \in Questions |-> IF x = q THEN {<<Seed, i>> : i \in 1 .. f.n} ELSE {}]
  /\ \E g \in Genres : genre = [x \in Genres |-> IF x = g THEN "none" ELSE "active"]
  /\ \E c \in Categories :
       links \in {{}, {[category |-> c, genre |-> g, by |-> Seed]
                       : g \in {x \in Genres : genre[x] = "active"}}}
  /\ orders = [r \in Requests |-> Nothing]
  /\ cache = [p \in Pods |-> NoCache]
  /\ proc = [r \in Requests |-> New]
  /\ faults = 0
  /\ clean = Questions \cup Categories

-----------------------------------------------------------------------------

At(r, pc) == proc[r].pc = pc
Goto(r, pc) == proc' = [proc EXCEPT ![r].pc = pc]
Become(r, rec) == proc' = [proc EXCEPT ![r] = rec]
Return(r) == Become(r, Done)
Arrives(p, pc) == [New EXCEPT !.pc = pc, !.pod = p]

\* An edit of thing t begins, and overlaps with those of it under way; an edit ends.
Editing(r, t) ==
  proc[r].pc \in {"clear", "options", "links"} /\ t \in {proc[r].category, proc[r].question}
Begin(r, rec, t) ==
  LET others == {s \in Requests : Editing(s, t)}
  IN /\ proc' = [s \in Requests |-> IF s = r THEN [rec EXCEPT !.alone = others = {}]
                    ELSE IF s \in others THEN [proc[s] EXCEPT !.alone = FALSE] ELSE proc[s]]
     /\ clean' = IF others = {} THEN clean ELSE clean \ {t}
End(r, t) == clean' = IF proc[r].alone THEN clean \cup {t} ELSE clean

\* What a form may hold: a choice of options of its own has some.
NewQuestion(f) == f.kind = "inline" => f.n > 0

-----------------------------------------------------------------------------
(* The list of categories and its cache.                                   *)

UsableForEver(e) == e.list # Empty

\* A cached list that is empty, or whose hour is over, is not used.
Usable(e) == e.fresh /\ e.list # Empty

\* HandleGetAll, and the pages that list the categories: the cache answers.
ListCached(r, p) ==
  /\ At(r, "new") /\ Usable(cache[p])
  /\ Return(r)
  /\ UNCHANGED <<category, quiz, genres, orders, cache, faults, clean>>

\* GetAllCategories without a usable cache: GetAll of the repository.
GetAll(r, p) ==
  /\ At(r, "new") /\ ~Usable(cache[p])
  /\ Become(r, [Arrives(p, "store") EXCEPT !.list = category])
  /\ UNCHANGED <<category, quiz, genres, orders, cache, faults, clean>>

\* The list read before is stored, whatever was changed or cleared meanwhile.
StoreCache(r) ==
  /\ At(r, "store")
  /\ cache' = [cache EXCEPT ![proc[r].pod] = [list |-> proc[r].list, fresh |-> TRUE]]
  /\ Return(r)
  /\ UNCHANGED <<category, quiz, genres, orders, faults, clean>>

\* InvalidateCache, of the pod that made the edit.
InvalidateCache(r) ==
  /\ At(r, "invalidate")
  /\ cache' = [cache EXCEPT ![proc[r].pod] = NoCache]
  /\ Return(r)
  /\ UNCHANGED <<category, quiz, genres, orders, faults, clean>>

\* categoriesCacheTTL is over.
Expire(p) ==
  /\ cache[p].fresh
  /\ cache' = [cache EXCEPT ![p].fresh = FALSE]
  /\ UNCHANGED <<category, quiz, genres, orders, proc, faults, clean>>

-----------------------------------------------------------------------------
(* Categories.                                                             *)

\* CreateCategory: one INSERT, which a slug in use refuses.
InsertCategory(r, c) == category[c] = Nothing /\ category' = [category EXCEPT ![c] = r]

CreateCategory(r, p, c) ==
  /\ At(r, "new")
  /\ InsertCategory(r, c)
  /\ Become(r, Arrives(p, "invalidate"))
  /\ UNCHANGED <<quiz, genres, orders, cache, faults, clean>>

\* UpdateCategory: the category is looked up, for nothing but to be there.
UpdateCategory(r, p, c) ==
  /\ At(r, "new") /\ category[c] # Nothing
  /\ Become(r, [Arrives(p, "update") EXCEPT !.category = c])
  /\ UNCHANGED <<category, quiz, genres, orders, cache, faults, clean>>

\* Update: every column comes from the form.  A category that is gone meanwhile is not
\* found, and the request ends.
SaveCategory(r) ==
  /\ At(r, "update")
  /\ IF category[proc[r].category] # Nothing
       THEN category' = [category EXCEPT ![proc[r].category] = r] /\ Goto(r, "invalidate")
       ELSE Return(r) /\ UNCHANGED category
  /\ UNCHANGED <<quiz, genres, orders, cache, faults, clean>>

\* A statement that deletes rows of category_genres waits for the transaction that has
\* deleted them and is not over.
Locked(rows) == \E s \in Requests : At(s, "links") /\ proc[s].rows \cap rows # {}

DeleteLeavingQuestions(c) ==
  /\ category[c] # Nothing /\ ~Locked(Rows(c))
  /\ category' = [category EXCEPT ![c] = Nothing]
  /\ links' = links \ Rows(c)
  /\ orders' = [s \in Requests |-> IF orders[s] = c THEN Nothing ELSE orders[s]]
  /\ UNCHANGED quiz

\* The row goes with its questions, their options and its links; the orders lose it.
DeleteCascade(c) ==
  /\ category[c] # Nothing /\ ~Locked(Rows(c))
  /\ category' = [category EXCEPT ![c] = Nothing]
  /\ question' = [q \in Questions |->
       IF question[q].category = c THEN [NoQuestion EXCEPT !.state = "gone"] ELSE question[q]]
  /\ options' = [q \in Questions |-> IF question[q].category = c THEN {} ELSE options[q]]
  /\ links' = links \ Rows(c)
  /\ orders' = [s \in Requests |-> IF orders[s] = c THEN Nothing ELSE orders[s]]

DeleteCategory(r, p, c) ==
  /\ At(r, "new")
  /\ DeleteCascade(c)
  /\ Become(r, Arrives(p, "invalidate"))
  /\ UNCHANGED <<genre, cache, faults, clean>>

-----------------------------------------------------------------------------
(* Questions and their options, one statement after another.               *)

\* AddQuestion: the row gets the next number; its category must be there.
InsertQuestion(r, c, q, f) ==
  /\ category[c] # Nothing /\ question[q].state = "free"
  /\ question' = [question EXCEPT ![q] =
       [state |-> "there", category |-> c, by |-> r, form |-> f]]

AddQuestion(r, p, c, q, f) ==
  /\ At(r, "new") /\ NewQuestion(f)
  /\ InsertQuestion(r, c, q, f)
  /\ Begin(r, [Arrives(p, "options") EXCEPT !.question = q, !.n = f.n], q)
  /\ UNCHANGED <<category, options, genres, orders, cache, faults>>

\* The UPDATE of a question, found by its number and its category.
SaveQuestion(r, q, f) ==
  /\ question[q].state = "there"
  /\ question' = [question EXCEPT ![q].by = r, ![q].form = f]

UpdateQuestion(r, p, q, f) ==
  /\ At(r, "new") /\ NewQuestion(f)
  /\ SaveQuestion(r, q, f)
  /\ Begin(r, [Arrives(p, "clear") EXCEPT !.question = q, !.n = f.n], q)
  /\ UNCHANGED <<category, options, genres, orders, cache, faults>>

ClearNothing(r) ==
  /\ At(r, "clear") /\ Goto(r, "options")
  /\ UNCHANGED <<category, quiz, genres, orders, cache, faults, clean>>

\* Its options are deleted, to be inserted anew.
ClearOptions(r) ==
  /\ At(r, "clear")
  /\ options' = [options EXCEPT ![proc[r].question] = {}]
  /\ Goto(r, "options")
  /\ UNCHANGED <<category, question, genres, orders, cache, faults, clean>>

\* insertOptions: a statement for each; the question must still be there.
InsertOption(r) ==
  LET q == proc[r].question
  IN /\ At(r, "options") /\ proc[r].n > 0
     /\ IF question[q].state = "there"
          THEN /\ options' = [options EXCEPT ![q] = @ \cup {<<r, proc[r].n>>}]
               /\ proc' = [proc EXCEPT ![r].n = @ - 1]
          ELSE Return(r) /\ UNCHANGED options
     /\ UNCHANGED <<category, question, genres, orders, cache, faults, clean>>

OptionsDone(r) ==
  /\ At(r, "options") /\ proc[r].n = 0
  /\ Become(r, Arrives(proc[r].pod, "invalidate"))
  /\ End(r, proc[r].question)
  /\ UNCHANGED <<category, quiz, genres, orders, cache, faults>>

\* A question goes with its options.
RemoveQuestion(q) ==
  /\ question[q].state = "there"
  /\ question' = [question EXCEPT ![q] = [NoQuestion EXCEPT !.state = "gone"]]
  /\ options' = [options EXCEPT ![q] = {}]

DeleteQuestion(r, p, q) ==
  /\ At(r, "new") /\ RemoveQuestion(q)
  /\ Become(r, Arrives(p, "invalidate"))
  /\ UNCHANGED <<category, genres, orders, cache, faults, clean>>

-----------------------------------------------------------------------------
(* Genres, and the genres of a category.                                   *)

InsertGenre(g) == genre[g] = "none" /\ genre' = [genre EXCEPT ![g] = "active"]
SaveGenre(g, s) == genre[g] \in {"active", "inactive"} /\ genre' = [genre EXCEPT ![g] = s]
\* The genre goes with its links.
RemoveGenre(g) ==
  /\ SaveGenre(g, "gone")
  /\ ~Locked({l \in links : l.genre = g})
  /\ links' = {l \in links : l.genre # g}

\* CreateGenre, with a slug of its own.
CreateGenre(r, p, g) ==
  /\ At(r, "new") /\ InsertGenre(g)
  /\ Return(r)
  /\ UNCHANGED <<category, quiz, links, orders, cache, faults, clean>>

\* GenreUseCase.Update: the genre is read, and saved with the columns of the form, whether
\* it is active among them; one that is gone meanwhile is not found.
UpdateGenre(r, p, g, s) ==
  /\ At(r, "new") /\ SaveGenre(g, s)
  /\ Return(r)
  /\ UNCHANGED <<category, quiz, links, orders, cache, faults, clean>>

DeleteGenre(r, p, g) ==
  /\ At(r, "new") /\ RemoveGenre(g)
  /\ Return(r)
  /\ UNCHANGED <<category, quiz, orders, cache, faults, clean>>

\* SetCategoryGenres: a transaction begins, whose DELETE sees the links of now.
SetCategoryGenres(r, p, c, wanted) ==
  /\ At(r, "new")
  /\ Begin(r, [Arrives(p, "links") EXCEPT !.category = c, !.rows = Rows(c), !.wanted = wanted], c)
  /\ UNCHANGED <<category, quiz, genres, orders, cache, faults>>

\* The inserts and the commit.  A link that another transaction has committed meanwhile
\* stands in the way of the same link, and stays beside another one; a genre or a
\* category that is gone fails the transaction as well.
CommitLinks(r) ==
  LET c == proc[r].category
      kept == links \ proc[r].rows
      inserts == /\ \A g \in proc[r].wanted : genre[g] \in {"active", "inactive"}
                 /\ proc[r].wanted # {} => category[c] # Nothing
                 /\ \A l \in kept : l.category = c => l.genre \notin proc[r].wanted
  IN /\ At(r, "links")
     /\ IF inserts
          THEN /\ links' = kept \cup {[category |-> c, genre |-> g, by |-> r] : g \in proc[r].wanted}
               /\ End(r, c)
          ELSE UNCHANGED <<links, clean>>
     /\ Return(r)
     /\ UNCHANGED <<category, quiz, genre, orders, cache, faults>>

-----------------------------------------------------------------------------
(* The quiz and the order that comes from it.                              *)

Asked(c) == {q \in Questions : question[q].state = "there" /\ question[q].category = c}

\* ValidateQuizAnswers.
ValidateQuizAnswers(c, answers) == {q \in Asked(c) : question[q].form.required} \subseteq answers

\* CreateOrder reads the category with its questions in one statement, and goes on when
\* the answers are complete.
CreateOrder(r, p, c, answers) ==
  /\ At(r, "new") /\ category[c] # Nothing
  /\ ValidateQuizAnswers(c, answers)
  /\ Become(r, [Arrives(p, "prompt") EXCEPT !.category = c])
  /\ UNCHANGED <<category, quiz, genres, orders, cache, faults, clean>>

\* BuildFinalPrompt reads the category once more, and fails when it is gone.
BuildFinalPrompt(r) ==
  /\ At(r, "prompt")
  /\ IF category[proc[r].category] # Nothing THEN Goto(r, "insert") ELSE Return(r)
  /\ UNCHANGED <<category, quiz, genres, orders, cache, faults, clean>>

\* The order names its category, which must be there.
InsertOrder(r) ==
  /\ At(r, "insert")
  /\ orders' = [orders EXCEPT ![r] =
       IF category[proc[r].category] # Nothing THEN proc[r].category ELSE Nothing]
  /\ Return(r)
  /\ UNCHANGED <<category, quiz, genres, cache, faults, clean>>

\* A statement fails: the request ends there, and its transaction is rolled back.
Fail(r) ==
  /\ proc[r].pc \in {"store", "update", "clear", "options", "links", "prompt", "insert"}
  /\ faults < MaxFaults /\ faults' = faults + 1
  /\ clean' = clean \ {proc[r].question}
  /\ Return(r)
  /\ UNCHANGED <<category, quiz, genres, orders, cache>>

-----------------------------------------------------------------------------

Arrive(r) == \E p \in Pods :
  \/ ListCached(r, p) \/ GetAll(r, p)
  \/ \E c \in Categories :
       \/ CreateCategory(r, p, c) \/ UpdateCategory(r, p, c) \/ DeleteCategory(r, p, c)
       \/ \E q \in Questions, f \in QuizForms : AddQuestion(r, p, c, q, f)
       \/ \E wanted \in SUBSET Genres : SetCategoryGenres(r, p, c, wanted)
       \/ \E answers \in SUBSET Questions : CreateOrder(r, p, c, answers)
  \/ \E q \in Questions : DeleteQuestion(r, p, q)
       \/ \E f \in QuizForms : UpdateQuestion(r, p, q, f)
  \/ \E g \in Genres :
       \/ CreateGenre(r, p, g) \/ DeleteGenre(r, p, g)
       \/ \E s \in {"active", "inactive"} : UpdateGenre(r, p, g, s)

Step(r) ==
  \/ StoreCache(r) \/ InvalidateCache(r) \/ SaveCategory(r) \/ ClearOptions(r)
  \/ InsertOption(r) \/ OptionsDone(r) \/ CommitLinks(r) \/ BuildFinalPrompt(r)
  \/ InsertOrder(r)

Next ==
  \/ \E r \in Requests : Arrive(r) \/ Step(r) \/ Fail(r)
  \/ \E p \in Pods : Expire(p)

Spec == Init /\ [][Next]_vars

\* A request that is under way goes on, and an hour passes.
FairSpec ==
  /\ Spec
  /\ \A r \in Requests : WF_vars(Step(r))
  /\ \A p \in Pods : WF_vars(Expire(p))

-----------------------------------------------------------------------------
(* Properties.                                                             *)

There(q) == question[q].state = "there"
Alive(g) == genre[g] \in {"active", "inactive"}
InHand(t) == \E r \in Requests : Editing(r, t)

\* Every variable has its type.
TypeOK ==
  /\ category \in [Categories -> Stamps \cup {Nothing}]
  /\ question \in [Questions -> [state : {"free", "there", "gone"},
       category : Categories \cup {Nothing}, by : Stamps, form : QuizForm]]
  /\ options \in [Questions -> SUBSET (Stamps \X {1, 2})]
  /\ genre \in [Genres -> {"none", "active", "inactive", "gone"}]
  /\ links \subseteq [category : Categories, genre : Genres, by : Stamps]
  /\ orders \in [Requests -> Categories \cup {Nothing}]
  /\ cache \in [Pods -> [list : [Categories -> Stamps \cup {Nothing}], fresh : BOOLEAN]]
  /\ DOMAIN proc = Requests /\ faults \in 0 .. MaxFaults
  /\ clean \subseteq Questions \cup Categories

\* Nothing is left behind by what is deleted while it is being edited: an option has its
\* question, a question its category, a link both its ends, once; an order names a
\* category that is there.
NothingDangles ==
  /\ \A q \in Questions : options[q] # {} => There(q)
  /\ \A q \in Questions : There(q) => category[question[q].category] # Nothing
  /\ \A l \in links : category[l.category] # Nothing /\ Alive(l.genre)
  /\ \A k, l \in links : <<k.category, k.genre>> = <<l.category, l.genre>> => k = l
  /\ \A r \in Requests : orders[r] # Nothing => category[orders[r]] # Nothing

\* A question whose edits neither overlapped nor failed since one that did not has exactly
\* the options of its last edit, and some if it is answered by a choice of them; the
\* genres of a category come from one list, even when others failed.
EditStands ==
  /\ \A q \in Questions : There(q) /\ q \in clean /\ ~InHand(q) =>
       LET e == question[q]
       IN /\ options[q] = {<<e.by, i>> : i \in 1 .. e.form.n}
          /\ e.form.kind = "inline" => options[q] # {}
  /\ \A c \in Categories \cap clean : ~InHand(c) => \A k, l \in Rows(c) : k.by = l.by

\* Once the edits are over every pod comes to show the categories as they are, and keeps
\* to it: what a late load has cached is not shown for ever.
Shown(p) == IF Usable(cache[p]) THEN cache[p].list ELSE category
EditsShowUp == <>[](\A p \in Pods : Shown(p) = category)
=============================================================================
