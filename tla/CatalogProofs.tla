--------------------------- MODULE CatalogProofs ---------------------------
(* The catalog for any pods, requests, categories, questions, genres and forms. *)
EXTENDS Catalog, TLAPS

-----------------------------------------------------------------------------
(* What a request knows.                                                   *)

PCs == {"new", "store", "invalidate", "update", "clear", "options", "links", "prompt",
        "insert", "done"}
Lists == [Categories -> Stamps \cup {Nothing}]
Link == [category : Categories, genre : Genres, by : Stamps]
Request == [pc : PCs, pod : Pods \cup {Nothing}, category : Categories \cup {Nothing},
            question : Questions \cup {Nothing}, n : 0 .. 2, list : Lists,
            rows : SUBSET Link, wanted : SUBSET Genres, alone : BOOLEAN]
Editors == {"clear", "options", "links"}

\* Who works on a category or a question has it, and edits one thing at a time.
RequestOK(g) ==
  /\ g.pc \notin {"new", "done"} => g.pod \in Pods
  /\ g.pc \in {"update", "links", "prompt", "insert"} => g.category \in Categories
  /\ g.pc \in {"clear", "options"} => g.question \in Questions /\ g.category = Nothing
  /\ g.pc = "links" => g.question = Nothing /\ \A l \in g.rows : l.category = g.category

RequestsOK ==
  /\ proc \in [Requests -> Request]
  /\ \A r \in Requests : RequestOK(proc[r])

QuestionRow == [state : {"free", "there", "gone"}, category : Categories \cup {Nothing},
                by : Stamps, form : QuizForm]
RowsOK ==
  /\ category \in Lists
  /\ question \in [Questions -> QuestionRow]
  /\ options \in [Questions -> SUBSET (Stamps \X {1, 2})]
  /\ genre \in [Genres -> {"none", "active", "inactive", "gone"}]
  /\ links \subseteq Link
  /\ orders \in [Requests -> Categories \cup {Nothing}]
CacheOK == cache \in [Pods -> [list : Lists, fresh : BOOLEAN]]
HistoryOK == faults \in 0 .. MaxFaults /\ clean \subseteq Questions \cup Categories

Typed == RequestsOK /\ RowsOK /\ CacheOK /\ HistoryOK

-----------------------------------------------------------------------------
(* What a step does to its request.                                        *)

Only(r) ==
  /\ proc' \in [Requests -> Request]
  /\ \A s \in Requests \ {r} : proc'[s] = proc[s]

\* A step of a request leaves the others alone.
LEMMA BecomeMoves ==
  ASSUME RequestsOK, NEW r \in Requests, NEW g \in Request, Become(r, g)
  PROVE  Only(r) /\ proc'[r] = g
  BY DEF RequestsOK, Become, Only

\* A jump changes the program counter alone.
LEMMA GotoMoves ==
  ASSUME RequestsOK, NEW r \in Requests, NEW c \in PCs, Goto(r, c)
  PROVE  /\ Only(r) /\ proc'[r].pc = c
         /\ proc'[r].pod = proc[r].pod /\ proc'[r].category = proc[r].category
         /\ proc'[r].question = proc[r].question /\ proc'[r].n = proc[r].n
         /\ proc'[r].rows = proc[r].rows /\ proc'[r].alone = proc[r].alone
  <1>1. proc[r] \in Request  BY DEF RequestsOK
  <1> QED  BY <1>1 DEF RequestsOK, Goto, Only, Request

\* A request that is made has nothing in hand.
LEMMA NewIs ==
  /\ New \in Request /\ New.pc = "new" /\ New.category = Nothing
  /\ New.question = Nothing /\ New.n = 0 /\ New.rows = {}
  <1>1. Empty \in Lists  BY DEF Lists, Empty
  <1>2. "new" \in PCs /\ 0 \in 0 .. 2  BY DEF PCs
  <1> QED  BY <1>1, <1>2 DEF New, Request

\* One that arrives has its pod and its place.
LEMMA ArrivesIs ==
  ASSUME NEW p \in Pods, NEW c \in PCs
  PROVE  /\ Arrives(p, c) \in Request
         /\ Arrives(p, c).pc = c /\ Arrives(p, c).pod = p /\ Arrives(p, c).category = Nothing
         /\ Arrives(p, c).question = Nothing /\ Arrives(p, c).n = 0
         /\ Arrives(p, c).rows = {}
  BY NewIs DEF Arrives, Request

\* One that is through is done.
LEMMA DoneIs == Done \in Request /\ Done.pc = "done"
  BY NewIs DEF Done, Request, PCs

\* A return makes it done, and nothing else.
LEMMA ReturnMoves ==
  ASSUME RequestsOK, NEW r \in Requests, Return(r)
  PROVE  Only(r) /\ proc'[r] = Done /\ proc'[r].pc = "done"
  BY DoneIs, BecomeMoves DEF Return

\* It is enough to look at the request that moves.
LEMMA MoverOK ==
  ASSUME RequestsOK, NEW r \in Requests, Only(r), RequestOK(proc'[r])
  PROVE  RequestsOK'
  BY DEF RequestsOK, Only

\* A request that moves on without a thing to edit is fine.
LEMMA ReturnOK ==
  ASSUME RequestsOK, NEW r \in Requests, Return(r)
  PROVE  RequestsOK'
  BY ReturnMoves, MoverOK DEF RequestOK

\* So is one that goes on to a cache.
LEMMA ArriveOK ==
  ASSUME RequestsOK, NEW r \in Requests, NEW p \in Pods, NEW c \in {"store", "invalidate"},
         Become(r, Arrives(p, c))
  PROVE  RequestsOK' /\ Only(r) /\ proc'[r].pc = c
  <1>1. c \in PCs  BY DEF PCs
  <1>2. Only(r) /\ proc'[r] = Arrives(p, c)  BY <1>1, ArrivesIs, BecomeMoves
  <1>3. proc'[r].pc = c /\ proc'[r].pod = p
    <2>1. Arrives(p, c).pc = c /\ Arrives(p, c).pod = p  BY <1>1, ArrivesIs
    <2> QED  BY <1>2, <2>1
  <1>4. RequestOK(proc'[r])  BY <1>3 DEF RequestOK
  <1> QED  BY <1>2, <1>3, <1>4, MoverOK

\* What two requests have in common but for their being alone.
Alike(g, h) ==
  /\ g.pc = h.pc /\ g.pod = h.pod /\ g.category = h.category /\ g.question = h.question
  /\ g.n = h.n /\ g.rows = h.rows

\* An edit begins: it is alone unless others edit the same thing, which are not either then.
LEMMA BeginMoves ==
  ASSUME RequestsOK, NEW r \in Requests, At(r, "new"), NEW g \in Request, NEW t, Begin(r, g, t)
  PROVE  /\ proc' \in [Requests -> Request]
         /\ Alike(proc'[r], g)
         /\ proc'[r].alone <=> \A s \in Requests : ~Editing(s, t)
         /\ \A s \in Requests \ {r} :
              /\ Alike(proc'[s], proc[s])
              /\ ~Editing(s, t) => proc'[s] = proc[s]
              /\ Editing(s, t) => ~proc'[s].alone
         /\ clean' = IF \A s \in Requests : ~Editing(s, t) THEN clean ELSE clean \ {t}
  <1> DEFINE others == {s \in Requests : Editing(s, t)}
             f(s) == IF s = r THEN [g EXCEPT !.alone = (others = {})]
                     ELSE IF s \in others THEN [proc[s] EXCEPT !.alone = FALSE] ELSE proc[s]
  <1>1. proc' = [s \in Requests |-> f(s)] /\ clean' = IF others = {} THEN clean ELSE clean \ {t}
    BY DEF Begin
  <1>2. others = {} <=> \A s \in Requests : ~Editing(s, t)  OBVIOUS
  <1> HIDE DEF others
  <1>3. ASSUME NEW s \in Requests  PROVE f(s) \in Request
    BY DEF RequestsOK, Request
  <1>4. Alike(f(r), g) /\ (f(r).alone <=> others = {})  BY DEF Alike, Request
  <1>5. ASSUME NEW s \in Requests \ {r}
        PROVE  /\ Alike(f(s), proc[s])
               /\ s \notin others => f(s) = proc[s]
               /\ s \in others => ~f(s).alone
    <2>1. proc[s] \in Request  BY DEF RequestsOK
    <2> QED  BY <2>1 DEF Alike, Request
  <1>6. \A s \in Requests : s \in others <=> Editing(s, t)  BY DEF others
  <1> HIDE DEF f
  <1> QED  BY <1>1, <1>2, <1>3, <1>4, <1>5, <1>6

\* A request that begins an edit is fine when what it takes with it is.
LEMMA BeginOK ==
  ASSUME RequestsOK, NEW r \in Requests, At(r, "new"), NEW g \in Request, NEW t, Begin(r, g, t),
         RequestOK(g)
  PROVE  RequestsOK'
  <1>1. /\ proc' \in [Requests -> Request] /\ Alike(proc'[r], g)
        /\ \A s \in Requests \ {r} : Alike(proc'[s], proc[s])
    BY BeginMoves
  <1>2. \A s \in Requests : RequestOK(proc'[s])
    BY <1>1 DEF RequestsOK, RequestOK, Alike
  <1> QED  BY <1>1, <1>2 DEF RequestsOK

\* One that has read the list of categories will store it.
LEMMA LoadMoves ==
  ASSUME RequestsOK, NEW r \in Requests, NEW p \in Pods, NEW l \in Lists,
         Become(r, [Arrives(p, "store") EXCEPT !.list = l])
  PROVE  RequestsOK' /\ Only(r) /\ proc'[r].pc = "store"
  <1> DEFINE g == Arrives(p, "store")
             h == [g EXCEPT !.list = l]
  <1>1. g \in Request /\ g.pc = "store" /\ g.pod = p  BY ArrivesIs DEF PCs
  <1>2. Become(r, h)  OBVIOUS
  <1> HIDE DEF g
  <1>3. h \in Request /\ h.pc = "store" /\ h.pod = p  BY <1>1 DEF Request
  <1> HIDE DEF h
  <1>4. Only(r) /\ proc'[r] = h  BY <1>2, <1>3, BecomeMoves
  <1> QED  BY <1>3, <1>4, MoverOK DEF RequestOK

\* One that has found its category goes on with it.
LEMMA LookUpMoves ==
  ASSUME RequestsOK, NEW r \in Requests, NEW p \in Pods, NEW c \in Categories,
         NEW pc \in {"update", "prompt"},
         Become(r, [Arrives(p, pc) EXCEPT !.category = c])
  PROVE  RequestsOK' /\ Only(r) /\ proc'[r].pc = pc
  <1> DEFINE g == Arrives(p, pc)
             h == [g EXCEPT !.category = c]
  <1>1. g \in Request /\ g.pc = pc /\ g.pod = p  BY ArrivesIs DEF PCs
  <1>2. Become(r, h)  OBVIOUS
  <1> HIDE DEF g
  <1>3. h \in Request /\ h.pc = pc /\ h.pod = p /\ h.category = c  BY <1>1 DEF Request
  <1> HIDE DEF h
  <1>4. Only(r) /\ proc'[r] = h  BY <1>2, <1>3, BecomeMoves
  <1> QED  BY <1>3, <1>4, MoverOK DEF RequestOK

\* What an edit of a question takes with it.
Takes(h, pc, q, n) == h.pc = pc /\ h.question = q /\ h.category = Nothing /\ h.n = n

\* An edit of a question takes its number and its form with it.
LEMMA QuestionTaken ==
  ASSUME NEW r \in Requests, NEW p \in Pods, NEW q \in Questions, NEW n \in 0 .. 2,
         NEW pc \in {"clear", "options"},
         Begin(r, [Arrives(p, pc) EXCEPT !.question = q, !.n = n], q)
  PROVE  \E h \in Request : Begin(r, h, q) /\ RequestOK(h) /\ Takes(h, pc, q, n)
  <1> DEFINE g == Arrives(p, pc)
             h == [g EXCEPT !.question = q, !.n = n]
  <1>1. g \in Request /\ g.pc = pc /\ g.pod = p /\ g.category = Nothing
    BY ArrivesIs DEF PCs
  <1>2. Begin(r, h, q)  OBVIOUS
  <1> HIDE DEF g
  <1>3. /\ h \in Request /\ h.pc = pc /\ h.pod = p
        /\ h.question = q /\ h.category = Nothing /\ h.n = n
    BY <1>1 DEF Request
  <1> HIDE DEF h
  <1>4. RequestOK(h)  BY <1>3 DEF RequestOK
  <1> QED  BY <1>2, <1>3, <1>4 DEF Takes

\* One of the genres takes the links it has seen as well.
LEMMA LinksTaken ==
  ASSUME links \subseteq Link, NEW r \in Requests, NEW p \in Pods, NEW c \in Categories,
         NEW w \in SUBSET Genres,
         Begin(r, [Arrives(p, "links") EXCEPT !.category = c, !.rows = Rows(c), !.wanted = w], c)
  PROVE  \E h \in Request : /\ Begin(r, h, c) /\ RequestOK(h) /\ h.pc = "links"
                            /\ h.question = Nothing /\ h.category = c /\ h.rows = Rows(c)
  <1> DEFINE g == Arrives(p, "links")
             R == Rows(c)
             h == [g EXCEPT !.category = c, !.rows = R, !.wanted = w]
  <1>1. /\ g \in Request /\ g.pc = "links" /\ g.pod = p /\ g.question = Nothing
        /\ R \in SUBSET Link /\ \A l \in R : l.category = c
    BY ArrivesIs DEF PCs, Rows
  <1>2. Begin(r, h, c)  OBVIOUS
  <1> HIDE DEF g, R
  <1>3. /\ h \in Request /\ h.pc = "links" /\ h.pod = p
        /\ h.question = Nothing /\ h.category = c /\ h.rows = R
    BY <1>1 DEF Request
  <1> HIDE DEF h
  <1>4. RequestOK(h)  BY <1>1, <1>3 DEF RequestOK
  <1> QED  BY <1>2, <1>3, <1>4 DEF R

-----------------------------------------------------------------------------
(* Types.                                                                  *)

\* What is left alone keeps its type.
LEMMA Unmoved ==
  /\ RowsOK /\ UNCHANGED <<category, quiz, genres, orders>> => RowsOK'
  /\ CacheOK /\ UNCHANGED cache => CacheOK'
  /\ HistoryOK /\ UNCHANGED <<faults, clean>> => HistoryOK'
  /\ RequestsOK /\ UNCHANGED proc => RequestsOK'
  BY DEF RowsOK, quiz, genres, CacheOK, HistoryOK, RequestsOK

\* An edit that begins or ends leaves a history of things.
LEMMA HistoriesOK ==
  ASSUME HistoryOK, NEW r \in Requests, NEW t \in Questions \cup Categories,
         End(r, t) \/ (\E g : Begin(r, g, t)), UNCHANGED faults
  PROVE  HistoryOK'
  BY DEF HistoryOK, End, Begin

\* The request keeps what it knows when it jumps.
LEMMA GotoOK ==
  ASSUME RequestsOK, NEW r \in Requests, NEW c \in PCs, Goto(r, c),
         \/ proc[r].pc = "clear" /\ c = "options"
         \/ proc[r].pc = "prompt" /\ c = "insert"
         \/ proc[r].pc = "update" /\ c = "invalidate"
  PROVE  RequestsOK' /\ Only(r) /\ proc'[r].pc = c
  <1>1. /\ Only(r) /\ proc'[r].pc = c
        /\ proc'[r].pod = proc[r].pod /\ proc'[r].category = proc[r].category
        /\ proc'[r].question = proc[r].question
    BY GotoMoves
  <1>2. RequestOK(proc[r])  BY DEF RequestsOK
  <1>3. RequestOK(proc'[r])  BY <1>1, <1>2 DEF RequestOK
  <1> QED  BY <1>1, <1>3, MoverOK

\* A question that is gone.
LEMMA GoneIs ==
  /\ [NoQuestion EXCEPT !.state = "gone"] \in QuestionRow
  /\ [NoQuestion EXCEPT !.state = "gone"].state = "gone"
  <1> DEFINE f == [kind |-> "text", required |-> FALSE, n |-> 0]
             e == NoQuestion
  <1>1. f \in QuizForm  BY DEF QuizForm
  <1>2. e = [state |-> "free", category |-> Nothing, by |-> Seed, form |-> f]  BY DEF NoQuestion
  <1> HIDE DEF f
  <1>3. e \in QuestionRow  BY <1>1, <1>2 DEF QuestionRow, Stamps
  <1> HIDE DEF e
  <1>4. [e EXCEPT !.state = "gone"] \in QuestionRow /\ [e EXCEPT !.state = "gone"].state = "gone"
    BY <1>3 DEF QuestionRow
  <1> QED  BY <1>4 DEF e

\* Reading the list of categories and storing it keeps the types.
LEMMA ListTyped ==
  ASSUME Typed, NEW r \in Requests,
         \/ \E p \in Pods : ListCached(r, p) \/ GetAll(r, p)
         \/ StoreCache(r) \/ InvalidateCache(r)
  PROVE  Typed' /\ Only(r) /\ proc'[r].pc \notin Editors
  <1> USE DEF Typed
  <1>1. ASSUME NEW p \in Pods, ListCached(r, p)
        PROVE  Typed' /\ Only(r) /\ proc'[r].pc \notin Editors
    BY <1>1, ReturnOK, ReturnMoves, Unmoved DEF ListCached, Editors
  <1>2. ASSUME NEW p \in Pods, GetAll(r, p)
        PROVE  Typed' /\ Only(r) /\ proc'[r].pc \notin Editors
    <2>1. category \in Lists  BY DEF RowsOK
    <2>2. /\ Become(r, [Arrives(p, "store") EXCEPT !.list = category])
          /\ UNCHANGED <<category, quiz, genres, orders>> /\ UNCHANGED cache
          /\ UNCHANGED <<faults, clean>>
      BY <1>2 DEF GetAll
    <2>3. RequestsOK' /\ Only(r) /\ proc'[r].pc = "store"  BY <2>1, <2>2, LoadMoves
    <2> QED  BY <2>2, <2>3, Unmoved DEF Editors
  <1>3. ASSUME StoreCache(r) \/ InvalidateCache(r)
        PROVE  Typed' /\ Only(r) /\ proc'[r].pc \notin Editors
    <2>1. /\ proc[r].pc \in {"store", "invalidate"} /\ Return(r)
          /\ UNCHANGED <<category, quiz, genres, orders>> /\ UNCHANGED <<faults, clean>>
      BY <1>3 DEF StoreCache, InvalidateCache, At
    <2>2. proc[r].pod \in Pods /\ proc[r].list \in Lists
      BY <2>1 DEF RequestsOK, RequestOK, Request
    <2>3. Empty \in Lists  BY DEF Empty, Lists
    <2>4. PICK e \in [list : Lists, fresh : BOOLEAN] :
            cache' = [cache EXCEPT ![proc[r].pod] = e]
      BY <1>3, <2>2, <2>3 DEF StoreCache, InvalidateCache, NoCache
    <2>5. CacheOK'  BY <2>2, <2>4 DEF CacheOK
    <2> QED  BY <2>1, <2>5, ReturnOK, ReturnMoves, Unmoved DEF Editors
  <1> QED  BY <1>1, <1>2, <1>3

\* So do the forms of a category.
LEMMA CategoryTyped ==
  ASSUME Typed, NEW r \in Requests,
         \/ \E p \in Pods, c \in Categories :
              CreateCategory(r, p, c) \/ UpdateCategory(r, p, c) \/ DeleteCategory(r, p, c)
         \/ SaveCategory(r)
  PROVE  Typed' /\ Only(r) /\ proc'[r].pc \notin Editors
  <1> USE DEF Typed
  <1>1. ASSUME NEW p \in Pods, NEW c \in Categories, CreateCategory(r, p, c)
        PROVE  Typed' /\ Only(r) /\ proc'[r].pc \notin Editors
    <2>1. /\ Become(r, Arrives(p, "invalidate")) /\ InsertCategory(r, c)
          /\ UNCHANGED <<quiz, genres, orders>> /\ UNCHANGED cache /\ UNCHANGED <<faults, clean>>
      BY <1>1 DEF CreateCategory
    <2>2. RequestsOK' /\ Only(r) /\ proc'[r].pc = "invalidate"  BY <2>1, ArriveOK
    <2>3. RowsOK'  BY <2>1 DEF RowsOK, InsertCategory, Lists, Stamps, quiz, genres
    <2> QED  BY <2>1, <2>2, <2>3, Unmoved DEF Editors
  <1>2. ASSUME NEW p \in Pods, NEW c \in Categories, UpdateCategory(r, p, c)
        PROVE  Typed' /\ Only(r) /\ proc'[r].pc \notin Editors
    <2>1. /\ Become(r, [Arrives(p, "update") EXCEPT !.category = c])
          /\ UNCHANGED <<category, quiz, genres, orders>> /\ UNCHANGED cache
          /\ UNCHANGED <<faults, clean>>
      BY <1>2 DEF UpdateCategory
    <2>2. RequestsOK' /\ Only(r) /\ proc'[r].pc = "update"  BY <2>1, LookUpMoves
    <2> QED  BY <2>1, <2>2, Unmoved DEF Editors
  <1>3. ASSUME NEW p \in Pods, NEW c \in Categories, DeleteCategory(r, p, c)
        PROVE  Typed' /\ Only(r) /\ proc'[r].pc \notin Editors
    <2>1. /\ Become(r, Arrives(p, "invalidate")) /\ DeleteCascade(c)
          /\ UNCHANGED genre /\ UNCHANGED cache /\ UNCHANGED <<faults, clean>>
      BY <1>3 DEF DeleteCategory
    <2>2. RequestsOK' /\ Only(r) /\ proc'[r].pc = "invalidate"  BY <2>1, ArriveOK
    <2>3. category' \in Lists /\ options' \in [Questions -> SUBSET (Stamps \X {1, 2})]
      BY <2>1 DEF RowsOK, DeleteCascade, Lists
    <2>4. question' \in [Questions -> QuestionRow]
      BY <2>1, GoneIs DEF RowsOK, DeleteCascade
    <2>5. links' \subseteq Link /\ orders' \in [Requests -> Categories \cup {Nothing}]
      BY <2>1 DEF RowsOK, DeleteCascade
    <2>6. RowsOK'  BY <2>1, <2>3, <2>4, <2>5 DEF RowsOK
    <2> QED  BY <2>1, <2>2, <2>6, Unmoved DEF Editors
  <1>4. ASSUME SaveCategory(r)  PROVE Typed' /\ Only(r) /\ proc'[r].pc \notin Editors
    <2>1. proc[r].pc = "update" /\ proc[r].category \in Categories /\ r \in Stamps
      BY <1>4 DEF SaveCategory, At, RequestsOK, RequestOK, Stamps
    <2>2. /\ UNCHANGED <<quiz, genres, orders>> /\ UNCHANGED cache /\ UNCHANGED <<faults, clean>>
          /\ \/ category' = [category EXCEPT ![proc[r].category] = r] /\ Goto(r, "invalidate")
             \/ Return(r) /\ UNCHANGED category
      BY <1>4 DEF SaveCategory
    <2>3. RowsOK'  BY <2>1, <2>2 DEF RowsOK, Lists, quiz, genres
    <2>4. CASE Return(r)  BY <2>2, <2>3, <2>4, ReturnOK, ReturnMoves, Unmoved DEF Editors
    <2>5. CASE Goto(r, "invalidate")
      <3>1. RequestsOK' /\ Only(r) /\ proc'[r].pc = "invalidate"
        BY <2>1, <2>5, GotoOK DEF PCs
      <3> QED  BY <2>2, <2>3, <3>1, Unmoved DEF Editors
    <2> QED  BY <2>2, <2>4, <2>5
  <1> QED  BY <1>1, <1>2, <1>3, <1>4
\* So do the edits of a question.
LEMMA QuestionsTyped ==
  ASSUME Typed, NEW r \in Requests,
         \/ \E p \in Pods, q \in Questions :
              \/ DeleteQuestion(r, p, q)
              \/ \E f \in QuizForms :
                   UpdateQuestion(r, p, q, f) \/ \E c \in Categories : AddQuestion(r, p, c, q, f)
         \/ ClearOptions(r) \/ InsertOption(r) \/ OptionsDone(r)
  PROVE  Typed'
  <1> USE DEF Typed
  <1>1. ASSUME NEW p \in Pods, NEW c \in Categories, NEW q \in Questions, NEW f \in QuizForms,
               AddQuestion(r, p, c, q, f)
        PROVE  Typed'
    <2>1. /\ At(r, "new") /\ InsertQuestion(r, c, q, f)
          /\ Begin(r, [Arrives(p, "options") EXCEPT !.question = q, !.n = f.n], q)
          /\ UNCHANGED <<category, options, genres, orders>> /\ UNCHANGED cache
          /\ UNCHANGED faults
      BY <1>1 DEF AddQuestion
    <2>2. f \in QuizForm /\ f.n \in 0 .. 2 /\ r \in Stamps  BY CatalogForms DEF QuizForm, Stamps
    <2>3. RequestsOK'
      <3>1. PICK h \in Request : Begin(r, h, q) /\ RequestOK(h)
        BY <2>1, <2>2, QuestionTaken
      <3> QED  BY <2>1, <3>1, BeginOK
    <2>4. HistoryOK'  BY <2>1, HistoriesOK
    <2>5. question' \in [Questions -> QuestionRow]
      BY <2>1, <2>2 DEF RowsOK, InsertQuestion, QuestionRow
    <2>6. RowsOK'  BY <2>1, <2>5 DEF RowsOK, genres
    <2> QED  BY <2>1, <2>3, <2>4, <2>6, Unmoved
  <1>2. ASSUME NEW p \in Pods, NEW q \in Questions, NEW f \in QuizForms,
               UpdateQuestion(r, p, q, f)
        PROVE  Typed'
    <2>1. /\ At(r, "new") /\ SaveQuestion(r, q, f)
          /\ Begin(r, [Arrives(p, "clear") EXCEPT !.question = q, !.n = f.n], q)
          /\ UNCHANGED <<category, options, genres, orders>> /\ UNCHANGED cache
          /\ UNCHANGED faults
      BY <1>2 DEF UpdateQuestion
    <2>2. f \in QuizForm /\ f.n \in 0 .. 2 /\ r \in Stamps  BY CatalogForms DEF QuizForm, Stamps
    <2>3. RequestsOK'
      <3>1. PICK h \in Request : Begin(r, h, q) /\ RequestOK(h)
        BY <2>1, <2>2, QuestionTaken
      <3> QED  BY <2>1, <3>1, BeginOK
    <2>4. HistoryOK'  BY <2>1, HistoriesOK
    <2>5. question' \in [Questions -> QuestionRow]
      BY <2>1, <2>2 DEF RowsOK, SaveQuestion, QuestionRow
    <2>6. RowsOK'  BY <2>1, <2>5 DEF RowsOK, genres
    <2> QED  BY <2>1, <2>3, <2>4, <2>6, Unmoved
  <1>3. ASSUME NEW p \in Pods, NEW q \in Questions, DeleteQuestion(r, p, q)
        PROVE  Typed'
    <2>1. /\ RemoveQuestion(q) /\ Become(r, Arrives(p, "invalidate"))
          /\ UNCHANGED <<category, genres, orders>> /\ UNCHANGED cache
          /\ UNCHANGED <<faults, clean>>
      BY <1>3 DEF DeleteQuestion
    <2>2. RequestsOK'  BY <2>1, ArriveOK
    <2>3. question' \in [Questions -> QuestionRow]
      BY <2>1, GoneIs DEF RowsOK, RemoveQuestion
    <2>4. options' \in [Questions -> SUBSET (Stamps \X {1, 2})]
      BY <2>1 DEF RowsOK, RemoveQuestion
    <2>5. RowsOK'  BY <2>1, <2>3, <2>4 DEF RowsOK, genres
    <2> QED  BY <2>1, <2>2, <2>5, Unmoved
  <1>4. CASE ClearOptions(r)
    <2>1. /\ proc[r].pc = "clear" /\ Goto(r, "options")
          /\ options' = [options EXCEPT ![proc[r].question] = {}]
          /\ UNCHANGED <<category, question, genres, orders>> /\ UNCHANGED cache
          /\ UNCHANGED <<faults, clean>>
      BY <1>4 DEF ClearOptions, At
    <2>2. RequestsOK'  BY <2>1, GotoOK DEF PCs
    <2>3. RowsOK'  BY <2>1 DEF RowsOK, genres
    <2> QED  BY <2>1, <2>2, <2>3, Unmoved
  <1>5. CASE InsertOption(r)
    <2> DEFINE q == proc[r].question
               n == proc[r].n
    <2>1. /\ proc[r].pc = "options" /\ proc[r].n > 0
          /\ \/ Return(r) /\ UNCHANGED options
             \/ /\ options' = [options EXCEPT ![q] = @ \cup {<<r, n>>}]
                /\ proc' = [proc EXCEPT ![r].n = n - 1]
          /\ UNCHANGED <<category, question, genres, orders>> /\ UNCHANGED cache
          /\ UNCHANGED <<faults, clean>>
      BY <1>5 DEF InsertOption, At
    <2>2. proc[r] \in Request /\ RequestOK(proc[r]) /\ q \in Questions /\ n \in {1, 2}
      <3>1. proc[r] \in Request /\ RequestOK(proc[r])  BY DEF RequestsOK
      <3> QED  BY <2>1, <3>1 DEF Request, RequestOK
    <2>3. CASE Return(r) /\ UNCHANGED options
      <3>1. RowsOK'  BY <2>1, <2>3 DEF RowsOK, genres
      <3> QED  BY <2>1, <2>3, <3>1, ReturnOK, Unmoved
    <2>4. CASE /\ options' = [options EXCEPT ![q] = @ \cup {<<r, n>>}]
               /\ proc' = [proc EXCEPT ![r].n = n - 1]
      <3>1. <<r, n>> \in Stamps \X {1, 2}  BY <2>2 DEF Stamps
      <3>2. options' \in [Questions -> SUBSET (Stamps \X {1, 2})]
        BY <2>2, <2>4, <3>1 DEF RowsOK
      <3>3. RowsOK'  BY <2>1, <3>2 DEF RowsOK, genres
      <3>4. RequestsOK'
        <4>1. Only(r) /\ Alike(proc'[r], [proc[r] EXCEPT !.n = n - 1])
          BY <2>2, <2>4 DEF RequestsOK, Only, Request, Alike
        <4>2. RequestOK(proc'[r])  BY <2>2, <2>4 DEF RequestsOK, RequestOK, Request
        <4> QED  BY <4>1, <4>2, MoverOK
      <3> QED  BY <2>1, <3>3, <3>4, Unmoved
    <2> QED  BY <2>1, <2>3, <2>4
  <1>6. CASE OptionsDone(r)
    <2>1. /\ proc[r].pc = "options" /\ Become(r, Arrives(proc[r].pod, "invalidate"))
          /\ End(r, proc[r].question)
          /\ UNCHANGED <<category, quiz, genres, orders>> /\ UNCHANGED cache
          /\ UNCHANGED faults
      BY <1>6 DEF OptionsDone, At
    <2>2. proc[r].pod \in Pods /\ proc[r].question \in Questions
      BY <2>1 DEF RequestsOK, RequestOK
    <2>3. RequestsOK'  BY <2>1, <2>2, ArriveOK
    <2>4. HistoryOK'  BY <2>1, <2>2, HistoriesOK
    <2> QED  BY <2>1, <2>3, <2>4, Unmoved
  <1> QED  BY <1>1, <1>2, <1>3, <1>4, <1>5, <1>6
\* And the edits of the genres.
LEMMA GenresTyped ==
  ASSUME Typed, NEW r \in Requests,
         \/ \E p \in Pods, c \in Categories, w \in SUBSET Genres : SetCategoryGenres(r, p, c, w)
         \/ \E p \in Pods, g \in Genres, s \in {"active", "inactive"} :
              CreateGenre(r, p, g) \/ DeleteGenre(r, p, g) \/ UpdateGenre(r, p, g, s)
         \/ CommitLinks(r)
  PROVE  Typed'
  <1> USE DEF Typed
  <1>1. ASSUME NEW p \in Pods, NEW c \in Categories, NEW w \in SUBSET Genres,
               SetCategoryGenres(r, p, c, w)
        PROVE  Typed'
    <2>1. /\ At(r, "new") /\ UNCHANGED <<category, quiz, genres, orders>> /\ UNCHANGED cache
          /\ UNCHANGED faults
          /\ Begin(r, [Arrives(p, "links") EXCEPT !.category = c, !.rows = Rows(c),
                                                 !.wanted = w], c)
      BY <1>1 DEF SetCategoryGenres
    <2>2. links \subseteq Link  BY DEF RowsOK
    <2>3. RequestsOK'  BY <2>1, <2>2, LinksTaken, BeginOK
    <2>4. HistoryOK'  BY <2>1, HistoriesOK
    <2> QED  BY <2>1, <2>3, <2>4, Unmoved
  <1>2. ASSUME NEW p \in Pods, NEW g \in Genres, NEW s \in {"active", "inactive"},
               CreateGenre(r, p, g) \/ DeleteGenre(r, p, g) \/ UpdateGenre(r, p, g, s)
        PROVE  Typed'
    <2>1. /\ Return(r) /\ UNCHANGED <<category, quiz, orders>> /\ UNCHANGED cache
          /\ UNCHANGED <<faults, clean>>
          /\ links' \subseteq links
          /\ \E x \in {"active", "inactive", "gone"} : genre' = [genre EXCEPT ![g] = x]
      BY <1>2 DEF CreateGenre, DeleteGenre, UpdateGenre, InsertGenre, SaveGenre, RemoveGenre
    <2>2. genre' \in [Genres -> {"none", "active", "inactive", "gone"}]  BY <2>1 DEF RowsOK
    <2>3. RowsOK'  BY <2>1, <2>2 DEF RowsOK, quiz
    <2> QED  BY <2>1, <2>3, ReturnOK, Unmoved
  <1>3. CASE CommitLinks(r)
    <2> DEFINE c == proc[r].category
               w == proc[r].wanted
    <2>1. /\ proc[r].pc = "links" /\ Return(r)
          /\ UNCHANGED <<category, quiz, genre, orders>> /\ UNCHANGED cache
          /\ UNCHANGED faults
          /\ \/ UNCHANGED <<links, clean>>
             \/ /\ links' = (links \ proc[r].rows)
                              \cup {[category |-> c, genre |-> g, by |-> r] : g \in w}
                /\ End(r, c)
      BY <1>3 DEF CommitLinks, At
    <2>2. c \in Categories /\ w \subseteq Genres /\ r \in Stamps
      BY <2>1 DEF RequestsOK, RequestOK, Request, Stamps
    <2>3. HistoryOK'  BY <2>1, <2>2, HistoriesOK, Unmoved
    <2>4. links' \subseteq Link  BY <2>1, <2>2 DEF RowsOK, Link
    <2>5. RowsOK'  BY <2>1, <2>4 DEF RowsOK, quiz
    <2> QED  BY <2>1, <2>3, <2>5, ReturnOK, Unmoved
  <1> QED  BY <1>1, <1>2, <1>3

\* So do an order and a request that fails.
LEMMA OthersTyped ==
  ASSUME Typed, NEW r \in Requests,
         \/ \E p \in Pods, c \in Categories, a \in SUBSET Questions : CreateOrder(r, p, c, a)
         \/ BuildFinalPrompt(r) \/ InsertOrder(r) \/ Fail(r)
  PROVE  Typed'
  <1> USE DEF Typed
  <1>1. ASSUME NEW p \in Pods, NEW c \in Categories, NEW a \in SUBSET Questions,
               CreateOrder(r, p, c, a)
        PROVE  Typed'
    <2>1. /\ Become(r, [Arrives(p, "prompt") EXCEPT !.category = c])
          /\ UNCHANGED <<category, quiz, genres, orders>> /\ UNCHANGED cache
          /\ UNCHANGED <<faults, clean>>
      BY <1>1 DEF CreateOrder
    <2>2. RequestsOK'  BY <2>1, LookUpMoves
    <2> QED  BY <2>1, <2>2, Unmoved
  <1>2. CASE BuildFinalPrompt(r)
    <2>1. /\ proc[r].pc = "prompt" /\ (Goto(r, "insert") \/ Return(r))
          /\ UNCHANGED <<category, quiz, genres, orders>> /\ UNCHANGED cache
          /\ UNCHANGED <<faults, clean>>
      BY <1>2 DEF BuildFinalPrompt, At
    <2>2. RequestsOK'  BY <2>1, GotoOK, ReturnOK DEF PCs
    <2> QED  BY <2>1, <2>2, Unmoved
  <1>3. CASE InsertOrder(r)
    <2>1. /\ proc[r].pc = "insert" /\ Return(r)
          /\ UNCHANGED <<category, quiz, genres>> /\ UNCHANGED cache /\ UNCHANGED <<faults, clean>>
          /\ \E x \in {proc[r].category, Nothing} : orders' = [orders EXCEPT ![r] = x]
      BY <1>3 DEF InsertOrder, At
    <2>2. proc[r].category \in Categories  BY <2>1 DEF RequestsOK, RequestOK
    <2>3. RowsOK'  BY <2>1, <2>2 DEF RowsOK, quiz, genres
    <2> QED  BY <2>1, <2>3, ReturnOK, Unmoved
  <1>4. CASE Fail(r)
    <2>1. HistoryOK'  BY <1>4, CatalogFaults DEF Fail, HistoryOK
    <2> QED  BY <1>4, <2>1, ReturnOK, Unmoved DEF Fail
  <1> QED  BY <1>1, <1>2, <1>3, <1>4

\* A cache whose hour is over keeps its list.
LEMMA ExpireTyped ==
  ASSUME Typed, NEW p \in Pods, Expire(p)
  PROVE  Typed'
  <1>1. CacheOK'  BY DEF Typed, Expire, CacheOK
  <1> QED  BY <1>1, Unmoved DEF Typed, Expire

\* Every step keeps the types.
LEMMA TypesStep ==
  ASSUME Typed, [Next]_vars
  PROVE  Typed'
  <1>1. ASSUME NEW r \in Requests, Arrive(r)  PROVE Typed'
    <2>1. PICK p \in Pods :
            \/ ListCached(r, p) \/ GetAll(r, p)
            \/ \E c \in Categories :
                 \/ CreateCategory(r, p, c) \/ UpdateCategory(r, p, c) \/ DeleteCategory(r, p, c)
                 \/ \E q \in Questions, f \in QuizForms : AddQuestion(r, p, c, q, f)
                 \/ \E wanted \in SUBSET Genres : SetCategoryGenres(r, p, c, wanted)
                 \/ \E answers \in SUBSET Questions : CreateOrder(r, p, c, answers)
            \/ \E q \in Questions :
                 \/ DeleteQuestion(r, p, q)
                 \/ \E f \in QuizForms : UpdateQuestion(r, p, q, f)
            \/ \E g \in Genres :
                 \/ CreateGenre(r, p, g) \/ DeleteGenre(r, p, g)
                 \/ \E s \in {"active", "inactive"} : UpdateGenre(r, p, g, s)
      BY <1>1 DEF Arrive
    <2>2. CASE ListCached(r, p) \/ GetAll(r, p)  BY <2>2, ListTyped
    <2>3. ASSUME NEW c \in Categories,
                 \/ CreateCategory(r, p, c) \/ UpdateCategory(r, p, c) \/ DeleteCategory(r, p, c)
                 \/ \E q \in Questions, f \in QuizForms : AddQuestion(r, p, c, q, f)
                 \/ \E wanted \in SUBSET Genres : SetCategoryGenres(r, p, c, wanted)
                 \/ \E answers \in SUBSET Questions : CreateOrder(r, p, c, answers)
          PROVE  Typed'
      BY <2>3, CategoryTyped, QuestionsTyped, GenresTyped, OthersTyped
    <2>4. ASSUME NEW q \in Questions,
                 DeleteQuestion(r, p, q) \/ \E f \in QuizForms : UpdateQuestion(r, p, q, f)
          PROVE  Typed'
      BY <2>4, QuestionsTyped
    <2>5. ASSUME NEW g \in Genres,
                 \/ CreateGenre(r, p, g) \/ DeleteGenre(r, p, g)
                 \/ \E s \in {"active", "inactive"} : UpdateGenre(r, p, g, s)
          PROVE  Typed'
      BY <2>5, GenresTyped
    <2> QED  BY <2>1, <2>2, <2>3, <2>4, <2>5
  <1>2. ASSUME NEW r \in Requests, Step(r) \/ Fail(r)  PROVE Typed'
    BY <1>2, ListTyped, CategoryTyped, QuestionsTyped, GenresTyped, OthersTyped DEF Step
  <1>3. ASSUME NEW p \in Pods, Expire(p)  PROVE Typed'
    BY <1>3, ExpireTyped
  <1>4. CASE UNCHANGED vars
    <2>1. /\ UNCHANGED <<category, quiz, genres, orders>> /\ UNCHANGED cache
          /\ UNCHANGED <<faults, clean>> /\ UNCHANGED proc
      BY <1>4 DEF vars, quiz, genres
    <2> QED  BY <2>1, Unmoved DEF Typed
  <1> QED  BY <1>1, <1>2, <1>3, <1>4 DEF Next

\* It starts with them.
LEMMA InitTyped == Init => Typed
  <1> SUFFICES ASSUME Init PROVE Typed  OBVIOUS
  <1>1. Seed \in Stamps /\ Empty \in Lists  BY DEF Stamps, Empty, Lists
  <1>2. NoQuestion \in QuestionRow /\ NoQuestion.state = "free"
    <2>1. [kind |-> "text", required |-> FALSE, n |-> 0] \in QuizForm  BY DEF QuizForm
    <2> QED  BY <2>1, <1>1 DEF NoQuestion, QuestionRow
  <1>3. question \in [Questions -> QuestionRow]
    <2>1. PICK q \in Questions, f \in QuizForms, c \in Categories :
            question = [x \in Questions |-> IF x # q THEN NoQuestion ELSE
              [state |-> "there", category |-> c, by |-> Seed, form |-> f]]
      BY DEF Init
    <2>2. [state |-> "there", category |-> c, by |-> Seed, form |-> f] \in QuestionRow
      BY <1>1, CatalogForms DEF QuestionRow
    <2> QED  BY <2>1, <2>2, <1>2
  <1>4. options \in [Questions -> SUBSET (Stamps \X {1, 2})]
    <2>1. PICK q \in Questions, f \in QuizForms :
            options = [x \in Questions |-> IF x = q THEN {<<Seed, i>> : i \in 1 .. f.n} ELSE {}]
      BY DEF Init
    <2>2. f.n \in 0 .. 2  BY CatalogForms DEF QuizForm
    <2>3. {<<Seed, i>> : i \in 1 .. f.n} \subseteq Stamps \X {1, 2}  BY <2>2, <1>1
    <2> QED  BY <2>1, <2>3
  <1>5. genre \in [Genres -> {"none", "active", "inactive", "gone"}]  BY DEF Init
  <1>6. links \subseteq Link  BY <1>1 DEF Init, Link
  <1>7. RowsOK  BY <1>1, <1>3, <1>4, <1>5, <1>6 DEF Init, RowsOK, Lists
  <1>8. RequestsOK  BY NewIs DEF Init, RequestsOK, RequestOK
  <1>9. CacheOK  BY <1>1 DEF Init, CacheOK, NoCache
  <1> QED  BY <1>7, <1>8, <1>9, CatalogFaults DEF Init, Typed, HistoryOK

\* Every variable has its type, and every request what it needs.
LEMMA AlwaysTyped == Spec => []Typed
  BY InitTyped, TypesStep, PTL DEF Spec

\* The rows, the caches and what the requests hold have their types in every state the
\* forms, the visitors and the orders reach: CategoryUseCase, GenreUseCase, PromptUseCase.
THEOREM TypeCorrect == Spec => []TypeOK
  <1>1. Typed => TypeOK
    BY DEF Typed, TypeOK, RowsOK, RequestsOK, CacheOK, HistoryOK, QuestionRow, Link, Lists
  <1> QED  BY <1>1, AlwaysTyped, PTL

-----------------------------------------------------------------------------
(* Nothing is left behind by what is deleted.                              *)

\* A question that is there is in a category, so that the category is one of the rows.
Placed == \A q \in Questions : There(q) => question[q].category \in Categories
Whole == Typed /\ Placed /\ NothingDangles

\* What neither writes nor deletes a row keeps the rows whole.
LEMMA WholeUnmoved ==
  ASSUME Whole, UNCHANGED <<category, quiz, genres, orders>>
  PROVE  (Placed /\ NothingDangles)'
  BY DEF Whole, Placed, NothingDangles, There, Alive, quiz, genres

\* A category that is created or saved is there.
LEMMA WholeSaved ==
  ASSUME Whole, NEW r \in Requests, NEW c \in Categories, category' = [category EXCEPT ![c] = r],
         UNCHANGED <<quiz, genres, orders>>
  PROVE  (Placed /\ NothingDangles)'
  <1>1. UNCHANGED <<question, options, genre, links, orders>>  BY DEF quiz, genres
  <1>2. \A d \in Categories : category[d] # Nothing => category'[d] # Nothing
    BY CatalogStamps DEF Whole, Typed, RowsOK, Lists
  <1>3. \A l \in links : l.category \in Categories  BY DEF Whole, Typed, RowsOK, Link
  <1>4. \A s \in Requests : orders[s] \in Categories \cup {Nothing}
    BY DEF Whole, Typed, RowsOK
  <1> QED  BY <1>1, <1>2, <1>3, <1>4 DEF Whole, Placed, NothingDangles, There, Alive

\* One that is deleted takes its questions, their options and its links with it, and the
\* orders lose it.
LEMMA WholeCascade ==
  ASSUME Whole, NEW c \in Categories, DeleteCascade(c), UNCHANGED genre
  PROVE  (Placed /\ NothingDangles)'
  <1> DEFINE gone == [NoQuestion EXCEPT !.state = "gone"]
  <1>1. gone.state = "gone"  BY GoneIs
  <1> HIDE DEF gone
  <1>2. /\ category' = [category EXCEPT ![c] = Nothing]
        /\ question' = [q \in Questions |->
             IF question[q].category = c THEN gone ELSE question[q]]
        /\ options' = [q \in Questions |-> IF question[q].category = c THEN {} ELSE options[q]]
        /\ links' = links \ Rows(c)
        /\ orders' = [s \in Requests |-> IF orders[s] = c THEN Nothing ELSE orders[s]]
    BY DEF DeleteCascade, gone
  <1>3. \A d \in Categories : d # c => category'[d] = category[d]
    BY <1>2 DEF Whole, Typed, RowsOK, Lists
  <1>4. ASSUME NEW q \in Questions, There(q)'
        PROVE  There(q) /\ question'[q] = question[q] /\ question[q].category # c
    BY <1>1, <1>2, <1>4 DEF There
  <1>5. ASSUME NEW q \in Questions, There(q), question[q].category # c
        PROVE  There(q)' /\ options'[q] = options[q]
    BY <1>2, <1>5 DEF There
  <1>6. \A l \in links' : l \in links /\ l.category \in Categories \ {c}
    BY <1>2 DEF Rows, Whole, Typed, RowsOK, Link
  <1>7. \A s \in Requests : orders'[s] # Nothing =>
          orders'[s] = orders[s] /\ orders[s] \in Categories \ {c}
    BY <1>2 DEF Whole, Typed, RowsOK
  <1>8. Placed'  BY <1>4 DEF Whole, Placed
  <1>9. \A q \in Questions : options'[q] # {} => There(q)'
    BY <1>2, <1>5 DEF Whole, NothingDangles
  <1>10. \A q \in Questions : There(q)' => category'[question'[q].category] # Nothing
    BY <1>3, <1>4 DEF Whole, Placed, NothingDangles
  <1>11. \A l \in links' : category'[l.category] # Nothing /\ Alive(l.genre)'
    BY <1>3, <1>6 DEF Whole, NothingDangles, Alive
  <1>12. \A k, l \in links' : <<k.category, k.genre>> = <<l.category, l.genre>> => k = l
    BY <1>6 DEF Whole, NothingDangles
  <1>13. \A s \in Requests : orders'[s] # Nothing => category'[orders'[s]] # Nothing
    BY <1>3, <1>7 DEF Whole, NothingDangles
  <1> QED  BY <1>8, <1>9, <1>10, <1>11, <1>12, <1>13 DEF NothingDangles

\* A question is inserted into a category that is there, and saved where it is.
LEMMA WholeQuestion ==
  ASSUME Whole, NEW r \in Requests, NEW q \in Questions, NEW f \in QuizForms,
         UNCHANGED <<category, options, genres, orders>>,
         SaveQuestion(r, q, f) \/ \E c \in Categories : InsertQuestion(r, c, q, f)
  PROVE  (Placed /\ NothingDangles)'
  <1>1. UNCHANGED <<category, genre, links, orders>>  BY DEF genres
  <1>2. /\ question \in [Questions -> QuestionRow]
        /\ options \in [Questions -> SUBSET (Stamps \X {1, 2})]
    BY DEF Whole, Typed, RowsOK
  <1>3. /\ \A x \in Questions \ {q} : question'[x] = question[x] /\ options'[x] = options[x]
        /\ options'[q] # {} => There(q)'
        /\ There(q)' => /\ question'[q].category \in Categories
                        /\ category[question'[q].category] # Nothing
    <2>1. \A x \in Questions : options'[x] # {} => There(x)
      BY DEF Whole, NothingDangles
    <2>2. CASE SaveQuestion(r, q, f)
      <3>1. /\ question[q] \in QuestionRow /\ There(q)
            /\ question' = [question EXCEPT ![q].by = r, ![q].form = f]
        BY <1>2, <2>2 DEF SaveQuestion, There
      <3>2. /\ question'[q].state = "there" /\ question'[q].category = question[q].category
            /\ \A x \in Questions \ {q} : question'[x] = question[x]
        BY <1>2, <3>1 DEF QuestionRow, There
      <3> QED  BY <2>1, <3>1, <3>2 DEF Whole, Placed, NothingDangles, There
    <2>3. CASE \E c \in Categories : InsertQuestion(r, c, q, f)
      BY <1>2, <2>3 DEF InsertQuestion, There
    <2> QED  BY <2>2, <2>3
  <1>4. \A x \in Questions \ {q} : There(x)' <=> There(x)  BY <1>3 DEF There
  <1> QED  BY <1>1, <1>3, <1>4 DEF Whole, Placed, NothingDangles, Alive

\* One that is removed goes with its options.
LEMMA WholeRemoved ==
  ASSUME Whole, NEW q \in Questions, UNCHANGED <<category, genres, orders>>, RemoveQuestion(q)
  PROVE  (Placed /\ NothingDangles)'
  <1>1. UNCHANGED <<category, genre, links, orders>>  BY DEF genres
  <1>2. /\ ~There(q)' /\ options'[q] = {}
        /\ \A x \in Questions \ {q} : question'[x] = question[x] /\ options'[x] = options[x]
    BY GoneIs DEF RemoveQuestion, There, Whole, Typed, RowsOK
  <1>3. \A x \in Questions \ {q} : There(x)' <=> There(x)  BY <1>2 DEF There
  <1> QED  BY <1>1, <1>2, <1>3 DEF Whole, Placed, NothingDangles, Alive

\* Options are deleted, and inserted for a question that is there.
LEMMA WholeOptions ==
  ASSUME Whole, NEW r \in Requests, ClearOptions(r) \/ InsertOption(r)
  PROVE  (Placed /\ NothingDangles)'
  <1>1. UNCHANGED <<category, question, genre, links, orders>>
    BY DEF ClearOptions, InsertOption, genres
  <1>2. options \in [Questions -> SUBSET (Stamps \X {1, 2})]  BY DEF Whole, Typed, RowsOK
  <1>3. \A x \in Questions : options'[x] # {} => options[x] # {} \/ There(x)
    <2>1. CASE ClearOptions(r)  BY <1>2, <2>1 DEF ClearOptions
    <2>2. CASE InsertOption(r)  BY <1>2, <2>2 DEF InsertOption, There
    <2> QED  BY <2>1, <2>2
  <1> QED  BY <1>1, <1>3 DEF Whole, Placed, NothingDangles, There, Alive

\* A genre goes with its links, and is alive while it is saved.
LEMMA WholeGenre ==
  ASSUME Whole, NEW g \in Genres, UNCHANGED <<category, quiz, orders>>,
         \/ UNCHANGED links /\ InsertGenre(g)
         \/ UNCHANGED links /\ \E s \in {"active", "inactive"} : SaveGenre(g, s)
         \/ RemoveGenre(g)
  PROVE  (Placed /\ NothingDangles)'
  <1>1. UNCHANGED <<category, question, options, orders>>  BY DEF quiz
  <1>2. /\ genre \in [Genres -> {"none", "active", "inactive", "gone"}]
        /\ \A l \in links : l.genre \in Genres
    BY DEF Whole, Typed, RowsOK, Link
  <1>3. links' \subseteq links /\ \A l \in links' : Alive(l.genre)'
    <2>1. CASE UNCHANGED links /\ InsertGenre(g)
      BY <1>2, <2>1 DEF InsertGenre, Alive, Whole, NothingDangles
    <2>2. CASE UNCHANGED links /\ \E s \in {"active", "inactive"} : SaveGenre(g, s)
      BY <1>2, <2>2 DEF SaveGenre, Alive, Whole, NothingDangles
    <2>3. CASE RemoveGenre(g)
      BY <1>2, <2>3 DEF RemoveGenre, SaveGenre, Alive, Whole, NothingDangles
    <2> QED  BY <2>1, <2>2, <2>3
  <1> QED  BY <1>1, <1>3 DEF Whole, Placed, NothingDangles, There

\* A link goes in only beside links it is not the same as, with both its ends there.
LEMMA WholeLinks ==
  ASSUME Whole, NEW r \in Requests, CommitLinks(r)
  PROVE  (Placed /\ NothingDangles)'
  <1> DEFINE c == proc[r].category
             w == proc[r].wanted
             kept == links \ proc[r].rows
             new == {[category |-> c, genre |-> g, by |-> r] : g \in w}
  <1>1. UNCHANGED <<category, question, options, genre, orders>>  BY DEF CommitLinks, quiz
  <1>2. \/ UNCHANGED links
        \/ /\ links' = kept \cup new
           /\ \A g \in w : genre[g] \in {"active", "inactive"}
           /\ w # {} => category[c] # Nothing
           /\ \A l \in kept : l.category = c => l.genre \notin w
    BY DEF CommitLinks
  <1>3. \A l \in new : l.category = c /\ l.genre \in w /\ l.by = r  OBVIOUS
  <1>4. \A k, l \in new : k.genre = l.genre => k = l  OBVIOUS
  <1>5. kept \subseteq links  OBVIOUS
  <1> HIDE DEF c, w, kept, new
  <1>6. \A l \in links' : category'[l.category] # Nothing /\ Alive(l.genre)'
    BY <1>1, <1>2, <1>3, <1>5 DEF Whole, NothingDangles, Alive
  <1>7. \A k, l \in links' : <<k.category, k.genre>> = <<l.category, l.genre>> => k = l
    <2> SUFFICES ASSUME NEW k \in links', NEW l \in links',
                        k.category = l.category, k.genre = l.genre
                 PROVE  k = l
      OBVIOUS
    <2>1. CASE k \in links /\ l \in links  BY <2>1 DEF Whole, NothingDangles
    <2>2. CASE k \notin links \/ l \notin links
      BY <1>2, <1>3, <1>4, <1>5, <2>2 DEF Whole, NothingDangles
    <2> QED  BY <2>1, <2>2
  <1> QED  BY <1>1, <1>6, <1>7 DEF Whole, Placed, NothingDangles, There

\* An order names a category that is there, or none.
LEMMA WholeOrder ==
  ASSUME Whole, NEW r \in Requests, InsertOrder(r)
  PROVE  (Placed /\ NothingDangles)'
  <1>1. UNCHANGED <<category, question, options, genre, links>>  BY DEF InsertOrder, quiz, genres
  <1>2. orders \in [Requests -> Categories \cup {Nothing}]  BY DEF Whole, Typed, RowsOK
  <1>3. \A s \in Requests : orders'[s] # Nothing => category[orders'[s]] # Nothing
    BY <1>2 DEF InsertOrder, Whole, NothingDangles
  <1> QED  BY <1>1, <1>3 DEF Whole, Placed, NothingDangles, There, Alive

\* The rows are whole at the start.
LEMMA WholeAtFirst == Init => Whole
  <1> SUFFICES ASSUME Init PROVE Placed /\ NothingDangles  BY InitTyped DEF Whole
  <1>1. /\ \A c \in Categories : category[c] = Seed /\ category[c] # Nothing
        /\ \A r \in Requests : orders[r] = Nothing
    BY CatalogStamps DEF Init
  <1>2. PICK q \in Questions, f \in QuizForms, c \in Categories :
          /\ question = [x \in Questions |-> IF x # q THEN NoQuestion ELSE
               [state |-> "there", category |-> c, by |-> Seed, form |-> f]]
          /\ options = [x \in Questions |-> IF x = q THEN {<<Seed, i>> : i \in 1 .. f.n} ELSE {}]
    BY DEF Init
  <1>3. NoQuestion.state = "free"  BY DEF NoQuestion
  <1>4. There(q) /\ question[q].category = c  BY <1>2 DEF There
  <1>5. \A x \in Questions \ {q} : ~There(x) /\ options[x] = {}  BY <1>2, <1>3 DEF There
  <1>6. PICK d \in Categories :
          links \in {{}, {[category |-> d, genre |-> g, by |-> Seed]
                          : g \in {x \in Genres : genre[x] = "active"}}}
    BY DEF Init
  <1>7. /\ \A l \in links : l.category = d /\ genre[l.genre] = "active"
        /\ \A k, l \in links : k.genre = l.genre => k = l
    BY <1>6
  <1>8. Placed  BY <1>4, <1>5 DEF Placed
  <1> QED  BY <1>1, <1>4, <1>5, <1>7, <1>8 DEF NothingDangles, Alive

\* Every step keeps them whole.
LEMMA WholeStep ==
  ASSUME Whole, [Next]_vars
  PROVE  Whole'
  <1>1. Typed'  BY TypesStep DEF Whole
  <1>2. ASSUME NEW r \in Requests, NEW p \in Pods,
               ListCached(r, p) \/ GetAll(r, p)
        PROVE  (Placed /\ NothingDangles)'
    BY <1>2, WholeUnmoved DEF ListCached, GetAll
  <1>3. ASSUME NEW r \in Requests, NEW p \in Pods, NEW c \in Categories,
               \/ CreateCategory(r, p, c) \/ UpdateCategory(r, p, c) \/ DeleteCategory(r, p, c)
               \/ \E wanted \in SUBSET Genres : SetCategoryGenres(r, p, c, wanted)
               \/ \E answers \in SUBSET Questions : CreateOrder(r, p, c, answers)
        PROVE  (Placed /\ NothingDangles)'
    <2>1. CASE CreateCategory(r, p, c)
      BY <2>1, WholeSaved DEF CreateCategory, InsertCategory
    <2>2. CASE DeleteCategory(r, p, c)  BY <2>2, WholeCascade DEF DeleteCategory
    <2>3. CASE UpdateCategory(r, p, c)  BY <2>3, WholeUnmoved DEF UpdateCategory
    <2>4. CASE \E wanted \in SUBSET Genres : SetCategoryGenres(r, p, c, wanted)
      BY <2>4, WholeUnmoved DEF SetCategoryGenres
    <2>5. CASE \E answers \in SUBSET Questions : CreateOrder(r, p, c, answers)
      BY <2>5, WholeUnmoved DEF CreateOrder
    <2> QED  BY <1>3, <2>1, <2>2, <2>3, <2>4, <2>5
  <1>4. ASSUME NEW r \in Requests, NEW p \in Pods, NEW q \in Questions,
               \/ DeleteQuestion(r, p, q)
               \/ \E f \in QuizForms : UpdateQuestion(r, p, q, f)
               \/ \E c \in Categories, f \in QuizForms : AddQuestion(r, p, c, q, f)
        PROVE  (Placed /\ NothingDangles)'
    <2>1. CASE DeleteQuestion(r, p, q)
      <3>1. RemoveQuestion(q) /\ UNCHANGED <<category, genres, orders>>
        BY <2>1 DEF DeleteQuestion
      <3> QED  BY <3>1, WholeRemoved
    <2>2. ASSUME NEW f \in QuizForms, UpdateQuestion(r, p, q, f)
          PROVE  (Placed /\ NothingDangles)'
      BY <2>2, WholeQuestion DEF UpdateQuestion
    <2>3. ASSUME NEW f \in QuizForms, NEW c \in Categories, AddQuestion(r, p, c, q, f)
          PROVE  (Placed /\ NothingDangles)'
      BY <2>3, WholeQuestion DEF AddQuestion
    <2> QED  BY <1>4, <2>1, <2>2, <2>3
  <1>5. ASSUME NEW r \in Requests, NEW p \in Pods, NEW g \in Genres,
               \/ CreateGenre(r, p, g) \/ DeleteGenre(r, p, g)
               \/ \E s \in {"active", "inactive"} : UpdateGenre(r, p, g, s)
        PROVE  (Placed /\ NothingDangles)'
    BY <1>5, WholeGenre DEF CreateGenre, DeleteGenre, UpdateGenre
  <1>6. ASSUME NEW r \in Requests, Step(r) \/ Fail(r)
        PROVE  (Placed /\ NothingDangles)'
    <2>1. CASE StoreCache(r) \/ InvalidateCache(r) \/ OptionsDone(r) \/ BuildFinalPrompt(r)
               \/ Fail(r)
      BY <2>1, WholeUnmoved DEF StoreCache, InvalidateCache, OptionsDone, BuildFinalPrompt, Fail
    <2>2. CASE SaveCategory(r)
      <3>1. proc[r].category \in Categories
        BY <2>2 DEF SaveCategory, At, Whole, Typed, RequestsOK, RequestOK
      <3> QED  BY <2>2, <3>1, WholeSaved, WholeUnmoved DEF SaveCategory
    <2>3. CASE ClearOptions(r) \/ InsertOption(r)  BY <2>3, WholeOptions
    <2>4. CASE CommitLinks(r)  BY <2>4, WholeLinks
    <2>5. CASE InsertOrder(r)  BY <2>5, WholeOrder
    <2> QED  BY <1>6, <2>1, <2>2, <2>3, <2>4, <2>5 DEF Step
  <1>7. ASSUME NEW p \in Pods, Expire(p)  PROVE (Placed /\ NothingDangles)'
    BY <1>7, WholeUnmoved DEF Expire
  <1>8. ASSUME UNCHANGED vars  PROVE (Placed /\ NothingDangles)'
    <2>1. UNCHANGED <<category, quiz, genres, orders>>  BY <1>8 DEF vars, quiz, genres
    <2> QED  BY <2>1, WholeUnmoved
  <1>9. (Placed /\ NothingDangles)'
    <2>1. ASSUME NEW r \in Requests, Arrive(r)  PROVE (Placed /\ NothingDangles)'
      <3>1. PICK p \in Pods :
              \/ ListCached(r, p) \/ GetAll(r, p)
              \/ \E c \in Categories :
                   \/ CreateCategory(r, p, c) \/ UpdateCategory(r, p, c) \/ DeleteCategory(r, p, c)
                   \/ \E wanted \in SUBSET Genres : SetCategoryGenres(r, p, c, wanted)
                   \/ \E answers \in SUBSET Questions : CreateOrder(r, p, c, answers)
              \/ \E q \in Questions :
                   \/ DeleteQuestion(r, p, q)
                   \/ \E f \in QuizForms : UpdateQuestion(r, p, q, f)
                   \/ \E c \in Categories, f \in QuizForms : AddQuestion(r, p, c, q, f)
              \/ \E g \in Genres :
                   \/ CreateGenre(r, p, g) \/ DeleteGenre(r, p, g)
                   \/ \E s \in {"active", "inactive"} : UpdateGenre(r, p, g, s)
        BY <2>1 DEF Arrive
      <3> QED  BY <3>1, <1>2, <1>3, <1>4, <1>5
    <2> QED  BY <2>1, <1>6, <1>7, <1>8 DEF Next
  <1> QED  BY <1>1, <1>9 DEF Whole

\* However the forms of the admins overlap, fail half way and delete what others edit: an
\* option has its question, a question its category, a link both its ends and no double,
\* an order a category that is there.  What the transactions and the foreign keys of
\* category_repository.go, genre_repository.go and the migrations are for.
THEOREM NothingIsLeftBehind == Spec => []NothingDangles
  <1>1. Whole => NothingDangles  BY DEF Whole
  <1> QED  BY <1>1, WholeAtFirst, WholeStep, PTL DEF Spec

-----------------------------------------------------------------------------
(* Edits that do not overlap stand.                                        *)

Things == Questions \cup Categories
Alone(r, t) == Editing(r, t) /\ proc[r].alone

\* Who is alone with what it edits has nobody beside it, and what is edited by several is
\* not clean any more.
OverlapOn(t) == \A r \in Requests : Editing(r, t) =>
  /\ proc[r].alone => \A s \in Requests \ {r} : ~Editing(s, t)
  /\ ~proc[r].alone => t \notin clean
Overlaps == \A t \in Things : OverlapOn(t)

\* An edit that is alone finds the question as it has left it, the options as far as they
\* are inserted; a question that is clean and not in hand has them all.
Choices(r, i, j) == {<<r, k>> : k \in i .. j}
AloneOn(q) == \A r \in Requests : Alone(r, q) =>
  /\ question[q].by = r
  /\ At(r, "clear") => proc[r].n = question[q].form.n
  /\ At(r, "options") =>
       /\ proc[r].n <= question[q].form.n
       /\ options[q] = Choices(r, proc[r].n + 1, question[q].form.n)
QuestionOn(q) ==
  /\ InHand(q) => question[q].state # "free"
  /\ There(q) => /\ NewQuestion(question[q].form)
                 /\ AloneOn(q)
                 /\ q \in clean /\ ~InHand(q) =>
                      options[q] = Choices(question[q].by, 1, question[q].form.n)

\* The links of a clean category come from one list; who is alone with it has seen them.
GenresOn(c) ==
  /\ c \in clean => \A k, l \in Rows(c) : k.by = l.by
  /\ \A r \in Requests : Alone(r, c) => Rows(c) \subseteq proc[r].rows

Stands ==
  /\ Overlaps
  /\ \A q \in Questions : QuestionOn(q)
  /\ \A c \in Categories : GenresOn(c)

\* A request edits one thing: a question, or the genres of a category.
LEMMA OneEdit ==
  ASSUME RequestsOK, NEW r \in Requests
  PROVE  /\ \A q \in Questions : Editing(r, q) <=>
              proc[r].pc \in {"clear", "options"} /\ proc[r].question = q
         /\ \A c \in Categories : Editing(r, c) <=> proc[r].pc = "links" /\ proc[r].category = c
         /\ \A s, t \in Things : Editing(r, s) /\ Editing(r, t) => s = t
  BY CatalogThings DEF RequestsOK, RequestOK, Editing, Things

\* What a step of request r leaves of the edits of the others.
Beside(r) == \A s \in Requests \ {r} : \A t \in Things :
  /\ Editing(s, t)' <=> Editing(s, t)
  /\ Alone(s, t)' => Alone(s, t) /\ proc'[s] = proc[s]

\* A step that moves one request leaves the edits of the others.
LEMMA OnlyBeside ==
  ASSUME NEW r \in Requests, Only(r)
  PROVE  Beside(r)
  BY DEF Only, Beside, Editing, Alone

\* One that begins an edit takes from some their being alone, and nothing else.
LEMMA BeginBeside ==
  ASSUME RequestsOK, NEW r \in Requests, At(r, "new"), NEW g \in Request, NEW t \in Things,
         Begin(r, g, t)
  PROVE  Beside(r)
  <1>1. \A s \in Requests \ {r} :
          /\ Alike(proc'[s], proc[s])
          /\ ~Editing(s, t) => proc'[s] = proc[s]
          /\ Editing(s, t) => ~proc'[s].alone
    BY BeginMoves
  <1> SUFFICES ASSUME NEW s \in Requests \ {r}, NEW x \in Things
               PROVE  /\ Editing(s, x)' <=> Editing(s, x)
                      /\ Alone(s, x)' => Alone(s, x) /\ proc'[s] = proc[s]
    BY DEF Beside
  <1>2. Editing(s, x)' <=> Editing(s, x)  BY <1>1 DEF Editing, Alike
  <1> QED  BY <1>1, <1>2 DEF Alone

\* A step of a request that begins no edit keeps them apart.
LEMMA OverlapsKept ==
  ASSUME Overlaps, NEW r \in Requests, Only(r),
         \A t \in Things : Editing(r, t)' => Editing(r, t) /\ proc'[r].alone = proc[r].alone,
         \A t \in Things : t \in clean' => t \in clean \/ (Alone(r, t) /\ ~Editing(r, t)')
  PROVE  Overlaps'
  <1> SUFFICES ASSUME NEW t \in Things  PROVE OverlapOn(t)'
    BY DEF Overlaps, Things
  <1>1. OverlapOn(t)  BY DEF Overlaps
  <1>2. \A s \in Requests : Editing(s, t)' => Editing(s, t) /\ proc'[s].alone = proc[s].alone
    BY DEF Only, Editing
  <1> QED  BY <1>1, <1>2 DEF OverlapOn, Alone

\* One that begins an edit joins the others, or is alone.
LEMMA OverlapsBegun ==
  ASSUME RequestsOK, Overlaps, NEW r \in Requests, At(r, "new"), NEW g \in Request,
         NEW t \in Things, Begin(r, g, t), \A x \in Things : Editing(r, x)' => x = t
  PROVE  Overlaps'
  <1>1. /\ proc'[r].alone <=> \A s \in Requests : ~Editing(s, t)
        /\ \A s \in Requests \ {r} :
             /\ ~Editing(s, t) => proc'[s] = proc[s]
             /\ Editing(s, t) => ~proc'[s].alone
        /\ clean' = IF \A s \in Requests : ~Editing(s, t) THEN clean ELSE clean \ {t}
    BY BeginMoves
  <1>2. Beside(r)  BY BeginBeside
  <1>3. \A x \in Things : ~Editing(r, x)  BY DEF At, Editing
  <1> SUFFICES ASSUME NEW x \in Things  PROVE OverlapOn(x)'
    BY DEF Overlaps, Things
  <1>4. OverlapOn(x)  BY DEF Overlaps
  <1>5. CASE x = t
    <2>1. \A s \in Requests \ {r} : Editing(s, t)' <=> Editing(s, t)  BY <1>2 DEF Beside
    <2>2. CASE \A s \in Requests : ~Editing(s, t)
      BY <1>1, <1>5, <2>1, <2>2 DEF OverlapOn
    <2>3. CASE ~\A s \in Requests : ~Editing(s, t)
      BY <1>1, <1>5, <2>1, <2>3 DEF OverlapOn
    <2> QED  BY <2>2, <2>3
  <1>6. CASE x # t
    <2>1. \A s \in Requests \ {r} : Editing(s, x) => ~Editing(s, t)  BY <1>6, OneEdit
    <2>2. \A s \in Requests : Editing(s, x)' =>
            s # r /\ Editing(s, x) /\ proc'[s] = proc[s]
      BY <1>1, <1>2, <1>6, <2>1 DEF Beside
    <2>3. x \in clean' => x \in clean  BY <1>1
    <2> QED  BY <1>4, <2>2, <2>3 DEF OverlapOn
  <1> QED  BY <1>5, <1>6

\* A question or a category that a step has nothing to do with is as before.
LEMMA QuestionStays ==
  ASSUME NEW r \in Requests, Beside(r), NEW q \in Questions, QuestionOn(q),
         ~Editing(r, q), ~Editing(r, q)', q \in clean' => q \in clean,
         question'[q] = question[q], options'[q] = options[q]
  PROVE  QuestionOn(q)'
  <1>1. q \in Things  BY DEF Things
  <1>2. InHand(q)' <=> InHand(q)  BY <1>1 DEF InHand, Beside
  <1>3. There(q)' <=> There(q)  BY DEF There
  <1>4. There(q) => AloneOn(q)'
    <2> SUFFICES ASSUME There(q), NEW s \in Requests, Alone(s, q)'
                 PROVE  /\ question'[q].by = s
                        /\ At(s, "clear")' => proc'[s].n = question'[q].form.n
                        /\ At(s, "options")' =>
                             /\ proc'[s].n <= question'[q].form.n
                             /\ options'[q] = Choices(s, proc'[s].n + 1, question'[q].form.n)
      BY DEF AloneOn, Choices
    <2>1. s # r  BY DEF Alone
    <2>2. Alone(s, q) /\ proc'[s] = proc[s]  BY <1>1, <2>1 DEF Beside
    <2> QED  BY <2>2 DEF QuestionOn, AloneOn, At
  <1> QED  BY <1>2, <1>3, <1>4 DEF QuestionOn, Choices

\* So is a category whose links do not grow.
LEMMA GenresStay ==
  ASSUME NEW r \in Requests, Beside(r), NEW c \in Categories, GenresOn(c),
         Alone(r, c)' => Alone(r, c) /\ proc'[r].rows = proc[r].rows,
         c \in clean' => c \in clean, Rows(c)' \subseteq Rows(c)
  PROVE  GenresOn(c)'
  <1>1. c \in Things  BY DEF Things
  <1>2. \A s \in Requests : Alone(s, c)' => Alone(s, c) /\ proc'[s].rows = proc[s].rows
    BY <1>1 DEF Beside
  <1> QED  BY <1>2 DEF GenresOn

\* A step that ends a request, deletes or looks on leaves what is clean and there as it is.
LEMMA StandsLeft ==
  ASSUME Stands, NEW r \in Requests, Only(r), proc'[r].pc \notin Editors,
         clean' \subseteq clean, links' \subseteq links,
         \A q \in Questions : /\ question[q].state # "free" => question'[q].state # "free"
                              /\ There(q)' => /\ question'[q] = question[q]
                                              /\ options'[q] = options[q]
                                              /\ Editing(r, q) => q \notin clean'
  PROVE  Stands'
  <1>1. \A t \in Things : ~Editing(r, t)'  BY DEF Editing, Editors
  <1>2. Beside(r)  BY OnlyBeside
  <1>3. Overlaps'  BY <1>1, OverlapsKept DEF Stands
  <1>4. ASSUME NEW q \in Questions  PROVE QuestionOn(q)'
    <2>1. QuestionOn(q) /\ q \in Things  BY DEF Stands, Things
    <2>2. InHand(q)' => InHand(q)  BY <1>1, <1>2, <2>1 DEF InHand, Beside
    <2>3. InHand(q)' => question'[q].state # "free"  BY <2>1, <2>2 DEF QuestionOn
    <2>4. CASE ~There(q)'  BY <2>3, <2>4 DEF QuestionOn
    <2>5. CASE There(q)' /\ ~Editing(r, q)
      BY <1>1, <1>2, <2>1, <2>5, QuestionStays
    <2>6. CASE There(q)' /\ Editing(r, q)
      <3>1. question'[q] = question[q] /\ options'[q] = options[q] /\ q \notin clean'
        BY <2>6
      <3>2. There(q)  BY <2>6, <3>1 DEF There
      <3>3. AloneOn(q)'
        <4> SUFFICES ASSUME NEW s \in Requests, Alone(s, q)'
                     PROVE  /\ question'[q].by = s
                            /\ At(s, "clear")' => proc'[s].n = question'[q].form.n
                            /\ At(s, "options")' =>
                                 /\ proc'[s].n <= question'[q].form.n
                                 /\ options'[q] = Choices(s, proc'[s].n + 1, question'[q].form.n)
          BY DEF AloneOn, Choices
        <4>1. s # r  BY <1>1, <2>1 DEF Alone
        <4>2. Alone(s, q) /\ proc'[s] = proc[s]  BY <1>2, <2>1, <4>1 DEF Beside
        <4> QED  BY <2>1, <3>1, <3>2, <4>2 DEF QuestionOn, AloneOn, At
      <3> QED  BY <2>1, <2>3, <3>1, <3>2, <3>3 DEF QuestionOn
    <2> QED  BY <2>4, <2>5, <2>6
  <1>5. ASSUME NEW c \in Categories  PROVE GenresOn(c)'
    <2>1. GenresOn(c) /\ ~Alone(r, c)'  BY <1>1 DEF Stands, Alone, Things
    <2>2. Rows(c)' \subseteq Rows(c)  BY DEF Rows
    <2> QED  BY <1>2, <2>1, <2>2, GenresStay
  <1> QED  BY <1>3, <1>4, <1>5 DEF Stands

\* So does what touches neither a question nor a link nor a request.
LEMMA StandsUnmoved ==
  ASSUME Stands, UNCHANGED <<question, options, links, proc, clean>>
  PROVE  Stands'
  BY DEF Stands, Overlaps, OverlapOn, QuestionOn, AloneOn, GenresOn, Alone, Editing, InHand,
         There, Rows, At, Choices

\* An edit of a question begins with the form it has saved.
LEMMA StandsBegun ==
  ASSUME RequestsOK, Stands, NEW r \in Requests, At(r, "new"), NEW g \in Request,
         NEW q \in Questions, NEW f \in QuizForms, NewQuestion(f),
         Begin(r, g, q), g.question = q, g.category = Nothing, g.n = f.n,
         question'[q].state = "there", question'[q].by = r, question'[q].form = f,
         g.pc = "clear" \/ (g.pc = "options" /\ options[q] = {}),
         \A x \in Questions \ {q} : question'[x] = question[x],
         UNCHANGED <<options, links>>
  PROVE  Stands'
  <1>1. q \in Things /\ f.n \in 0 .. 2  BY CatalogForms DEF Things, QuizForm
  <1>2. /\ Alike(proc'[r], g)
        /\ \A s \in Requests \ {r} : Editing(s, q) => ~proc'[s].alone
        /\ clean' \subseteq clean
    BY BeginMoves
  <1>3. Beside(r)  BY <1>1, BeginBeside
  <1>4. \A x \in Things : ~Editing(r, x) /\ (Editing(r, x)' <=> x = q)
    BY <1>2, CatalogThings DEF At, Editing, Alike, Things
  <1>5. Overlaps'  BY <1>1, <1>4, OverlapsBegun DEF Stands
  <1>6. ASSUME NEW x \in Questions \ {q}  PROVE QuestionOn(x)'
    BY <1>2, <1>3, <1>4, QuestionStays DEF Stands, Things
  <1>7. QuestionOn(q)'
    <2>1. InHand(q)' /\ There(q)'  BY <1>1, <1>4 DEF InHand, There
    <2>2. AloneOn(q)'
      <3> SUFFICES ASSUME NEW s \in Requests, Alone(s, q)'
                   PROVE  /\ question'[q].by = s
                          /\ At(s, "clear")' => proc'[s].n = question'[q].form.n
                          /\ At(s, "options")' =>
                               /\ proc'[s].n <= question'[q].form.n
                               /\ options'[q] = Choices(s, proc'[s].n + 1, question'[q].form.n)
        BY DEF AloneOn, Choices
      <3>1. s = r
        <4>1. s # r => Editing(s, q)  BY <1>1, <1>3 DEF Alone, Beside
        <4> QED  BY <1>2, <4>1 DEF Alone
      <3>2. proc'[r].n = f.n /\ proc'[r].pc = g.pc  BY <1>2 DEF Alike
      <3>3. Choices(r, f.n + 1, f.n) = {}  BY <1>1 DEF Choices
      <3> QED  BY <1>1, <3>1, <3>2, <3>3 DEF At
    <2> QED  BY <2>1, <2>2 DEF QuestionOn, NewQuestion
  <1>8. ASSUME NEW c \in Categories  PROVE GenresOn(c)'
    <2>1. c \in Things /\ c # q  BY CatalogThings DEF Things
    <2>2. ~Alone(r, c)' /\ Rows(c)' = Rows(c)  BY <1>4, <2>1 DEF Alone, Rows
    <2> QED  BY <1>2, <1>3, <2>2, GenresStay DEF Stands
  <1> QED  BY <1>5, <1>6, <1>7, <1>8 DEF Stands

\* One of the genres of a category begins with the links of now.
LEMMA StandsTaken ==
  ASSUME RequestsOK, Stands, NEW r \in Requests, At(r, "new"), NEW g \in Request,
         NEW c \in Categories, Begin(r, g, c), g.pc = "links", g.category = c,
         g.question = Nothing, g.rows = Rows(c), UNCHANGED <<question, options, links>>
  PROVE  Stands'
  <1>1. c \in Things  BY DEF Things
  <1>2. /\ Alike(proc'[r], g)
        /\ \A s \in Requests \ {r} : Editing(s, c) => ~proc'[s].alone
        /\ clean' \subseteq clean
    BY BeginMoves
  <1>3. Beside(r)  BY <1>1, BeginBeside
  <1>4. \A x \in Things : ~Editing(r, x) /\ (Editing(r, x)' <=> x = c)
    BY <1>2, CatalogThings DEF At, Editing, Alike, Things
  <1>5. Overlaps'  BY <1>1, <1>4, OverlapsBegun DEF Stands
  <1>6. ASSUME NEW q \in Questions  PROVE QuestionOn(q)'
    <2>1. q \in Things /\ q # c  BY CatalogThings DEF Things
    <2> QED  BY <1>2, <1>3, <1>4, <2>1, QuestionStays DEF Stands
  <1>7. ASSUME NEW d \in Categories \ {c}  PROVE GenresOn(d)'
    <2>1. ~Alone(r, d)' /\ Rows(d)' = Rows(d)  BY <1>4 DEF Alone, Rows, Things
    <2> QED  BY <1>2, <1>3, <2>1, GenresStay DEF Stands
  <1>8. GenresOn(c)'
    <2>1. GenresOn(c) /\ Rows(c)' = Rows(c) /\ proc'[r].rows = Rows(c)
      BY <1>2 DEF Stands, Rows, Alike
    <2>2. \A s \in Requests : Alone(s, c)' => s = r
      BY <1>1, <1>2, <1>3 DEF Alone, Beside
    <2> QED  BY <1>2, <2>1, <2>2 DEF GenresOn
  <1> QED  BY <1>5, <1>6, <1>7, <1>8 DEF Stands

\* Who is alone with a question clears its options, and inserts them one by one.
LEMMA StandsFilled ==
  ASSUME Typed, Stands, NEW r \in Requests, NEW q \in Questions, proc[r].question = q,
         Only(r), proc'[r].question = q, proc'[r].category = proc[r].category,
         proc'[r].alone = proc[r].alone, proc'[r].pc = "options",
         UNCHANGED <<question, links, clean>>,
         \A x \in Questions \ {q} : options'[x] = options[x],
         \/ /\ proc[r].pc = "clear" /\ options'[q] = {} /\ proc'[r].n = proc[r].n
         \/ /\ proc[r].pc = "options" /\ proc[r].n > 0
            /\ options'[q] = options[q] \cup {<<r, proc[r].n>>} /\ proc'[r].n = proc[r].n - 1
  PROVE  Stands'
  <1>1. Beside(r)  BY OnlyBeside
  <1>2. \A t \in Things : (Editing(r, t)' <=> Editing(r, t)) /\ (Alone(r, t)' <=> Alone(r, t))
    BY DEF Editing, Alone
  <1>3. Overlaps'  BY <1>2, OverlapsKept DEF Stands
  <1>4. Editing(r, q) /\ q \in Things  BY DEF Editing, Things
  <1>5. \A t \in Things \ {q} : ~Editing(r, t)  BY <1>4, OneEdit DEF Typed
  <1>6. ASSUME NEW x \in Questions \ {q}  PROVE QuestionOn(x)'
    BY <1>1, <1>2, <1>5, QuestionStays DEF Stands, Things
  <1>7. QuestionOn(q)'
    <2>1. QuestionOn(q)  BY DEF Stands
    <2>2. InHand(q) /\ InHand(q)'  BY <1>2, <1>4 DEF InHand
    <2>3. There(q) => AloneOn(q)'
      <3> SUFFICES ASSUME There(q), NEW s \in Requests, Alone(s, q)'
                   PROVE  /\ question'[q].by = s
                          /\ At(s, "clear")' => proc'[s].n = question'[q].form.n
                          /\ At(s, "options")' =>
                               /\ proc'[s].n <= question'[q].form.n
                               /\ options'[q] = Choices(s, proc'[s].n + 1, question'[q].form.n)
        BY DEF AloneOn, Choices
      <3>1. Alone(s, q)  BY <1>1, <1>2, <1>4 DEF Beside
      <3>2. s = r
        <4>1. OverlapOn(q)  BY <1>4 DEF Stands, Overlaps
        <4> QED  BY <1>4, <3>1, <4>1 DEF OverlapOn, Alone
      <3>3. proc[r].n \in 0 .. 2 /\ question[q].form.n \in 0 .. 2
        BY DEF Typed, RequestsOK, Request, RowsOK, QuestionRow, QuizForm
      <3>4. AloneOn(q) /\ question[q].by = r  BY <2>1, <3>1, <3>2 DEF QuestionOn, AloneOn
      <3>5. CASE proc[r].pc = "clear"
        <4>1. proc[r].n = question[q].form.n  BY <3>1, <3>2, <3>4, <3>5 DEF AloneOn, At
        <4>2. Choices(r, question[q].form.n + 1, question[q].form.n) = {}
          BY <3>3 DEF Choices
        <4> QED  BY <3>2, <3>3, <3>4, <3>5, <4>1, <4>2 DEF At
      <3>6. CASE proc[r].pc = "options"
        <4>1. /\ proc[r].n <= question[q].form.n
              /\ options[q] = Choices(r, proc[r].n + 1, question[q].form.n)
          BY <3>1, <3>2, <3>4, <3>6 DEF AloneOn, At
        <4>2. \A m \in 0 .. 2, k \in 0 .. 2 : k > 0 /\ k <= m =>
                Choices(r, k + 1, m) \cup {<<r, k>>} = Choices(r, k - 1 + 1, m)
          <5> SUFFICES ASSUME NEW m \in 0 .. 2, NEW k \in 0 .. 2, k > 0, k <= m
                       PROVE  Choices(r, k + 1, m) \cup {<<r, k>>} = Choices(r, k - 1 + 1, m)
            OBVIOUS
          <5> DEFINE A == k + 1 .. m
                     B == k - 1 + 1 .. m
          <5>1. B = A \cup {k}  OBVIOUS
          <5>2. /\ Choices(r, k + 1, m) = {<<r, i>> : i \in A}
                /\ Choices(r, k - 1 + 1, m) = {<<r, i>> : i \in B}
            BY DEF Choices
          <5> HIDE DEF A, B
          <5>3. {<<r, i>> : i \in A} \cup {<<r, k>>} = {<<r, i>> : i \in B}  BY <5>1
          <5> QED  BY <5>2, <5>3
        <4>3. /\ proc[r].n > 0 /\ proc'[r].n = proc[r].n - 1
              /\ options'[q] = options[q] \cup {<<r, proc[r].n>>}
          BY <3>6
        <4>4. options'[q] = Choices(r, proc[r].n - 1 + 1, question[q].form.n)
          BY <3>3, <4>1, <4>2, <4>3
        <4>5. proc'[r].n <= question[q].form.n  BY <3>3, <4>1, <4>3
        <4> QED  BY <3>2, <3>4, <4>3, <4>4, <4>5 DEF At
      <3> QED  BY <3>5, <3>6
    <2> QED  BY <2>1, <2>2, <2>3 DEF QuestionOn, There
  <1>8. ASSUME NEW c \in Categories  PROVE GenresOn(c)'
    <2>1. c \in Things /\ c # q  BY CatalogThings DEF Things
    <2>2. ~Alone(r, c)' /\ Rows(c)' = Rows(c)  BY <1>2, <1>5, <2>1 DEF Alone, Rows
    <2> QED  BY <1>1, <2>2, GenresStay DEF Stands
  <1> QED  BY <1>3, <1>6, <1>7, <1>8 DEF Stands

\* The edit of a question that has been alone to its end has inserted every option.
LEMMA StandsFinished ==
  ASSUME Typed, Stands, NEW r \in Requests, OptionsDone(r)
  PROVE  Stands'
  <1> DEFINE q == proc[r].question
  <1>1. PICK x \in Questions : x = q  BY DEF OptionsDone, At, Typed, RequestsOK, RequestOK
  <1>2. /\ proc[r].pc = "options" /\ proc[r].n = 0 /\ proc[r].question = x
        /\ Become(r, Arrives(proc[r].pod, "invalidate"))
        /\ UNCHANGED <<question, options, links>>
        /\ clean' = IF proc[r].alone THEN clean \cup {x} ELSE clean
    BY <1>1 DEF OptionsDone, At, End, quiz, genres
  <1> HIDE DEF q
  <1>3. proc[r].pod \in Pods  BY <1>2 DEF Typed, RequestsOK, RequestOK
  <1>4. Only(r) /\ proc'[r].pc = "invalidate"  BY <1>2, <1>3, ArriveOK DEF Typed
  <1>5. Beside(r) /\ \A t \in Things : ~Editing(r, t)'
    BY <1>4, OnlyBeside DEF Editing
  <1>6. Editing(r, x) /\ x \in Things  BY <1>2 DEF Editing, Things
  <1>7. \A t \in Things \ {x} : ~Editing(r, t)  BY <1>6, OneEdit DEF Typed
  <1>8. Overlaps'
    BY <1>2, <1>4, <1>5, <1>6, OverlapsKept DEF Stands, Alone
  <1>9. ASSUME NEW y \in Questions \ {x}  PROVE QuestionOn(y)'
    BY <1>2, <1>5, <1>7, QuestionStays DEF Stands, Things
  <1>10. QuestionOn(x)'
    <2>1. QuestionOn(x) /\ OverlapOn(x)  BY <1>6 DEF Stands, Overlaps
    <2>2. \A s \in Requests : Alone(s, x)' => Alone(s, x) /\ proc'[s] = proc[s]
      BY <1>5, <1>6 DEF Beside, Alone
    <2>3. There(x) => AloneOn(x)'
      <3> SUFFICES ASSUME There(x), NEW s \in Requests, Alone(s, x)'
                   PROVE  /\ question'[x].by = s
                          /\ At(s, "clear")' => proc'[s].n = question'[x].form.n
                          /\ At(s, "options")' =>
                               /\ proc'[s].n <= question'[x].form.n
                               /\ options'[x] = Choices(s, proc'[s].n + 1, question'[x].form.n)
        BY DEF AloneOn, Choices
      <3> QED  BY <1>2, <2>1, <2>2 DEF QuestionOn, AloneOn, At
    <2>4. InHand(x)  BY <1>6 DEF InHand
    <2>5. There(x) /\ x \in clean' => options[x] = Choices(question[x].by, 1, question[x].form.n)
      <3> SUFFICES ASSUME There(x), x \in clean'
                   PROVE  options[x] = Choices(question[x].by, 1, question[x].form.n)
        OBVIOUS
      <3>1. Alone(r, x)  BY <1>2, <1>6, <2>1 DEF OverlapOn, Alone
      <3>2. AloneOn(x)  BY <2>1 DEF QuestionOn
      <3> QED  BY <1>2, <3>1, <3>2 DEF AloneOn, At
    <2> QED  BY <1>2, <2>1, <2>3, <2>4, <2>5 DEF QuestionOn, There, Choices
  <1>11. ASSUME NEW c \in Categories  PROVE GenresOn(c)'
    <2>1. c \in Things /\ c # x  BY CatalogThings DEF Things
    <2>2. ~Alone(r, c)' /\ Rows(c)' = Rows(c)  BY <1>2, <1>5, <2>1 DEF Alone, Rows
    <2> QED  BY <1>2, <1>5, <2>1, <2>2, GenresStay DEF Stands
  <1> QED  BY <1>8, <1>9, <1>10, <1>11 DEF Stands

\* One of the genres of a category that has been alone leaves the links of its own list.
LEMMA StandsCommitted ==
  ASSUME Typed, Stands, NEW r \in Requests, CommitLinks(r), links' # links \/ clean' # clean
  PROVE  Stands'
  <1> DEFINE new == {[category |-> proc[r].category, genre |-> g, by |-> r] : g \in proc[r].wanted}
  <1>1. PICK c \in Categories : c = proc[r].category
    BY DEF CommitLinks, At, Typed, RequestsOK, RequestOK
  <1>2. /\ proc[r].pc = "links" /\ proc[r].category = c /\ Return(r)
        /\ UNCHANGED <<question, options>>
        /\ links' = (links \ proc[r].rows) \cup new
        /\ clean' = IF proc[r].alone THEN clean \cup {c} ELSE clean
    BY <1>1 DEF CommitLinks, At, End, quiz
  <1>3. /\ \A l \in new : l.category = c /\ l.by = r
        /\ \A l \in proc[r].rows : l.category = c
    BY <1>2 DEF Typed, RequestsOK, RequestOK
  <1> HIDE DEF new
  <1>4. Only(r) /\ proc'[r].pc = "done"  BY <1>2, ReturnMoves DEF Typed
  <1>5. Beside(r) /\ \A t \in Things : ~Editing(r, t)'
    BY <1>4, OnlyBeside DEF Editing
  <1>6. Editing(r, c) /\ c \in Things  BY <1>2 DEF Editing, Things
  <1>7. \A t \in Things \ {c} : ~Editing(r, t)  BY <1>6, OneEdit DEF Typed
  <1>8. Overlaps'
    BY <1>2, <1>4, <1>5, <1>6, OverlapsKept DEF Stands, Alone
  <1>9. ASSUME NEW q \in Questions  PROVE QuestionOn(q)'
    <2>1. q \in Things /\ q # c  BY CatalogThings DEF Things
    <2> QED  BY <1>2, <1>5, <1>7, <2>1, QuestionStays DEF Stands
  <1>10. ASSUME NEW d \in Categories \ {c}  PROVE GenresOn(d)'
    <2>1. Rows(d)' = Rows(d)  BY <1>2, <1>3 DEF Rows
    <2>2. ~Alone(r, d)' /\ (d \in clean' => d \in clean)  BY <1>2, <1>5 DEF Alone, Things
    <2> QED  BY <1>5, <2>1, <2>2, GenresStay DEF Stands
  <1>11. GenresOn(c)'
    <2>1. OverlapOn(c) /\ GenresOn(c)  BY <1>6 DEF Stands, Overlaps
    <2>2. \A s \in Requests : Alone(s, c)' => s # r /\ Alone(s, c)
      BY <1>5, <1>6 DEF Beside, Alone
    <2>3. \A s \in Requests : ~Alone(s, c)'
      BY <1>6, <2>1, <2>2 DEF OverlapOn, Alone
    <2>4. c \in clean' => Alone(r, c)  BY <1>2, <1>6, <2>1 DEF OverlapOn, Alone
    <2>5. Alone(r, c) => Rows(c)' \subseteq new
      BY <1>2, <2>1 DEF GenresOn, Rows
    <2> QED  BY <1>3, <2>3, <2>4, <2>5 DEF GenresOn
  <1> QED  BY <1>8, <1>9, <1>10, <1>11 DEF Stands

\* At the start every question and every link is as the migrations left it.
LEMMA StandsAtFirst == Init => Stands
  <1> SUFFICES ASSUME Init PROVE Stands  OBVIOUS
  <1>1. \A r \in Requests : proc[r] = New /\ proc[r].pc = "new"  BY NewIs DEF Init
  <1>2. \A r \in Requests : \A t \in Things : ~Editing(r, t)  BY <1>1 DEF Editing
  <1>3. \A t \in Things : ~InHand(t)  BY <1>2 DEF InHand
  <1>4. Overlaps  BY <1>2 DEF Overlaps, OverlapOn
  <1>5. PICK q \in Questions, f \in QuizForms, c \in Categories :
          /\ f.kind = "inline" /\ f.n > 0
          /\ question = [x \in Questions |-> IF x # q THEN NoQuestion ELSE
               [state |-> "there", category |-> c, by |-> Seed, form |-> f]]
          /\ options = [x \in Questions |-> IF x = q THEN {<<Seed, i>> : i \in 1 .. f.n} ELSE {}]
    BY DEF Init
  <1>6. QuestionOn(q)
    <2>1. AloneOn(q)  BY <1>2 DEF AloneOn, Alone, Things
    <2> QED  BY <1>3, <1>5, <2>1 DEF QuestionOn, NewQuestion, Choices, Things
  <1>7. ASSUME NEW x \in Questions \ {q}  PROVE QuestionOn(x)
    BY <1>3, <1>5 DEF QuestionOn, There, NoQuestion, Things
  <1>8. ASSUME NEW d \in Categories  PROVE GenresOn(d)
    <2>1. \A l \in links : l.by = Seed  BY DEF Init
    <2> QED  BY <1>2, <2>1 DEF GenresOn, Rows, Alone, Things
  <1> QED  BY <1>4, <1>6, <1>7, <1>8 DEF Stands

\* What goes when a category or a question is deleted has been there, and does not come back.
LEMMA GoneForGood ==
  ASSUME Typed, \/ \E c \in Categories : DeleteCascade(c)
                \/ \E q \in Questions : RemoveQuestion(q)
  PROVE  \A q \in Questions :
           /\ question[q].state # "free" => question'[q].state # "free"
           /\ There(q)' => question'[q] = question[q] /\ options'[q] = options[q]
  <1> DEFINE gone == [NoQuestion EXCEPT !.state = "gone"]
  <1>1. gone.state = "gone"  BY GoneIs
  <1> HIDE DEF gone
  <1>2. CASE \E c \in Categories : DeleteCascade(c)
    <2>1. PICK c \in Categories :
            /\ question' = [q \in Questions |->
                 IF question[q].category = c THEN gone ELSE question[q]]
            /\ options' = [q \in Questions |-> IF question[q].category = c THEN {} ELSE options[q]]
      BY <1>2 DEF DeleteCascade, gone
    <2> QED  BY <1>1, <2>1 DEF There
  <1>3. CASE \E q \in Questions : RemoveQuestion(q)
    <2>1. PICK q \in Questions :
            question' = [question EXCEPT ![q] = gone] /\ options' = [options EXCEPT ![q] = {}]
      BY <1>3 DEF RemoveQuestion, gone
    <2> QED  BY <1>1, <2>1 DEF There, Typed, RowsOK
  <1> QED  BY <1>2, <1>3

\* What is not in hand of the request that moves, is left by it.
LEMMA StandsRest ==
  ASSUME Stands, NEW r \in Requests, Only(r), proc[r].pc \notin Editors,
         proc'[r].pc \notin Editors, clean' \subseteq clean, links' \subseteq links,
         \A q \in Questions :
           /\ question[q].state # "free" => question'[q].state # "free"
           /\ There(q)' => question'[q] = question[q] /\ options'[q] = options[q]
  PROVE  Stands'
  <1>1. \A q \in Questions : ~Editing(r, q)  BY DEF Editing, Editors
  <1> QED  BY <1>1, StandsLeft

\* A step that moves a request which has no edit in hand, and begins none.
LEMMA StandsIdle ==
  ASSUME Typed, Stands, NEW r \in Requests,
         \/ \E p \in Pods :
              \/ ListCached(r, p) \/ GetAll(r, p)
              \/ \E c \in Categories :
                   \/ CreateCategory(r, p, c) \/ UpdateCategory(r, p, c) \/ DeleteCategory(r, p, c)
                   \/ \E a \in SUBSET Questions : CreateOrder(r, p, c, a)
              \/ \E q \in Questions : DeleteQuestion(r, p, q)
              \/ \E g \in Genres :
                   \/ CreateGenre(r, p, g) \/ DeleteGenre(r, p, g)
                   \/ \E s \in {"active", "inactive"} : UpdateGenre(r, p, g, s)
         \/ StoreCache(r) \/ InvalidateCache(r) \/ SaveCategory(r) \/ BuildFinalPrompt(r)
         \/ InsertOrder(r)
  PROVE  Stands'
  <1> USE DEF Typed
  <1>1. ASSUME NEW p \in Pods, ListCached(r, p) \/ GetAll(r, p)  PROVE Stands'
    <2>1. Only(r) /\ proc'[r].pc \notin Editors  BY <1>1, ListTyped
    <2>2. proc[r].pc = "new" /\ UNCHANGED <<question, options, links, clean>>
      BY <1>1 DEF ListCached, GetAll, At, quiz, genres
    <2> QED  BY <2>1, <2>2, StandsRest DEF Editors, There
  <1>2. ASSUME StoreCache(r) \/ InvalidateCache(r)  PROVE Stands'
    <2>1. Only(r) /\ proc'[r].pc \notin Editors  BY <1>2, ListTyped
    <2>2. /\ proc[r].pc \in {"store", "invalidate"}
          /\ UNCHANGED <<question, options, links, clean>>
      BY <1>2 DEF StoreCache, InvalidateCache, At, quiz, genres
    <2> QED  BY <2>1, <2>2, StandsRest DEF Editors, There
  <1>3. ASSUME NEW p \in Pods, NEW c \in Categories,
               CreateCategory(r, p, c) \/ UpdateCategory(r, p, c) \/ DeleteCategory(r, p, c)
        PROVE  Stands'
    <2>1. Only(r) /\ proc'[r].pc \notin Editors  BY <1>3, CategoryTyped
    <2>2. proc[r].pc = "new" /\ UNCHANGED clean
      BY <1>3 DEF CreateCategory, UpdateCategory, DeleteCategory, At
    <2>3. CASE DeleteCategory(r, p, c)
      <3>1. DeleteCascade(c) /\ links' \subseteq links
        BY <2>3 DEF DeleteCategory, DeleteCascade
      <3> QED  BY <2>1, <2>2, <3>1, GoneForGood, StandsRest DEF Editors
    <2>4. CASE CreateCategory(r, p, c) \/ UpdateCategory(r, p, c)
      <3>1. UNCHANGED <<question, options, links>>
        BY <2>4 DEF CreateCategory, UpdateCategory, quiz, genres
      <3> QED  BY <2>1, <2>2, <3>1, StandsRest DEF Editors, There
    <2> QED  BY <1>3, <2>3, <2>4
  <1>4. ASSUME SaveCategory(r)  PROVE Stands'
    <2>1. Only(r) /\ proc'[r].pc \notin Editors  BY <1>4, CategoryTyped
    <2>2. proc[r].pc = "update" /\ UNCHANGED <<question, options, links, clean>>
      BY <1>4 DEF SaveCategory, At, quiz, genres
    <2> QED  BY <2>1, <2>2, StandsRest DEF Editors, There
  <1>5. ASSUME NEW p \in Pods, NEW c \in Categories, NEW a \in SUBSET Questions,
               CreateOrder(r, p, c, a)
        PROVE  Stands'
    <2>1. Only(r) /\ proc'[r].pc = "prompt"  BY <1>5, LookUpMoves DEF CreateOrder
    <2>2. proc[r].pc = "new" /\ UNCHANGED <<question, options, links, clean>>
      BY <1>5 DEF CreateOrder, At, quiz, genres
    <2> QED  BY <2>1, <2>2, StandsRest DEF Editors, There
  <1>6. ASSUME NEW p \in Pods, NEW q \in Questions, DeleteQuestion(r, p, q)  PROVE Stands'
    <2>1. Only(r) /\ proc'[r].pc = "invalidate"  BY <1>6, ArriveOK DEF DeleteQuestion
    <2>2. proc[r].pc = "new" /\ RemoveQuestion(q) /\ UNCHANGED <<links, clean>>
      BY <1>6 DEF DeleteQuestion, At, genres
    <2> QED  BY <2>1, <2>2, GoneForGood, StandsRest DEF Editors
  <1>7. ASSUME NEW p \in Pods, NEW g \in Genres,
               \/ CreateGenre(r, p, g) \/ DeleteGenre(r, p, g)
               \/ \E s \in {"active", "inactive"} : UpdateGenre(r, p, g, s)
        PROVE  Stands'
    <2>1. /\ proc[r].pc = "new" /\ Return(r) /\ UNCHANGED <<question, options, clean>>
          /\ links' \subseteq links
      BY <1>7 DEF CreateGenre, DeleteGenre, UpdateGenre, RemoveGenre, At, quiz
    <2> QED  BY <2>1, ReturnMoves, StandsRest DEF Editors, There
  <1>8. ASSUME BuildFinalPrompt(r) \/ InsertOrder(r)  PROVE Stands'
    <2>1. /\ proc[r].pc \in {"prompt", "insert"} /\ UNCHANGED <<question, options, links, clean>>
          /\ Return(r) \/ (proc[r].pc = "prompt" /\ Goto(r, "insert"))
      BY <1>8 DEF BuildFinalPrompt, InsertOrder, At, quiz, genres
    <2>2. Only(r) /\ proc'[r].pc \in {"done", "insert"}
      BY <2>1, ReturnMoves, GotoOK DEF PCs
    <2> QED  BY <2>1, <2>2, StandsRest DEF Editors, There
  <1> QED  BY <1>1, <1>2, <1>3, <1>4, <1>5, <1>6, <1>7, <1>8

\* A step of an edit.
LEMMA StandsEdit ==
  ASSUME Whole, Stands, NEW r \in Requests,
         \/ \E p \in Pods :
              \/ \E c \in Categories, q \in Questions, f \in QuizForms : AddQuestion(r, p, c, q, f)
              \/ \E q \in Questions, f \in QuizForms : UpdateQuestion(r, p, q, f)
              \/ \E c \in Categories, w \in SUBSET Genres : SetCategoryGenres(r, p, c, w)
         \/ ClearOptions(r) \/ InsertOption(r) \/ OptionsDone(r) \/ CommitLinks(r)
         \/ Fail(r)
  PROVE  Stands'
  <1> USE DEF Whole, Typed
  <1>1. ASSUME NEW p \in Pods, NEW c \in Categories, NEW q \in Questions, NEW f \in QuizForms,
               AddQuestion(r, p, c, q, f)
        PROVE  Stands'
    <2>1. /\ At(r, "new") /\ NewQuestion(f) /\ InsertQuestion(r, c, q, f)
          /\ Begin(r, [Arrives(p, "options") EXCEPT !.question = q, !.n = f.n], q)
          /\ UNCHANGED <<options, links>>
      BY <1>1 DEF AddQuestion, genres
    <2>2. f.n \in 0 .. 2  BY CatalogForms DEF QuizForm
    <2>3. PICK h \in Request : Begin(r, h, q) /\ Takes(h, "options", q, f.n)
      BY <2>1, <2>2, QuestionTaken
    <2>4. options[q] = {}  BY <2>1 DEF InsertQuestion, NothingDangles, There
    <2>5. /\ question'[q].state = "there" /\ question'[q].by = r /\ question'[q].form = f
          /\ \A x \in Questions \ {q} : question'[x] = question[x]
      BY <2>1 DEF InsertQuestion, RowsOK
    <2> QED  BY <2>1, <2>3, <2>4, <2>5, StandsBegun DEF Takes
  <1>2. ASSUME NEW p \in Pods, NEW q \in Questions, NEW f \in QuizForms,
               UpdateQuestion(r, p, q, f)
        PROVE  Stands'
    <2>1. /\ At(r, "new") /\ NewQuestion(f) /\ SaveQuestion(r, q, f)
          /\ Begin(r, [Arrives(p, "clear") EXCEPT !.question = q, !.n = f.n], q)
          /\ UNCHANGED <<options, links>>
      BY <1>2 DEF UpdateQuestion, genres
    <2>2. f.n \in 0 .. 2  BY CatalogForms DEF QuizForm
    <2>3. PICK h \in Request : Begin(r, h, q) /\ Takes(h, "clear", q, f.n)
      BY <2>1, <2>2, QuestionTaken
    <2>4. question[q] \in QuestionRow  BY DEF RowsOK
    <2>5. /\ question'[q].state = "there" /\ question'[q].by = r /\ question'[q].form = f
          /\ \A x \in Questions \ {q} : question'[x] = question[x]
      BY <2>1, <2>4 DEF SaveQuestion, RowsOK, QuestionRow
    <2> QED  BY <2>1, <2>3, <2>5, StandsBegun DEF Takes
  <1>3. ASSUME NEW p \in Pods, NEW c \in Categories, NEW w \in SUBSET Genres,
               SetCategoryGenres(r, p, c, w)
        PROVE  Stands'
    <2>1. /\ At(r, "new") /\ UNCHANGED <<question, options, links>> /\ links \subseteq Link
          /\ Begin(r, [Arrives(p, "links") EXCEPT !.category = c, !.rows = Rows(c),
                                                 !.wanted = w], c)
      BY <1>3 DEF SetCategoryGenres, RowsOK, quiz, genres
    <2>2. PICK h \in Request : /\ Begin(r, h, c) /\ h.pc = "links" /\ h.question = Nothing
                               /\ h.category = c /\ h.rows = Rows(c)
      BY <2>1, LinksTaken
    <2> QED  BY <2>1, <2>2, StandsTaken
  <1>4. ASSUME ClearOptions(r)  PROVE Stands'
    <2>1. /\ proc[r].pc = "clear" /\ Goto(r, "options")
          /\ options' = [options EXCEPT ![proc[r].question] = {}]
          /\ UNCHANGED <<question, links, clean>>
      BY <1>4 DEF ClearOptions, At, genres
    <2>2. proc[r].question \in Questions  BY <2>1 DEF RequestsOK, RequestOK
    <2>3. /\ options'[proc[r].question] = {}
          /\ \A x \in Questions \ {proc[r].question} : options'[x] = options[x]
      BY <2>1, <2>2 DEF RowsOK
    <2>4. /\ Only(r) /\ proc'[r].pc = "options" /\ proc'[r].category = proc[r].category
          /\ proc'[r].question = proc[r].question /\ proc'[r].n = proc[r].n
          /\ proc'[r].alone = proc[r].alone
      BY <2>1, GotoMoves DEF PCs
    <2> QED  BY <2>1, <2>2, <2>3, <2>4, StandsFilled
  <1>5. ASSUME InsertOption(r)  PROVE Stands'
    <2>1. /\ proc[r].pc = "options" /\ proc[r].n > 0 /\ UNCHANGED <<question, links, clean>>
          /\ \/ /\ options' = [options EXCEPT ![proc[r].question] = @ \cup {<<r, proc[r].n>>}]
                /\ proc' = [proc EXCEPT ![r].n = proc[r].n - 1]
             \/ Return(r) /\ UNCHANGED options /\ ~There(proc[r].question)
      BY <1>5 DEF InsertOption, At, genres, There
    <2>2. proc[r].question \in Questions /\ proc[r] \in Request
      BY <2>1 DEF RequestsOK, RequestOK
    <2>3. CASE /\ options' = [options EXCEPT ![proc[r].question] = @ \cup {<<r, proc[r].n>>}]
               /\ proc' = [proc EXCEPT ![r].n = proc[r].n - 1]
      <3>1. /\ options'[proc[r].question] = options[proc[r].question] \cup {<<r, proc[r].n>>}
            /\ \A x \in Questions \ {proc[r].question} : options'[x] = options[x]
        BY <2>2, <2>3 DEF RowsOK
      <3>2. /\ Only(r) /\ proc'[r].pc = proc[r].pc /\ proc'[r].category = proc[r].category
            /\ proc'[r].question = proc[r].question /\ proc'[r].n = proc[r].n - 1
            /\ proc'[r].alone = proc[r].alone
        <4>1. proc[r].n - 1 \in 0 .. 2  BY <2>1, <2>2 DEF Request
        <4> QED  BY <2>2, <2>3, <4>1 DEF RequestsOK, Only, Request
      <3> QED  BY <2>1, <2>2, <3>1, <3>2, StandsFilled
    <2>4. CASE Return(r) /\ UNCHANGED options /\ ~There(proc[r].question)
      <3>1. \A q \in Questions : Editing(r, q) => ~There(q)  BY <2>1, <2>4, OneEdit
      <3> QED  BY <2>1, <2>4, <3>1, ReturnMoves, StandsLeft DEF Editors, There
    <2> QED  BY <2>1, <2>3, <2>4
  <1>6. ASSUME OptionsDone(r)  PROVE Stands'  BY <1>6, StandsFinished
  <1>7. ASSUME CommitLinks(r)  PROVE Stands'
    <2>1. CASE links' # links \/ clean' # clean  BY <1>7, <2>1, StandsCommitted
    <2>2. CASE links' = links /\ clean' = clean
      <3>1. proc[r].pc = "links" /\ Return(r) /\ UNCHANGED <<question, options>>
        BY <1>7 DEF CommitLinks, At, quiz
      <3>2. \A q \in Questions : ~Editing(r, q)  BY <3>1, OneEdit
      <3> QED  BY <2>2, <3>1, <3>2, ReturnMoves, StandsLeft DEF Editors, There
    <2> QED  BY <2>1, <2>2
  <1>8. ASSUME Fail(r)  PROVE Stands'
    <2>1. /\ Return(r) /\ UNCHANGED <<question, options, links>>
          /\ clean' = clean \ {proc[r].question}
      BY <1>8 DEF Fail, quiz, genres
    <2>2. \A q \in Questions : Editing(r, q) => q \notin clean'  BY <2>1, OneEdit
    <2> QED  BY <2>1, <2>2, ReturnMoves, StandsLeft DEF Editors, There
  <1> QED  BY <1>1, <1>2, <1>3, <1>4, <1>5, <1>6, <1>7, <1>8

\* Every step keeps the edits standing.
LEMMA StandsStep ==
  ASSUME Whole, Stands, [Next]_vars
  PROVE  Stands'
  <1>1. Typed  BY DEF Whole
  <1>2. ASSUME NEW r \in Requests, Arrive(r)  PROVE Stands'
    <2>1. PICK p \in Pods :
            \/ ListCached(r, p) \/ GetAll(r, p)
            \/ \E c \in Categories :
                 \/ CreateCategory(r, p, c) \/ UpdateCategory(r, p, c) \/ DeleteCategory(r, p, c)
                 \/ \E q \in Questions, f \in QuizForms : AddQuestion(r, p, c, q, f)
                 \/ \E wanted \in SUBSET Genres : SetCategoryGenres(r, p, c, wanted)
                 \/ \E answers \in SUBSET Questions : CreateOrder(r, p, c, answers)
            \/ \E q \in Questions :
                 DeleteQuestion(r, p, q) \/ \E f \in QuizForms : UpdateQuestion(r, p, q, f)
            \/ \E g \in Genres :
                 \/ CreateGenre(r, p, g) \/ DeleteGenre(r, p, g)
                 \/ \E s \in {"active", "inactive"} : UpdateGenre(r, p, g, s)
      BY <1>2 DEF Arrive
    <2>2. CASE ListCached(r, p) \/ GetAll(r, p)  BY <1>1, <2>2, StandsIdle
    <2>3. ASSUME NEW c \in Categories,
                 \/ CreateCategory(r, p, c) \/ UpdateCategory(r, p, c) \/ DeleteCategory(r, p, c)
                 \/ \E answers \in SUBSET Questions : CreateOrder(r, p, c, answers)
          PROVE  Stands'
      BY <1>1, <2>3, StandsIdle
    <2>4. ASSUME NEW c \in Categories,
                 \/ \E q \in Questions, f \in QuizForms : AddQuestion(r, p, c, q, f)
                 \/ \E wanted \in SUBSET Genres : SetCategoryGenres(r, p, c, wanted)
          PROVE  Stands'
      BY <2>4, StandsEdit
    <2>5. ASSUME NEW q \in Questions,
                 DeleteQuestion(r, p, q) \/ \E f \in QuizForms : UpdateQuestion(r, p, q, f)
          PROVE  Stands'
      BY <1>1, <2>5, StandsIdle, StandsEdit
    <2>6. ASSUME NEW g \in Genres,
                 \/ CreateGenre(r, p, g) \/ DeleteGenre(r, p, g)
                 \/ \E s \in {"active", "inactive"} : UpdateGenre(r, p, g, s)
          PROVE  Stands'
      BY <1>1, <2>6, StandsIdle
    <2> QED  BY <2>1, <2>2, <2>3, <2>4, <2>5, <2>6
  <1>3. ASSUME NEW r \in Requests, Step(r) \/ Fail(r)  PROVE Stands'
    BY <1>1, <1>3, StandsIdle, StandsEdit DEF Step
  <1>4. ASSUME \/ \E p \in Pods : Expire(p)
               \/ UNCHANGED vars
        PROVE  Stands'
    <2>1. UNCHANGED <<question, options, links, proc, clean>>
      BY <1>4 DEF Expire, vars, quiz, genres
    <2> QED  BY <2>1, StandsUnmoved
  <1> QED  BY <1>2, <1>3, <1>4 DEF Next

\* A question whose edits neither overlapped nor failed since one that did not has exactly
\* the options of its last edit, and some if it is answered by a choice of them, although
\* UpdateQuestion saves the row, clears the options and inserts them in as many statements
\* without a transaction; the genres of a category that SetCategoryGenres left alone come
\* from one list.
THEOREM EditsStand == Spec => []EditStands
  <1> DEFINE IInv == Whole /\ Stands
  <1>1. Init => IInv  BY WholeAtFirst, StandsAtFirst
  <1>2. IInv /\ [Next]_vars => IInv'  BY WholeStep, StandsStep
  <1>3. IInv => EditStands
    <2> SUFFICES ASSUME IInv  PROVE EditStands  OBVIOUS
    <2>1. ASSUME NEW q \in Questions, There(q), q \in clean, ~InHand(q)
          PROVE  /\ options[q] = {<<question[q].by, i>> : i \in 1 .. question[q].form.n}
                 /\ question[q].form.kind = "inline" => options[q] # {}
      <3>1. /\ NewQuestion(question[q].form) /\ question[q].form.n \in 0 .. 2
            /\ options[q] = Choices(question[q].by, 1, question[q].form.n)
        BY <2>1 DEF Stands, QuestionOn, Whole, Typed, RowsOK, QuestionRow, QuizForm
      <3>2. question[q].form.n > 0 => 1 \in 1 .. question[q].form.n  BY <3>1
      <3> QED  BY <3>1, <3>2 DEF Choices, NewQuestion
    <2>2. \A c \in Categories \cap clean : \A k, l \in Rows(c) : k.by = l.by
      BY DEF Stands, GenresOn
    <2> QED  BY <2>1, <2>2 DEF EditStands
  <1> QED
    <2> HIDE DEF IInv
    <2> QED  BY <1>1, <1>2, <1>3, PTL DEF Spec
=============================================================================
