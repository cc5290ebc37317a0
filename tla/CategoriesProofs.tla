-------------------------- MODULE CategoriesProofs --------------------------
(***************************************************************************)
(* Proofs about Categories, for every set of tenants, names and requests.  *)
(*                                                                         *)
(* Nothing locks a category between the read and the write of a request.   *)
(* The argument is that the tenant of a row never changes, that an         *)
(* identifier is given out once, so that what was deleted stays deleted,   *)
(* and that the foreign key is evaluated by the very step that deletes.    *)
(***************************************************************************)
EXTENDS Categories, TLAPS

\* Identifier c is that of a creation still to come, or of none at all.
Unborn(c) ==
    /\ c \in Request
    /\ ~(call[c] # NoCall /\ call[c].kind = "create" /\ pc[c] \in {"refresh", "done"})

\* Request q has found the category it addresses.
Found(q) ==
    /\ call[q].kind # "create"
    /\ \/ pc[q] \in {"guard", "commit", "refresh"}
       \/ pc[q] = "done" /\ answer[q] \in {"200", "201", "204", "409", "500"}

\* An identifier is used once: whoever found a category found one that had been
\* created.
Births ==
    /\ \A c \in Category : Unborn(c) => category[c] = NoRow
    /\ \A q \in Request : Found(q) => ~Unborn(call[q].category)

\* The category a request read is one of its tenant as long as it exists.
Tenancy ==
    \A q \in Request :
        pc[q] \in {"guard", "commit"} /\ call[q].kind # "create"
            /\ category[call[q].category] # NoRow
        => category[call[q].category].tenant = call[q].tenant

\* Which step belongs to which kind of request.
Shape ==
    /\ \A q \in Request :
        /\ pc[q] = "get" => call[q].kind # "create"
        /\ pc[q] = "guard" => call[q].kind = "delete"
        /\ pc[q] = "refresh" => call[q].kind \in {"create", "update"}
        /\ answer[q] # "none" <=> pc[q] = "done"
    /\ \A q \in DOMAIN filedUnder : pc[q] = "done"

\* The inductive invariant.
IInv ==
    /\ TypeOK
    /\ Shape
    /\ Births
    /\ Tenancy
    /\ IncidentsKeepTheirCategory
    /\ AnswersAreTrue

\* An accepted call has its fields.
LEMMA CallFacts ==
    ASSUME TypeOK, NEW q \in Request, pc[q] # "idle"
    PROVE  /\ call[q] \in Calls /\ call[q] # NoCall
           /\ call[q].kind \in {"create", "update", "delete", "file"}
           /\ call[q].tenant \in Tenant
           /\ call[q].category \in Category
           /\ call[q].name \in Name \cup {NoName}
           /\ call[q].kind = "create" => call[q].name \in Name
BY ConstantsAssumption DEF TypeOK, Call

\* What request q does in one step.
Step(q) ==
    \/ \E c \in Calls : Begin(q, c)
    \/ Get(q) \/ Guard(q)
    \/ Create(q) \/ Update(q) \/ Delete(q) \/ File(q)
    \/ Refresh(q) \/ Fail(q)

\* The others stand still.
LEMMA Alone ==
    ASSUME TypeOK, NEW q \in Request, Step(q), NEW p \in Request \ {q}
    PROVE  pc'[p] = pc[p] /\ call'[p] = call[p] /\ answer'[p] = answer[p]
BY DEF TypeOK, Step, Begin, Get, Guard, Create, Update, Delete, File, Refresh, Fail, Goto, Respond

\* What was asked for is fixed.
LEMMA CallStays ==
    ASSUME NEW q \in Request, Step(q), pc[q] # "idle"
    PROVE  UNCHANGED call /\ pc[q] # "done"
BY DEF Step, Begin, Get, Guard, Create, Update, Delete, File, Refresh, Fail

\* Before the first request.
LEMMA InitIInv ==
    ASSUME Init
    PROVE  IInv
<1>1. TypeOK
  <2>1. \A c \in Category : category[c] \in Row \cup {NoRow}
    BY ConstantsAssumption DEF Init
  <2>2. (CHOOSE n \in Name : TRUE) \in Name
    BY ConstantsAssumption
  <2> QED
    BY <2>1, <2>2 DEF Init, TypeOK, PCs, Answers
<1>2. \A q \in Request : pc[q] = "idle" /\ answer[q] = "none" /\ call[q] = NoCall
  <2>1. /\ pc = [q \in Request |-> "idle"]
        /\ answer = [q \in Request |-> "none"]
        /\ call = [q \in Request |-> NoCall]
    BY DEF Init
  <2> QED
    BY <2>1
<1>3. DOMAIN filedUnder = {}
  BY DEF Init
<1>4. \A c \in Category : Unborn(c) => category[c] = NoRow
  BY ConstantsAssumption DEF Init, Unborn
<1> QED
  BY <1>1, <1>2, <1>3, <1>4
  DEF IInv, Shape, Births, Tenancy, Found, IncidentsKeepTheirCategory, AnswersAreTrue

\* Types and steps.
LEMMA TypeStep ==
    ASSUME TypeOK, Shape, NEW q \in Request, Step(q)
    PROVE  TypeOK'
<1> USE DEF TypeOK, PCs, Answers, Goto, Respond
<1>1. ASSUME NEW c \in Calls, Begin(q, c)
      PROVE  TypeOK'
  BY <1>1, ConstantsAssumption DEF Begin
<1>2. CASE Get(q)
  <2>1. category[call[q].category] # NoRow => category[call[q].category].name \in Name
    BY <1>2, CallFacts DEF Get, Row
  <2> QED
    BY <1>2, <2>1 DEF Get
<1>3. CASE Guard(q)
  BY <1>3 DEF Guard
<1>4. CASE Create(q)
  <2>1. [tenant |-> call[q].tenant, name |-> call[q].name] \in Row
    BY <1>4, CallFacts DEF Create, Row
  <2> QED
    BY <1>4, <2>1 DEF Create, Category
<1>5. CASE Update(q)
  <2>1. Renames(q) => [tenant |-> call[q].tenant, name |-> call[q].name] \in Row
    BY <1>5, CallFacts DEF Update, Renames, Row
  <2> QED
    BY <1>5, <2>1 DEF Update
<1>6. CASE Delete(q)
  BY <1>6 DEF Delete
<1>7. CASE File(q)
  <2>1. call[q].category \in Category
    BY <1>7, CallFacts DEF File
  <2> QED
    BY <1>7, <2>1 DEF File
<1>8. CASE Refresh(q) \/ Fail(q)
  BY <1>8 DEF Refresh, Fail
<1> QED
  BY <1>1, <1>2, <1>3, <1>4, <1>5, <1>6, <1>7, <1>8 DEF Step

\* Kinds and steps.
LEMMA ShapeStep ==
    ASSUME TypeOK, Shape, NEW q \in Request, Step(q)
    PROVE  Shape'
<1> USE DEF Goto, Respond
<1>1. /\ pc'[q] = "get" => call'[q].kind # "create"
      /\ pc'[q] = "guard" => call'[q].kind = "delete"
      /\ pc'[q] = "refresh" => call'[q].kind \in {"create", "update"}
      /\ answer'[q] # "none" <=> pc'[q] = "done"
  BY DEF TypeOK, Shape, Step, Begin, Get, Guard, Create, Update, Delete, File, Refresh, Fail
<1>2. \A p \in DOMAIN filedUnder' : (p = q /\ pc'[q] = "done") \/ p \in DOMAIN filedUnder
  BY DEF TypeOK, Step, Begin, Get, Guard, Create, Update, Delete, File, Refresh, Fail
<1>3. q \notin DOMAIN filedUnder
  BY DEF Shape, Step, Begin, Get, Guard, Create, Update, Delete, File, Refresh, Fail
<1>4. \A p \in DOMAIN filedUnder : p \in Request
  BY DEF TypeOK
<1> QED
  BY <1>1, <1>2, <1>3, <1>4, Alone DEF Shape

\* An identifier that was used stays used.
LEMMA BornStays ==
    ASSUME TypeOK, NEW q \in Request, Step(q), NEW c \in Category, ~Unborn(c)
    PROVE  ~Unborn(c)'
<1>1. CASE c \notin Request
  BY <1>1 DEF Unborn
<1>2. CASE c = q
  <2>1. call[q] # NoCall /\ call[q].kind = "create" /\ pc[q] \in {"refresh", "done"}
    BY <1>2 DEF Unborn
  <2>2. UNCHANGED call /\ pc'[q] = "done"
    BY <2>1 DEF TypeOK, Step, Begin, Get, Guard, Create, Update, Delete, File, Refresh, Fail,
       Respond
  <2> QED
    BY <1>2, <2>1, <2>2 DEF Unborn
<1>3. CASE c \in Request \ {q}
  BY <1>3, Alone DEF Unborn
<1> QED
  BY <1>1, <1>2, <1>3

\* What one step does to one category: nothing, or it creates, renames or
\* deletes it.
LEMMA CategoryChange ==
    ASSUME IInv, NEW q \in Request, Step(q), NEW c \in Category
    PROVE  \/ category'[c] = category[c]
           \/ Unborn(c) /\ ~Unborn(c)'
           \/ /\ category[c] # NoRow /\ category'[c] # NoRow
              /\ category'[c].tenant = category[c].tenant
           \/ category'[c] = NoRow /\ ~Referenced(c)
<1>0. TypeOK /\ Shape /\ Tenancy
  BY DEF IInv
<1>1. CASE Create(q)
  <2>1. CASE c = q /\ pc'[q] = "refresh"
    <3>1. Unborn(q)
      BY <1>1 DEF Unborn, Create
    <3>2. UNCHANGED call /\ call[q] # NoCall /\ call[q].kind = "create"
      BY <1>0, <1>1, CallFacts DEF Create
    <3> QED
      BY <2>1, <3>1, <3>2 DEF Unborn
  <2>2. CASE ~(c = q /\ pc'[q] = "refresh")
    BY <1>0, <1>1, <2>2 DEF Create, Goto, Respond, TypeOK
  <2> QED
    BY <2>1, <2>2
<1>2. CASE Update(q)
  <2> DEFINE row == [tenant |-> call[q].tenant, name |-> call[q].name]
  <2>1. \/ UNCHANGED category
        \/ /\ Renames(q) /\ category[call[q].category] # NoRow
           /\ category' = [category EXCEPT ![call[q].category] = row]
    BY <1>2 DEF Update
  <2>2. ASSUME Renames(q), category[call[q].category] # NoRow,
               category' = [category EXCEPT ![call[q].category] = row],
               c = call[q].category
        PROVE  category'[c] # NoRow /\ category'[c].tenant = category[c].tenant
    <3>1. category[c].tenant = call[q].tenant
      BY <1>0, <1>2, <2>2 DEF Update, Tenancy
    <3>2. row \in Row
      BY <1>0, <1>2, <2>2, CallFacts DEF Update, Renames, Row
    <3>3. row # NoRow
      BY <3>2, ConstantsAssumption
    <3>4. category'[c] = row /\ row.tenant = call[q].tenant
      BY <1>0, <2>2 DEF TypeOK
    <3> HIDE DEF row
    <3> QED
      BY <3>1, <3>3, <3>4
  <2> HIDE DEF row
  <2> QED
    BY <1>0, <2>1, <2>2 DEF TypeOK
<1>3. CASE Delete(q)
  BY <1>0, <1>3 DEF Delete, TypeOK
<1>4. CASE ~Create(q) /\ ~Update(q) /\ ~Delete(q)
  BY <1>4 DEF Step, Begin, Get, Guard, File, Refresh, Fail
<1> QED
  BY <1>1, <1>2, <1>3, <1>4

\* An identifier is given out once.
LEMMA BirthsStep ==
    ASSUME IInv, NEW q \in Request, Step(q)
    PROVE  Births'
<1>0. TypeOK /\ Shape /\ Births
  BY DEF IInv
<1>1. ASSUME NEW c \in Category, Unborn(c)'
      PROVE  category'[c] = NoRow
  <2>1. category[c] = NoRow
    BY <1>0, <1>1, BornStays DEF Births
  <2> QED
    BY <1>1, <2>1, CategoryChange
<1>2. ASSUME NEW p \in Request \ {q}, Found(p)'
      PROVE  ~Unborn(call[p].category)'
  <2>1. Found(p) /\ call'[p] = call[p] /\ pc[p] # "idle"
    BY <1>0, <1>2, Alone DEF Found
  <2>2. PICK c \in Category : c = call[p].category
    BY <1>0, <2>1, CallFacts
  <2>3. ~Unborn(c)'
    BY <1>0, <2>1, <2>2, BornStays DEF Births
  <2> QED
    BY <2>1, <2>2, <2>3 DEF Unborn
<1>3. ASSUME Found(q)'
      PROVE  ~Unborn(call[q].category)'
  <2>1. pc[q] # "idle"
    BY <1>0, <1>3 DEF Found, Step, Begin, Goto, TypeOK, Get, Guard, Create, Update, Delete, File,
        Refresh, Fail
  <2>2. UNCHANGED call
    BY <2>1, CallStays
  <2>3. PICK c \in Category : c = call[q].category
    BY <1>0, <2>1, CallFacts
  <2>4. CASE Found(q)
    <3>1. ~Unborn(c)'
      BY <1>0, <2>3, <2>4, BornStays DEF Births
    <3> QED
      BY <2>2, <2>3, <3>1 DEF Unborn
  <2>5. CASE ~Found(q)
    <3>1. Get(q) /\ category[call[q].category] # NoRow
      BY <1>0, <1>3, <2>1, <2>2, <2>5 DEF Found, Step, Begin, Get, Guard, Create, Update, Delete,
          File, Refresh, Fail, Goto, Respond, TypeOK
    <3>2. ~Unborn(c)
      BY <1>0, <2>3, <3>1 DEF Births
    <3>3. ~Unborn(c)'
      BY <1>0, <3>2, BornStays
    <3> QED
      BY <2>2, <2>3, <3>3 DEF Unborn
  <2> QED
    BY <2>4, <2>5
<1> QED
  BY <1>1, <1>2, <1>3 DEF Births

\* The category a request has read does not change hands.
LEMMA TenancyStep ==
    ASSUME IInv, NEW q \in Request, Step(q)
    PROVE  Tenancy'
<1>0. TypeOK /\ Shape /\ Births /\ Tenancy
  BY DEF IInv
<1> SUFFICES ASSUME NEW p \in Request,
                    pc'[p] \in {"guard", "commit"}, call'[p].kind # "create",
                    category'[call'[p].category] # NoRow
             PROVE  category'[call'[p].category].tenant = call'[p].tenant
  BY DEF Tenancy
<1>1. CASE pc[p] \in {"guard", "commit"} /\ call'[p] = call[p]
  <2>1. call[p].category \in Category /\ Found(p)
    BY <1>0, <1>1, CallFacts DEF Found
  <2>2. ~Unborn(call[p].category)
    BY <1>0, <2>1 DEF Births
  <2>3. category[call[p].category] # NoRow => category[call[p].category].tenant = call[p].tenant
    BY <1>0, <1>1 DEF Tenancy
  <2> QED
    BY <1>1, <2>1, <2>2, <2>3, CategoryChange
<1>2. CASE p = q /\ Get(q)
  BY <1>0, <1>2 DEF Get, Goto, Respond, TypeOK
<1> QED
  <2>1. p # q => pc'[p] = pc[p] /\ call'[p] = call[p]
    BY <1>0, Alone
  <2>2. p = q => Get(q) \/ Guard(q)
    BY <1>0 DEF Step, Begin, Create, Update, Delete, File, Refresh, Fail, Goto, Respond, TypeOK
  <2>3. Guard(q) => pc[q] = "guard" /\ UNCHANGED call
    BY DEF Guard
  <2> QED
    BY <1>1, <1>2, <2>1, <2>2, <2>3

\* A reference is never taken back, and a new one is to an existing category.
LEMMA FiledStep ==
    ASSUME TypeOK, Shape, NEW q \in Request, Step(q), NEW p \in DOMAIN filedUnder'
    PROVE  \/ p \in DOMAIN filedUnder /\ filedUnder'[p] = filedUnder[p] /\ p # q
           \/ p = q /\ File(q) /\ filedUnder'[p] = call[q].category /\ UNCHANGED category
              /\ category[call[q].category] # NoRow /\ UNCHANGED call
<1>1. CASE File(q)
  BY <1>1 DEF File, Shape
<1>2. CASE ~File(q)
  BY <1>2 DEF Shape, Step, Begin, Get, Guard, Create, Update, Delete, Refresh, Fail
<1> QED
  BY <1>1, <1>2

\* References that are there stay there.
LEMMA ReferencesStay ==
    ASSUME TypeOK, Shape, NEW q \in Request, Step(q)
    PROVE  \A p \in DOMAIN filedUnder :
             p \in DOMAIN filedUnder' /\ filedUnder'[p] = filedUnder[p]
BY DEF Shape, Step, Begin, Get, Guard, Create, Update, Delete, File, Refresh, Fail

\* No step takes an incident's category away.
LEMMA IncidentsStep ==
    ASSUME IInv, NEW q \in Request, Step(q)
    PROVE  IncidentsKeepTheirCategory'
<1>0. TypeOK /\ Shape /\ Births /\ Tenancy /\ IncidentsKeepTheirCategory
  BY DEF IInv
<1> SUFFICES ASSUME NEW p \in DOMAIN filedUnder'
             PROVE  /\ category'[filedUnder'[p]] # NoRow
                    /\ category'[filedUnder'[p]].tenant = call'[p].tenant
  BY DEF IncidentsKeepTheirCategory
<1>1. CASE p \in DOMAIN filedUnder /\ filedUnder'[p] = filedUnder[p] /\ p # q
  <2>1. p \in Request /\ filedUnder[p] \in Category /\ call'[p] = call[p]
    BY <1>0, <1>1, Alone DEF TypeOK
  <2>2. /\ category[filedUnder[p]] # NoRow /\ category[filedUnder[p]].tenant = call[p].tenant
        /\ Referenced(filedUnder[p])
    BY <1>0, <1>1 DEF IncidentsKeepTheirCategory, Referenced
  <2>3. ~Unborn(filedUnder[p])
    BY <1>0, <2>1, <2>2 DEF Births
  <2> QED
    BY <1>1, <2>1, <2>2, <2>3, CategoryChange
<1>2. CASE p = q /\ File(q) /\ filedUnder'[p] = call[q].category /\ UNCHANGED category
           /\ category[call[q].category] # NoRow /\ UNCHANGED call
  BY <1>0, <1>2 DEF File, Tenancy
<1> QED
  BY <1>0, <1>1, <1>2, FiledStep

\* What AnswersAreTrue says of one request.
AnswerIsTrue(q) ==
    /\ answer[q] = "204" => category[Addressed(q)] = NoRow
    /\ answer[q] = "409" /\ call[q].kind = "delete" => Referenced(Addressed(q))
    /\ answer[q] = "500" => category[Addressed(q)] = NoRow
    /\ answer[q] = "201" /\ call[q].kind = "file" => q \in DOMAIN filedUnder

\* An answer that was true stays true.
LEMMA AnswerStays ==
    ASSUME IInv, NEW q \in Request, Step(q), NEW p \in Request \ {q}, AnswerIsTrue(p)
    PROVE  AnswerIsTrue(p)'
<1>0. TypeOK /\ Shape /\ Births
  BY DEF IInv
<1>1. pc'[p] = pc[p] /\ call'[p] = call[p] /\ answer'[p] = answer[p]
  BY <1>0, Alone
<1>2. CASE answer[p] \notin {"204", "500", "409", "201"}
  BY <1>1, <1>2 DEF AnswerIsTrue
<1>3. CASE answer[p] \in {"204", "500", "409", "201"}
  <2>1. pc[p] = "done" /\ call[p] # NoCall
    BY <1>0, <1>3, CallFacts DEF Shape
  <2>2. PICK c \in Category : c = Addressed(p)
    BY <1>0, <2>1, CallFacts DEF Addressed, Category
  <2>3. Addressed(p)' = c
    BY <1>1, <2>2 DEF Addressed
  <2>4. ~Unborn(c)
    <3>1. CASE call[p].kind = "create"
      BY <2>1, <2>2, <3>1 DEF Unborn, Addressed
    <3>2. CASE call[p].kind # "create"
      BY <1>0, <1>3, <2>1, <2>2, <3>2 DEF Births, Found, Addressed
    <3> QED
      BY <3>1, <3>2
  <2>5. category[c] = NoRow => category'[c] = NoRow
    BY <2>4, CategoryChange
  <2>6. Referenced(c) => Referenced(c)'
    BY <1>0, ReferencesStay DEF Referenced
  <2>7. p \in DOMAIN filedUnder => p \in DOMAIN filedUnder'
    BY <1>0, ReferencesStay
  <2>8. Referenced(Addressed(p))' <=> Referenced(c)'
    BY <2>3 DEF Referenced
  <2> QED
    BY <1>1, <2>2, <2>3, <2>5, <2>6, <2>7, <2>8 DEF AnswerIsTrue
<1> QED
  BY <1>2, <1>3

\* An answer is true when it is given.
LEMMA AnswerGiven ==
    ASSUME IInv, NEW q \in Request, Step(q)
    PROVE  AnswerIsTrue(q)'
<1> USE DEF Goto, Respond
<1>0. /\ TypeOK /\ Shape
      /\ pc \in [Request -> PCs] /\ answer \in [Request -> Answers]
      /\ category \in [Category -> Row \cup {NoRow}]
  BY DEF IInv, TypeOK
<1>1. pc[q] # "done" /\ answer[q] = "none"
  BY <1>0 DEF Shape, Step, Begin, Get, Guard, Create, Update, Delete, File, Refresh, Fail
<1>2. CASE (\E c \in Calls : Begin(q, c)) \/ Get(q) \/ Fail(q) \/ Create(q)
  <2>1. /\ answer'[q] \in {"none", "404", "422", "lost", "409"}
        /\ answer'[q] = "409" => call'[q].kind = "create"
    BY <1>0, <1>1, <1>2 DEF Begin, Get, Fail, Create
  <2> QED
    BY <2>1 DEF AnswerIsTrue
<1>3. CASE Guard(q)
  BY <1>0, <1>1, <1>3 DEF Guard, AnswerIsTrue, Addressed, Shape, Referenced
<1>4. CASE Update(q)
  BY <1>0, <1>1, <1>4 DEF Update, AnswerIsTrue, Addressed
<1>5. CASE Delete(q)
  <2>1. call[q].category \in Category
    BY <1>0, <1>5, CallFacts DEF Delete
  <2> QED
    BY <1>0, <1>1, <1>5, <2>1 DEF Delete, AnswerIsTrue, Addressed, Referenced
<1>6. CASE File(q)
  BY <1>0, <1>1, <1>6 DEF File, AnswerIsTrue, Addressed
<1>7. CASE Refresh(q)
  BY <1>0, <1>1, <1>7 DEF Refresh, AnswerIsTrue, Addressed, Shape
<1> QED
  BY <1>2, <1>3, <1>4, <1>5, <1>6, <1>7 DEF Step

\* Every step keeps the invariant.
LEMMA StepIInv ==
    ASSUME IInv, [Next]_vars
    PROVE  IInv'
<1>0. TypeOK /\ Shape /\ Births /\ Tenancy
  BY DEF IInv
<1>1. ASSUME NEW q \in Request, Step(q)
      PROVE  IInv'
  <2>1. \A p \in Request : AnswerIsTrue(p)
    BY DEF IInv, AnswersAreTrue, AnswerIsTrue
  <2>2. \A p \in Request : AnswerIsTrue(p)'
    BY <1>1, <2>1, AnswerStays, AnswerGiven
  <2>3. AnswersAreTrue'
    BY <2>2 DEF AnswersAreTrue, AnswerIsTrue
  <2> QED
    BY <1>0, <1>1, <2>3, TypeStep, ShapeStep, BirthsStep, TenancyStep, IncidentsStep DEF IInv
<1>2. CASE UNCHANGED vars
  BY <1>2 DEF vars, IInv, TypeOK, Shape, Births, Unborn, Found, Tenancy,
      IncidentsKeepTheirCategory, AnswersAreTrue, Referenced, Addressed
<1> QED
  BY <1>1, <1>2 DEF Next, Step, Terminating
-----------------------------------------------------------------------------
\* Every column and every session variable has its type in every reachable
\* state; a NOT NULL name is never lost.
THEOREM TypeCorrect == Spec => []TypeOK
<1>1. IInv => TypeOK
  BY DEF IInv
<1> QED
  BY <1>1, InitIInv, StepIInv, PTL DEF Spec

\* UC-04 A2: however deletes and filings cross, an incident keeps its category,
\* and it is one of the tenant that filed it.
THEOREM CategoriesKept == Spec => []IncidentsKeepTheirCategory
<1>1. IInv => IncidentsKeepTheirCategory
  BY DEF IInv
<1> QED
  BY <1>1, InitIInv, StepIInv, PTL DEF Spec

\* A 204 means gone for good, a refused delete that incidents use the category,
\* and a 500 that somebody deleted it under the request.
THEOREM AnswersCorrect == Spec => []AnswersAreTrue
<1>1. IInv => AnswersAreTrue
  BY DEF IInv
<1> QED
  BY <1>1, InitIInv, StepIInv, PTL DEF Spec
=============================================================================
