----------------------------- MODULE Categories -----------------------------
(***************************************************************************)
(* Incident categories and the incidents filed under them.  A category is  *)
(* read, then written or used in a second transaction step, and another    *)
(* request may rename or delete it in between; the constraints of the      *)
(* database decide.                                                        *)
(***************************************************************************)
EXTENDS Naturals

CONSTANTS
    Request,      \* requests; also the ids of what they create
    Calls,        \* what a request may ask for
    Existing,     \* categories created before the run
    Tenant,
    InitialRow,   \* InitialRow[c]: tenant and name of an existing category
    Name,         \* category names, compared exactly
    NoCall, NoRow, NoName

Category == Existing \cup Request

Row == [tenant : Tenant, name : Name]

\* An update without a name (NoName) changes the description only.  A create names
\* no category and a delete or a filing no name: those fields carry any value.
Call == [kind : {"create", "update", "delete", "file"}, tenant : Tenant,
         category : Category, name : Name \cup {NoName}]

ASSUME ConstantsAssumption ==
    /\ Existing \cap Request = {}
    /\ InitialRow \in [Existing -> Row]
    /\ \A c, d \in Existing : InitialRow[c] = InitialRow[d] => c = d
    /\ Calls \subseteq Call
    /\ NoCall \notin Calls
    /\ \A c \in Calls : c.kind = "create" => c.name # NoName
    /\ NoRow \notin Row
    /\ NoName \notin Name /\ Name # {}

VARIABLES
    category,    \* categories rows, or NoRow
    filedUnder,  \* incidents: the category of the incident a request filed
    pc, call,
    seenName,    \* the name of the category as the session loaded it
    answer

vars == <<category, filedUnder, pc, call, seenName, answer>>

PCs == {"idle", "get", "guard", "commit", "refresh", "done"}
Answers == {"none", "200", "201", "204", "404", "409", "422", "500", "lost"}

Init ==
    /\ category = [c \in Category |-> IF c \in Existing THEN InitialRow[c] ELSE NoRow]
    /\ filedUnder = [q \in {} |-> q]
    /\ pc = [q \in Request |-> "idle"]
    /\ call = [q \in Request |-> NoCall]
    /\ seenName = [q \in Request |-> CHOOSE n \in Name : TRUE]
    /\ answer = [q \in Request |-> "none"]
-----------------------------------------------------------------------------
Goto(q, step) ==
    /\ pc' = [pc EXCEPT ![q] = step]
    /\ UNCHANGED answer

Respond(q, code) ==
    /\ pc' = [pc EXCEPT ![q] = "done"]
    /\ answer' = [answer EXCEPT ![q] = code]

\* The row a request addresses, or would create.
Addressed(q) == IF call[q].kind = "create" THEN q ELSE call[q].category

Referenced(c) == \E q \in DOMAIN filedUnder : filedUnder[q] = c

\* uq_categories_tenant_name would be violated by that row.
NameTaken(c, row) == \E d \in Category \ {c} : category[d] = row

Begin(q, c) ==
    /\ pc[q] = "idle"
    /\ call' = [call EXCEPT ![q] = c]
    /\ Goto(q, IF c.kind = "create" THEN "commit" ELSE "get")
    /\ UNCHANGED <<category, filedUnder, seenName>>

\* get_category, and the select of create_incident: a category of another tenant
\* is answered like one that does not exist.
Get(q) ==
    /\ pc[q] = "get"
    /\ LET c == call[q].category
       IN  IF category[c] # NoRow /\ category[c].tenant = call[q].tenant
           THEN /\ seenName' = [seenName EXCEPT ![q] = category[c].name]
                /\ Goto(q, IF call[q].kind = "delete" THEN "guard" ELSE "commit")
           ELSE /\ Respond(q, IF call[q].kind = "file" THEN "422" ELSE "404")
                /\ UNCHANGED seenName
    /\ UNCHANGED <<category, filedUnder, call>>

\* create_category.
Create(q) ==
    /\ pc[q] = "commit"
    /\ call[q].kind = "create"
    /\ LET row == [tenant |-> call[q].tenant, name |-> call[q].name]
       IN  IF NameTaken(q, row)
           THEN Respond(q, "409") /\ UNCHANGED category
           ELSE category' = [category EXCEPT ![q] = row] /\ Goto(q, "refresh")
    /\ UNCHANGED <<filedUnder, call, seenName>>

\* No name means "leave it", and a name that is the one loaded is not written.
Renames(q) == call[q].name \notin {seenName[q], NoName}

\* update_category.  An UPDATE that finds its row gone is an error the handler
\* does not catch.
Update(q) ==
    /\ pc[q] = "commit"
    /\ call[q].kind = "update"
    /\ LET c == call[q].category
           row == [tenant |-> call[q].tenant, name |-> call[q].name]
       IN  \/ /\ ~Renames(q)
              /\ Goto(q, "refresh") /\ UNCHANGED category
           \/ /\ Renames(q)
              /\ category[c] = NoRow
              /\ Respond(q, "500") /\ UNCHANGED category
           \/ /\ Renames(q)
              /\ category[c] # NoRow
              /\ IF NameTaken(c, row) THEN Respond(q, "409") /\ UNCHANGED category
                 ELSE category' = [category EXCEPT ![c] = row] /\ Goto(q, "refresh")
    /\ UNCHANGED <<filedUnder, call, seenName>>

\* db.refresh: the row may have been deleted since the commit.
Refresh(q) ==
    /\ pc[q] = "refresh"
    /\ Respond(q, IF category[Addressed(q)] = NoRow THEN "500"
                  ELSE IF call[q].kind = "create" THEN "201" ELSE "200")
    /\ UNCHANGED <<category, filedUnder, call, seenName>>

\* delete_category: UC-04 A2, any incident blocks.
Guard(q) ==
    /\ pc[q] = "guard"
    /\ IF Referenced(call[q].category) THEN Respond(q, "409") ELSE Goto(q, "commit")
    /\ UNCHANGED <<category, filedUnder, call, seenName>>

BuggySwallow(q) ==
    /\ pc[q] = "commit"
    /\ call[q].kind = "delete"
    /\ category' = IF Referenced(call[q].category) THEN category
                   ELSE [category EXCEPT ![call[q].category] = NoRow]
    /\ Respond(q, "204")
    /\ UNCHANGED <<filedUnder, call, seenName>>

BuggyDelete(q) ==
    /\ pc[q] = "commit"
    /\ call[q].kind = "delete"
    /\ category' = [category EXCEPT ![call[q].category] = NoRow]
    /\ Respond(q, "204")
    /\ UNCHANGED <<filedUnder, call, seenName>>

\* The DELETE: the foreign key has the last word; a row that is already gone is
\* as good as deleted.
Delete(q) ==
    /\ pc[q] = "commit"
    /\ call[q].kind = "delete"
    /\ IF Referenced(call[q].category)
       THEN Respond(q, "409") /\ UNCHANGED category
       ELSE category' = [category EXCEPT ![call[q].category] = NoRow] /\ Respond(q, "204")
    /\ UNCHANGED <<filedUnder, call, seenName>>

\* create_incident's INSERT.  The violation of the foreign key is not caught.
File(q) ==
    /\ pc[q] = "commit"
    /\ call[q].kind = "file"
    /\ IF category[call[q].category] = NoRow
       THEN Respond(q, "500") /\ UNCHANGED filedUnder
       ELSE /\ filedUnder' = [p \in DOMAIN filedUnder \cup {q} |->
                                IF p = q THEN call[q].category ELSE filedUnder[p]]
            /\ Respond(q, "201")
    /\ UNCHANGED <<category, call, seenName>>

Fail(q) ==
    /\ pc[q] \notin {"idle", "done"}
    /\ Respond(q, "lost")
    /\ UNCHANGED <<category, filedUnder, call, seenName>>

Terminating ==
    /\ \A q \in Request : pc[q] = "done"
    /\ UNCHANGED vars

Next ==
    \/ \E q \in Request :
        \/ \E c \in Calls : Begin(q, c)
        \/ Get(q) \/ Guard(q)
        \/ Create(q) \/ Update(q) \/ Delete(q) \/ File(q)
        \/ Refresh(q) \/ Fail(q)
    \/ Terminating

Spec == Init /\ [][Next]_vars
-----------------------------------------------------------------------------
\* Every row and reference has its type; a NOT NULL name is never lost.
TypeOK ==
    /\ category \in [Category -> Row \cup {NoRow}]
    /\ DOMAIN filedUnder \subseteq Request
    /\ \A q \in DOMAIN filedUnder : filedUnder[q] \in Category
    /\ pc \in [Request -> PCs]
    /\ call \in [Request -> Calls \cup {NoCall}]
    /\ \A q \in Request : pc[q] # "idle" => call[q] # NoCall
    /\ seenName \in [Request -> Name]
    /\ answer \in [Request -> Answers]

\* UC-04 A2: an incident keeps its category, and it is one of the tenant that
\* filed it, whenever deletes and filings cross (delete_category falls back on the
\* foreign key when its own check is out of date).
IncidentsKeepTheirCategory ==
    \A q \in DOMAIN filedUnder :
        /\ category[filedUnder[q]] # NoRow
        /\ category[filedUnder[q]].tenant = call[q].tenant

\* "Same answer either way": a delete is answered 204 only if the category is gone
\* for good, whatever updates were under way, and 409 only if incidents use it,
\* whether its check or the foreign key found out.  An unhandled error (500) has
\* one cause only: somebody deleted the category the request had read.
AnswersAreTrue ==
    \A q \in Request :
        LET c == Addressed(q)
        IN  /\ answer[q] = "204" => category[c] = NoRow
            /\ answer[q] = "409" /\ call[q].kind = "delete" => Referenced(c)
            /\ answer[q] = "500" => category[c] = NoRow
            /\ answer[q] = "201" /\ call[q].kind = "file" => q \in DOMAIN filedUnder
=============================================================================
