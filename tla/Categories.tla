------------------------------ MODULE Categories ------------------------------
(***************************************************************************)
(* The categories of one user and the movements filed under them.  Two     *)
(* tables work alike, one for expenses and one for incomes; a behaviour is *)
(* about one of them.  Requests overlap: what a serializer or a tool read  *)
(* may have changed when it writes.  A name is a key, what is left of it   *)
(* without capitals, and a spelling; rows older than the normalisation     *)
(* have spellings of their own.                                            *)
(***************************************************************************)
EXTENDS Integers, FiniteSets, Sequences

CONSTANTS
    Workers,
    Keys,           \* names without their capitals
    DefaultKeys,    \* PREDEFINED_CATEGORIES
    Otros,          \* "Otros" or "Otros Ingresos"
    Spellings,      \* the ways a client or an older version writes a name
    Title,          \* what normalize_category_name makes of all of them
    MaxCategory,    \* bound on primary keys
    Movements,      \* movements the instance may record (bound)
    Asked,          \* names the requests ask for
    Starts,         \* the tables to begin with: their names, oldest first
    None

\* Assumed by the modules that give the constants their values.
CategoriesAssumption ==
    /\ Otros \in Keys /\ DefaultKeys \subseteq Keys \ {Otros}
    /\ IsFiniteSet(DefaultKeys)
    /\ Title \in Spellings /\ MaxCategory \in Nat
    /\ Asked \subseteq [key : Keys, spelling : Spellings]
    /\ Starts \subseteq [table : {"expense", "income"},
                       names : Seq([key : Keys, spelling : Spellings])]
    /\ \A start \in Starts : Len(start.names) <= MaxCategory
    /\ None \notin Keys \cup Movements

VARIABLES
    table,          \* which of the two tables this behaviour is about
    cats,           \* its rows
    lastId,
    filed,          \* movement |-> its category, which may be null
    job             \* what each worker is doing

vars == <<table, cats, lastId, filed, job>>

Name(key, spelling) == [key |-> key, spelling |-> spelling]
Names == [key : Keys, spelling : Spellings]
Category(id, name, default) == [id |-> id, name |-> name, default |-> default]
CategoryIds == 1..MaxCategory
CategoryRows == [id : CategoryIds, name : Names, default : BOOLEAN]

IsPredefined(name) == name.key \in DefaultKeys /\ name.spelling = Title

Idle == [op |-> "idle"]
Pending(op, by, asked) ==
    [op |-> op, by |-> by, asked |-> asked, cat |-> None, disturbed |-> FALSE]

TypeOK ==
    /\ table \in {"expense", "income"}
    /\ cats \subseteq CategoryRows
    /\ \A c, d \in cats : c.id = d.id \/ c.name = d.name => c = d
    /\ lastId \in 0..MaxCategory
    /\ \A m \in DOMAIN filed : filed[m] \in {c.id : c \in cats} \cup {None}

\* assign_default_categories, the signal of a new user; and what may be left
\* of older versions.
Init ==
    /\ \E start \in Starts :
         /\ table = start.table
         /\ cats = {Category(i, start.names[i], IsPredefined(start.names[i]))
                     : i \in DOMAIN start.names}
         /\ lastId = Len(start.names)
    /\ filed = <<>>
    /\ job = [w \in Workers |-> Idle]

-----------------------------------------------------------------------------
(* The table.                                                              *)

\* normalize_category_name
Normalize(name) == Name(name.key, Title)

\* name__iexact
Alike(name) == {c \in cats : c.name.key = name.key}
Taken(name) == \E c \in cats : c.name = name        \* unique_together

NewCategory(name, default) == cats \cup {Category(lastId + 1, name, default)}

\* on_delete=SET_NULL
Forget(ids) ==
    filed' = [m \in DOMAIN filed |->
                IF filed[m] \in ids THEN None ELSE filed[m]]

\* Requests that wait for the transaction of the command.
Locked == UNION {job[w].moved : w \in {x \in Workers : job[x].op = "moved"}}
Unlocked(ids) == \A m \in Locked : filed[m] \notin ids

Continue(w, state) == job' = [job EXCEPT ![w] = state]
End(w) == Continue(w, Idle)

\* Observed: a category was removed or renamed while w was at work.
Disturb(j) == [w \in Workers |->
                 IF "disturbed" \in DOMAIN j[w] THEN [j[w] EXCEPT !.disturbed = TRUE]
                 ELSE j[w]]

-----------------------------------------------------------------------------
(* The category endpoints.                                                 *)

\* validate_name
Validate(w, name) ==
    /\ job[w].op = "idle"
    /\ Alike(Normalize(name)) = {}
    /\ Continue(w, Pending("create", "client", Normalize(name)))
    /\ UNCHANGED <<table, cats, lastId, filed>>

\* One category of a list, each endpoint once for either table.
CreateExpenseCategory(w, name) == table = "expense" /\ Validate(w, name)
CreateIncomeCategory(w, name) == table = "income" /\ Validate(w, name)

\* An import first skips the names there are, as written.
ImportExpenseCategory(w, name) ==
    table = "expense" /\ ~Taken(name) /\ Validate(w, name)
ImportIncomeCategory(w, name) ==
    table = "income" /\ ~Taken(name) /\ Validate(w, name)

\* A name taken meanwhile raises IntegrityError.
SaveNew(w) ==
    /\ job[w].op = "create"
    /\ IF Taken(job[w].asked) THEN UNCHANGED <<cats, lastId>>
       ELSE /\ lastId < MaxCategory
            /\ cats' = NewCategory(job[w].asked, FALSE)
            /\ lastId' = lastId + 1
    /\ End(w)
    /\ UNCHANGED <<table, filed>>

\* update, bulk_update: the row as it was read, with a new name.
ValidateRename(w, c, name) ==
    /\ job[w].op = "idle"
    /\ Alike(Normalize(name)) \subseteq {c}
    /\ Continue(w, [Pending("rename", "client", Normalize(name)) EXCEPT !.cat = c])
    /\ UNCHANGED <<table, cats, lastId, filed>>

RenameExpenseCategory(w, c, name) == table = "expense" /\ ValidateRename(w, c, name)
RenameIncomeCategory(w, c, name) == table = "income" /\ ValidateRename(w, c, name)

\* save() inserts the row again if it is gone.
SaveRenamed(w) ==
    LET old == job[w].cat
        others == {c \in cats : c.id # old.id}
    IN  /\ job[w].op = "rename"
        /\ IF \E c \in others : c.name = job[w].asked THEN UNCHANGED cats
           ELSE cats' = others \cup {[old EXCEPT !.name = job[w].asked]}
        /\ job' = Disturb([job EXCEPT ![w] = Idle])
        /\ UNCHANGED <<table, lastId, filed>>

Remove(removed) ==
    /\ Unlocked({c.id : c \in removed})
    /\ cats' = cats \ removed
    /\ Forget({c.id : c \in removed})
    /\ job' = Disturb(job)
    /\ UNCHANGED <<table, lastId>>

\* ModelViewSet.destroy deletes any row; bulk_delete, one id after the other,
\* no predefined one.
Destroy(c) == Remove({c})
BulkDelete(c) == ~c.default /\ Remove({c})
DeleteExpenseCategories(c) == table = "expense" /\ BulkDelete(c)
DeleteIncomeCategories(c) == table = "income" /\ BulkDelete(c)

ResetToDefaults == Remove({c \in cats : ~c.default})
ResetExpenseCategories == table = "expense" /\ ResetToDefaults
ResetIncomeCategories == table = "income" /\ ResetToDefaults

-----------------------------------------------------------------------------
(* A movement and its category: get_or_create_user_expense_category and    *)
(* get_or_create_user_income_category.                                     *)

\* get(name__iexact): one, none, or MultipleObjectsReturned.
Get(w, by, name) ==
    LET found == Alike(Normalize(name))
        request == Pending("get", by, Normalize(name))
    IN  /\ job[w].op = "idle"
        /\ Continue(w,
             IF found = {} THEN [request EXCEPT !.op = "insert"]
             ELSE IF Cardinality(found) > 1 THEN [request EXCEPT !.op = "fallback"]
             ELSE [request EXCEPT !.op = "found", !.cat = (CHOOSE c \in found : TRUE).id])
        /\ UNCHANGED <<table, cats, lastId, filed>>

GetExpenseCategory(w, by, name) == table = "expense" /\ Get(w, by, name)
GetIncomeCategory(w, by, name) == table = "income" /\ Get(w, by, name)

\* objects.create; a name taken meanwhile is an exception like any other.
Insert(w) ==
    /\ job[w].op = "insert"
    /\ IF Taken(job[w].asked)
       THEN /\ Continue(w, [job[w] EXCEPT !.op = "fallback"])
            /\ UNCHANGED <<cats, lastId>>
       ELSE /\ lastId < MaxCategory
            /\ cats' = NewCategory(job[w].asked, FALSE)
            /\ lastId' = lastId + 1
            /\ Continue(w, [job[w] EXCEPT !.op = "found", !.cat = lastId + 1])
    /\ UNCHANGED <<table, filed>>

\* get_or_create by the exact name "Otros".
Fallback(w) ==
    LET otros == Name(Otros, Title)
        next == IF job[w].op = "fallback" THEN "found" ELSE "save"
    IN  /\ job[w].op \in {"fallback", "otros"}
        /\ IF Taken(otros)
           THEN /\ UNCHANGED <<cats, lastId>>
                /\ Continue(w, [job[w] EXCEPT !.op = next,
                                  !.cat = (CHOOSE c \in cats : c.name = otros).id])
           ELSE /\ lastId < MaxCategory
                /\ cats' = NewCategory(otros, FALSE)
                /\ lastId' = lastId + 1
                /\ Continue(w, [job[w] EXCEPT !.op = next, !.cat = lastId + 1])
        /\ UNCHANGED <<table, filed>>

ExpenseFallback(w) == table = "expense" /\ Fallback(w)
IncomeFallback(w) == table = "income" /\ Fallback(w)

\* Mutant: the tool takes the category it was given.
LookAgainNever(w) ==
    /\ job[w].op = "found" /\ job[w].by = "agent"
    /\ Continue(w, [job[w] EXCEPT !.op = "save"])
    /\ UNCHANGED <<table, cats, lastId, filed>>

\* The agent's tool looks the name up again; it files under "Otros" only if
\* there is none.
LookAgain(w) ==
    LET found == Alike(job[w].asked)
    IN  /\ job[w].op = "found" /\ job[w].by = "agent"
        /\ \/ \E c \in found :
                Continue(w, [job[w] EXCEPT !.op = "save", !.cat = c.id])
           \/ /\ found = {}
              /\ Continue(w, [job[w] EXCEPT !.op = "otros"])
        /\ UNCHANGED <<table, cats, lastId, filed>>

\* A category deleted meanwhile violates the foreign key: nothing is saved.
SaveMovement(w) ==
    /\ \/ job[w].op = "save"
       \/ job[w].op = "found" /\ job[w].by = "client"
    /\ IF job[w].cat \in {c.id : c \in cats}
       THEN \E m \in Movements \ DOMAIN filed :
              filed' = [n \in DOMAIN filed \cup {m} |->
                          IF n = m THEN job[w].cat ELSE filed[n]]
       ELSE UNCHANGED filed
    /\ End(w)
    /\ UNCHANGED <<table, cats, lastId>>

-----------------------------------------------------------------------------
(* The maintenance commands, each one transaction.                         *)

\* assign_default_categories_to_existing_users: what is missing among the
\* predefined; one name taken rolls the command back.
Missing == {k \in DefaultKeys :
              \A c \in cats : ~(c.default /\ c.name = Name(k, Title))}

AssignDefaults ==
    LET missing == Missing
        clash == \E k \in missing : Taken(Name(k, Title))
    IN  /\ missing # {}
        /\ lastId + Cardinality(missing) <= MaxCategory
        /\ IF clash THEN UNCHANGED <<cats, lastId>>
           ELSE \E number \in [missing -> lastId + 1..lastId + Cardinality(missing)] :
                  /\ \A j, k \in missing : number[j] = number[k] => j = k
                  /\ cats' = cats \cup {Category(number[k], Name(k, Title), TRUE)
                                          : k \in missing}
                  /\ lastId' = lastId + Cardinality(missing)
        /\ UNCHANGED <<table, filed, job>>

\* fix_duplicate_user_categories keeps the predefined one, else the oldest
\* (descriptions and examples, which break ties before age, are left out).
Better(c, d) == \/ c.default /\ ~d.default
                \/ c.default = d.default /\ c.id < d.id
Keep(key) ==
    LET group == {c \in cats : c.name.key = key}
    IN  CHOOSE c \in group : \A d \in group \ {c} : Better(c, d)

FindDuplicates(w) ==
    LET keys == {k \in Keys : Cardinality({c \in cats : c.name.key = k}) > 1}
    IN  /\ job[w].op = "idle" /\ keys # {}
        /\ \A x \in Workers : job[x].op \notin {"dedupe", "moved"}
        /\ Continue(w, [op |-> "dedupe", disturbed |-> FALSE,
                        keep |-> [k \in keys |-> Keep(k)],
                        remove |-> {c \in cats : c.name.key \in keys /\ c # Keep(c.name.key)}])
        /\ UNCHANGED <<table, cats, lastId, filed>>

\* update() moves the references there are; nobody sees it before the commit.
MoveReferences(w) ==
    LET ids == {c.id : c \in job[w].remove}
    IN  /\ job[w].op = "dedupe"
        /\ Continue(w, [op |-> "moved", disturbed |-> job[w].disturbed,
                        keep |-> job[w].keep, remove |-> job[w].remove,
                        moved |-> {m \in DOMAIN filed : filed[m] \in ids}])
        /\ UNCHANGED <<table, cats, lastId, filed>>

\* delete() and the commit, which fails if a category kept is gone.
RemoveDuplicates(w) ==
    LET kept == {job[w].keep[k].id : k \in DOMAIN job[w].keep}
        ids == {c.id : c \in job[w].remove}
        OldKey(id) == (CHOOSE c \in job[w].remove : c.id = id).name.key
        New(m) == IF filed[m] \notin ids THEN filed[m]
                  ELSE IF m \in job[w].moved
                  THEN job[w].keep[OldKey(filed[m])].id ELSE None
        after == [m \in DOMAIN filed |-> New(m)]
        left == {c \in cats : c.id \notin ids}
    IN  /\ job[w].op = "moved"
        /\ IF \A m \in DOMAIN filed : after[m] \in {c.id : c \in left} \cup {None}
           THEN cats' = left /\ filed' = after
           ELSE UNCHANGED <<cats, filed>>
        /\ job' = Disturb([job EXCEPT ![w] = Idle])
        /\ UNCHANGED <<table, lastId>>

-----------------------------------------------------------------------------
Request(w) ==
    \/ \E name \in Asked :
         \/ CreateExpenseCategory(w, name) \/ CreateIncomeCategory(w, name)
         \/ ImportExpenseCategory(w, name) \/ ImportIncomeCategory(w, name)
         \/ \E c \in cats :
              RenameExpenseCategory(w, c, name) \/ RenameIncomeCategory(w, c, name)
         \/ \E by \in {"agent", "client"} :
              GetExpenseCategory(w, by, name) \/ GetIncomeCategory(w, by, name)
    \/ SaveNew(w) \/ SaveRenamed(w) \/ Insert(w)
    \/ ExpenseFallback(w) \/ IncomeFallback(w)
    \/ LookAgain(w) \/ SaveMovement(w)

Clean(w) == FindDuplicates(w) \/ MoveReferences(w) \/ RemoveDuplicates(w)

Next ==
    \/ \E w \in Workers : Request(w) \/ Clean(w)
    \/ \E c \in cats :
         Destroy(c) \/ DeleteExpenseCategories(c) \/ DeleteIncomeCategories(c)
    \/ ResetExpenseCategories \/ ResetIncomeCategories
    \/ AssignDefaults

Spec == Init /\ [][Next]_vars

-----------------------------------------------------------------------------
KeysOf(set) == {c.name.key : c \in set}
KeyOf(id) == (CHOOSE c \in cats : c.id = id).name.key

\* However requests overlap, none gives the user a second category of a name
\* whatever its capitals; the database only refuses a name spelled alike.
NameIsNew ==
    \A c \in cats' \ cats :
      \/ c.name.key \notin KeysOf({d \in cats : d.id # c.id})
      \/ AssignDefaults

\* What the agent records goes under the name it asked for, also when two
\* messages create the category at once and when the user has two of that name,
\* unless a category was deleted or renamed in the meantime.
FiledAsAsked ==
    \A w \in Workers :
      (/\ SaveMovement(w) /\ filed' # filed
       /\ job[w].by = "agent" /\ ~job[w].disturbed)
         => KeyOf(job[w].cat) = job[w].asked.key

\* Cleaning duplicates takes no name from the user, no predefined category from
\* its name, and no name from a movement it found under one of them.
NamesKept ==
    \A w \in Workers :
      (RemoveDuplicates(w) /\ ~job[w].disturbed)
         => /\ KeysOf(cats') = KeysOf(cats)
            /\ KeysOf({c \in cats' : c.default}) = KeysOf({c \in cats : c.default})
            /\ \A m \in job[w].moved : KeyOf(filed[m])' = KeyOf(filed[m])

\* The names of the user's categories, one by one and of every movement.
CategoriesHold == [][NameIsNew /\ FiledAsAsked /\ NamesKept]_vars

-----------------------------------------------------------------------------
(* What is not kept (see the README): no run checks these.                 *)

\* Nothing a client records lands in "Otros" when it asked for another name.
ClientFilesAsAsked ==
    [][\A w \in Workers :
         (SaveMovement(w) /\ filed' # filed /\ ~job[w].disturbed)
            => KeyOf(job[w].cat) = job[w].asked.key]_vars

\* A category deleted does not come back by itself.
DeletedStaysDeleted ==
    [][\A w \in Workers : SaveRenamed(w)
         => {c.id : c \in cats'} \subseteq {c.id : c \in cats}]_vars

\* Cleaning leaves no movement without the category it had.
CleaningKeepsCategories ==
    [][\A w \in Workers : RemoveDuplicates(w)
         => \A m \in DOMAIN filed : filed[m] # None => filed'[m] # None]_vars

\* The command can assign the predefined categories a user is without.
CommandCanAssign == \A k \in Missing : ~Taken(Name(k, Title))
=============================================================================
