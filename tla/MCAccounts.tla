------------------------------ MODULE MCAccounts ------------------------------
(***************************************************************************)
(* LoginSession, PaidRegistration, Billing, QuestionBank and               *)
(* QuestionImport: a behaviour is one of one of them, so that their states *)
(* are added and not multiplied.  The first three share no state; an       *)
(* import works on the question bank, and runs here beside its staff but   *)
(* not beside its exams and its approval queue.                            *)
(***************************************************************************)
EXTENDS LoginSession, PaidRegistration, Billing, QuestionImport, TLC

\* The actors of all parts are {a1, a2}; sessions, orders, invoices and questions {i1, i2}
CONSTANTS a1, a2, i1, i2, j1, j2

VARIABLE part

\* Beside an import, the staff begins up to two operations.  A mobile number
\* has the name of its registration.
AccountsInit ==
    /\ part \in {"login", "registration", "billing", "bank", "import"}
    /\ Init /\ RegistrationInit /\ BillingInit /\ ImportInit
    /\ tasks = CASE part = "bank" -> MaxTasks [] part = "import" -> 2 [] OTHER -> 0
    /\ part \in {"bank", "import"} \/ \A q \in Questions : question[q] = "NONE"
    /\ \A g \in Registrations : mobile[g] = g

\* Beside a second registration nothing crashes and no request about one
\* registration disturbs another about the same
AccountsNext ==
    \/ /\ part = "login" /\ Next
       /\ UNCHANGED <<part, registrationVars, billingVars, importerVars>>
    \/ /\ part = "registration" /\ RegistrationNext
       /\ Cardinality(used') > 1 => crashes' = 0 /\ disturbed' = {}
       /\ UNCHANGED <<part, vars, billingVars, importerVars>>
    \/ /\ part = "billing" /\ BillingNext
       /\ UNCHANGED <<part, vars, registrationVars, importerVars>>
    \/ /\ part = "bank" /\ BankNext
       /\ UNCHANGED <<part, vars, registrationVars, billingVars, importVars>>
    \/ /\ part = "import" /\ ImportNext /\ UNCHANGED <<listed, queued>>
       /\ UNCHANGED <<part, vars, registrationVars, billingVars>>

AccountsSpec ==
    AccountsInit
    /\ [][AccountsNext]_<<part, vars, registrationVars, billingVars, importerVars>>

\* Within the part a behaviour is about, these are interchangeable
AccountsSymmetry == Permutations({a1, a2}) \cup Permutations({i1, i2}) \cup Permutations({j1, j2})

\* The rows and the local variables of every part have values of their types
AccountsTypeOK == TypeOK /\ RegistrationTypeOK /\ BillingTypeOK /\ ImportTypeOK
=============================================================================
