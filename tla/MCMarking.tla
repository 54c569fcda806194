----------------------------- MODULE MCMarking -----------------------------
(***************************************************************************)
(* Small papers: every type of question that the marking knows, with and   *)
(* without a penalty of its own, one of them with a penalty below zero as  *)
(* an imported paper may have it, and every answer that a client can send  *)
(* for one of them, of the right kind or not.  SeededQuestions have the    *)
(* codes of the question types that 01-master-data.seeder.ts writes.       *)
(***************************************************************************)
EXTENDS Marking

NoKey == [kind |-> "none", low |-> 0, high |-> 0]

Question(code, type, correct, key, subject, penalty, hard, spent) ==
    [code |-> code, type |-> type, correct |-> correct, key |-> key, subject |-> subject,
     marks |-> Default, penalty |-> penalty, hard |-> hard, spent |-> spent]

MarkedQuestions ==
    {Question("SCQ", "SINGLE_CORRECT", {1}, NoKey, "physics", Default, FALSE, 0),
     Question("MCQ", "MULTIPLE_CORRECT", {1, 2}, NoKey, "physics", 0, TRUE, 20),
     Question("MCQ", "MULTIPLE_CORRECT", {1, 2}, NoKey, "biology", 2, FALSE, 100),
     Question("NUM", "NUMERICAL", {}, [kind |-> "exact", low |-> 3, high |-> 3],
              "biology", -1, TRUE, 100),
     Question("NUM", "NUMERICAL", {}, [kind |-> "range", low |-> 2, high |-> 4],
              "physics", Default, FALSE, 0)}

SeededQuestions ==
    {Question("SINGLE_CORRECT", "SINGLE_CORRECT", {1}, NoKey, "physics", Default, FALSE, 20),
     Question("none", "SINGLE_CORRECT", {1}, NoKey, "physics", Default, FALSE, 20)}

Sent(option, list, number) == [option |-> option, list |-> list, number |-> number]

SentAnswers ==
    {Sent(NoOption, NoList, NoNumber), Sent(1, NoList, NoNumber), Sent(2, NoList, NoNumber),
     Sent(NoOption, {}, NoNumber), Sent(NoOption, {1}, NoNumber), Sent(NoOption, {1, 2}, NoNumber),
     Sent(NoOption, NoList, 3), Sent(NoOption, NoList, 0)}
=============================================================================
