----------------------------- MODULE SearchPromise -----------------------------
(***************************************************************************)
(* What a search tool promises its caller, whatever the upstream does: it  *)
(* concludes once, either as failed or with exactly the text, the sources  *)
(* and the price of an answer the upstream finished; it never passes off   *)
(* an announcement of work as an answer; it reports each search call it    *)
(* hears of once, while it works and never after.                          *)
(***************************************************************************)
EXTENDS Naturals, FiniteSets

CONSTANT MaxContinuations

VARIABLES
    said,       \* what the upstream has said in the response being read
    paid,       \* tokens of the earlier responses of this search
    asked,      \* continuations asked for
    reported,   \* progress notifications
    status,     \* "pending", "failed" or "answered"
    answer      \* the answer returned

promiseVars == <<said, paid, asked, reported, status, answer>>

Nothing == [finished |-> FALSE, announces |-> FALSE, text |-> <<>>, sources |-> {}, tokens |-> 0,
            calls |-> {}]

NoAnswer == [text |-> <<>>, sources |-> {}, tokens |-> 0]

PromiseInit ==
    /\ said = Nothing
    /\ paid = 0 /\ asked = 0 /\ reported = 0
    /\ status = "pending"
    /\ answer = NoAnswer

\* The upstream goes on; a search call it had not mentioned is reported.
Hear ==
    /\ status = "pending"
    /\ said.calls \subseteq said'.calls
    /\ reported' = reported + Cardinality(said'.calls) - Cardinality(said.calls)
    /\ UNCHANGED <<paid, asked, status, answer>>

\* A finished answer that only announces work is paid for and sent back.
AskAgain ==
    /\ status = "pending"
    /\ said.finished /\ said.announces
    /\ asked < MaxContinuations /\ asked' = asked + 1
    /\ paid' = paid + said.tokens
    /\ said' = Nothing
    /\ UNCHANGED <<reported, status, answer>>

Conclude ==
    /\ status = "pending" /\ status' = "answered"
    /\ said.finished /\ ~said.announces /\ said.text # <<>>
    /\ paid' = paid + said.tokens
    /\ answer' = [text |-> said.text, sources |-> said.sources, tokens |-> paid']
    /\ said' = Nothing
    /\ UNCHANGED <<asked, reported>>

GiveUp ==
    /\ status = "pending" /\ status' = "failed"
    /\ said' = Nothing
    /\ paid' \in {paid, paid + said.tokens}
    /\ UNCHANGED <<asked, reported, answer>>

PromiseNext == Hear \/ AskAgain \/ Conclude \/ GiveUp

PromiseSpec == PromiseInit /\ [][PromiseNext]_promiseVars
=============================================================================
