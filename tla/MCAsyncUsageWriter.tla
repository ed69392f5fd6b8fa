-------------------------- MODULE MCAsyncUsageWriter --------------------------
(* A small instance of AsyncUsageWriter for TLC.  Records are numbers. *)
EXTENDS AsyncUsageWriter

\* A record's number is the order in which its request reaches Enqueue.  Records are
\* interchangeable, so no behaviour is lost but for the names.
NumberedOnArrival ==
    \A r \in Records : producer[r] = "new" /\ producer'[r] # "new" =>
        \A q \in Records : q < r => producer[q] # "new"
=============================================================================
