------------------------------ MODULE MCPayment ------------------------------
(* Small instances of module Payment. *)
EXTENDS Payment, TLC

\* all transactions pay for one booking
OneBooking == [t \in Txn |-> CHOOSE b \in Booking : TRUE]

\* the workers are interchangeable
WorkerSymmetry == Permutations(Worker)
=============================================================================
