---------------------- MODULE MCSupplierCollaboration ----------------------
(* Small instances of SupplierCollaboration for TLC. *)
EXTENDS SupplierCollaboration, TLC

\* All targets are modules of one company.
OneCompany == [t \in Targets |-> "company"]

\* The ids 1, 2 and 12: of three collaborations the first and the last are mixed up.
OneTwoTwelve == {<<1, 1>>, <<2, 2>>, <<3, 3>>, <<1, 3>>}

\* Clients are interchangeable, and so are targets.
SupplierSymmetry == Permutations(Clients) \cup Permutations(Targets)

============================================================================
