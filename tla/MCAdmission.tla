---------------------------- MODULE MCAdmission ----------------------------
(* Small instances of Admission for TLC.                                   *)
EXTENDS Admission, TLC

CONSTANTS k1, k2

\* One key with a cap and one without, both under the global cap.
MCLimit == (k1 :> 2) @@ (k2 :> NoLimit)

\* One of each class: defaulted, permanent, 0, negative, above MaxDays.
MCTerms == {Omitted, Never, 0, -1, 2}

Symmetry == Permutations(Requests) \cup Permutations(Calls)
=============================================================================
