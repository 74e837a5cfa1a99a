----------------------------- MODULE MCBackend -----------------------------
(***************************************************************************)
(* Two request threads, one vehicle and one session; operators u and w of  *)
(* account a, and n, whom the backend does not know until a request of his *)
(* creates his user and account.                                           *)
(***************************************************************************)
EXTENDS Backend, TLC

CONSTANTS a, b, u, w, n

AccountOfEach == [x \in Subs |-> IF x = n THEN b ELSE a]
AskedByEach ==
  [x \in Subs |-> CASE x = u -> {"add", "remove", "create", "lock"}
                    [] x = w -> {"remove", "lock"}
                    [] x = n -> {"list", "lock"}]
Symmetry == Permutations(Threads)
=============================================================================
