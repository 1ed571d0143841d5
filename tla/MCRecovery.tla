----------------------------- MODULE MCRecovery -----------------------------
(* Recovery with the workloads that a small instance can hold. *)
EXTENDS Recovery

W(d, t, n, k) == [does |-> d, txns |-> t, lsns |-> n, kills |-> k]

MCWorkloads ==
    {W({"insert", "grow", "read", "ckpt"}, 2, 5, 1),
     W({"insert", "grow", "delete", "ckpt"}, 1, 6, 1),
     W({"insert", "grow", "ckpt"}, 1, 4, 2),
     W({"insert", "delete", "vacuum"}, 3, 7, 1),
     W({"seq", "read"}, 2, 3, 1),
     W({"seq", "read", "ckpt"}, 1, 3, 1)}
=============================================================================
