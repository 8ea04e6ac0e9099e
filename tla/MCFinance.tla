----------------------------- MODULE MCFinance -----------------------------
(* Instances of Finance for TLC. *)
EXTENDS Finance, TLC

CONSTANTS w1, w2, may, june, c50, c62, c91, i1

MCWorkers == {w1, w2}
MCMonths == {may, june}
MCCodes == {c50, c62, c91}
MCSystemCodes == {c50, c91}
MCInvoices == {i1}

AllBookOperations == {"create", "post", "auto", "cash", "close", "account", "pay"}

FinanceSymmetry == Permutations(MCWorkers)
=============================================================================
