----------------------------- MODULE MCBaseApp -----------------------------
EXTENDS BaseApp

CONSTANTS a, b

tx(f, s, to, bad, need) ==
    [from |-> f, seq |-> s, decodes |-> TRUE, wellFormed |-> TRUE, msgs |-> to,
     fails |-> bad, need |-> need, limit |-> 2]

\* Two transactions of one sender in sequence, the messages of the second of
\* which fail, one of another sender, one that ValidateBasic refuses and one that
\* does not decode.
MCTxs ==
    {tx(a, 0, {b}, FALSE, 1), tx(a, 1, {a, b}, TRUE, 1), tx(b, 0, {a}, FALSE, 0),
     [tx(b, 1, {a}, FALSE, 1) EXCEPT !.wellFormed = FALSE],
     [tx(b, 2, {a}, FALSE, 1) EXCEPT !.wellFormed = FALSE, !.decodes = FALSE]}
=============================================================================
