-------------------------- MODULE MCQuoteAdapter ---------------------------
(* Codes and calls are interchangeable, and only safety is checked.          *)
EXTENDS QuoteAdapter, TLC

Symmetry == Permutations(Codes) \union Permutations(Calls)
=============================================================================
