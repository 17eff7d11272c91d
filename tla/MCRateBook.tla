----------------------------- MODULE MCRateBook -----------------------------
(* Edge factories for RateBook: graphs that are good, that lack a route, that
   have a profitable cycle or a zero rate, and a factory that raises, in every
   order of three versions. *)
EXTENDS RateBook

Hop(source, target, lp, rate) ==
    [source |-> source, target |-> target, lp |-> lp, rate |-> rate]

Direct == {Hop(USD, PHP, 1, 5), Hop(USD, PHP, 2, 5), Hop(USD, EUR, 3, 1)}
Detour == {Hop(USD, PHP, 1, 5), Hop(USD, USDC, 2, 0), Hop(USDC, PHP, 3, 6)}
Cycle == {Hop(USD, EUR, 1, 2), Hop(EUR, USD, 2, -1), Hop(USD, PHP, 1, 5)}
Zero == {Hop(USD, PHP, 1, 5), Hop(EUR, USDC, 1, InvalidRate)}

Injected == [1..3 -> {Direct, Detour, Cycle, Zero, RaisesError}]
=============================================================================
