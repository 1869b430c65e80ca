---------------------------- MODULE MCTapManager ----------------------------
(* Instances of TapManager for TLC. *)
EXTENDS TapManager

CONSTANTS t1, t2, ticker, netlink

TwoTaps == {t1, t2}
Both == {ticker, netlink}
\* The ticker by itself with interfaces that come and go long enough for two taps to have one index; the ticker
\* with more requests and faults; and the two refreshers at once with one step less of each.
AloneAndBoth == {[refreshers |-> {ticker}, host |-> 0, asks |-> 1, faults |-> 1],
                 [refreshers |-> {ticker}, host |-> 2, asks |-> 0, faults |-> 0],
                 [refreshers |-> Both, host |-> 3, asks |-> 1, faults |-> 1]}

=============================================================================
