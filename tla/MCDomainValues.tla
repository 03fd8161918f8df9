------------------------------ MODULE MCDomainValues ------------------------------
(* An instance of DomainValues for TLC.                                    *)
EXTENDS DomainValues

CONSTANTS USD, NGN

(* Amounts about the limits and the ties of rounding, and some that no     *)
(* amount is.                                                              *)
MCInputs == {-1000, 700, 100500, 300500, 300501, NaN, Infinity, Huge}

(* Percentages at and beyond the bounds, and one that makes ties.          *)
MCPercentages == {-1, 50, 100, 101, NaN, Huge}

(* Limits that are not whole cents.                                        *)
MCDefaultPolicy == [minAmount |-> 100500, maxAmountByCurrency |-> [c \in {USD, NGN} |-> 200000]]

(* Only the maximum of one currency is configured.                         *)
MCOverride == [maxAmountByCurrency |-> [c \in {USD} |-> 300500]]

MCEntryAmounts == {4, 15}
===================================================================================
