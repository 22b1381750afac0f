------------------------------- MODULE Token -------------------------------
(***************************************************************************)
(* eosio.token: create, issue, retire, transfer, open and close, over the  *)
(* tables stat and accounts.  A symbol is a code with a precision; the     *)
(* tables are keyed by the code alone, so each action checks the           *)
(* precision, or relies on one that did.                                   *)
(*                                                                         *)
(* Memos, notifications and who pays for the RAM of a row are left out;    *)
(* the authority an action requires is that of the account it acts for.    *)
(***************************************************************************)
EXTENDS Integers, FiniteSets, Sums

CONSTANTS
    Owners,        \* the accounts of the chain
    Codes,         \* symbol codes
    Precisions,    \* precisions of symbols
    Amounts        \* the amounts of quantities; at most asset::max_amount

ASSUME TokenAssumption == /\ IsFiniteSet(Owners)
                          /\ Amounts \subseteq Int

VARIABLES
    created,                      \* stat: codes with a row
    precision, max_supply, issuer, supply,   \* stat
    rows,                         \* accounts: codes and owners with a row
    rowPrecision, amount          \* accounts: the precision and the amount of the balance

stat      == <<created, precision, max_supply, issuer>>
accounts  == <<rows, rowPrecision, amount>>
tokenVars == <<stat, supply, accounts>>

TokenTypeOK ==
    /\ created \subseteq Codes
    /\ precision \in [Codes -> Precisions] /\ issuer \in [Codes -> Owners]
    /\ max_supply \in [Codes -> Nat] /\ supply \in [Codes -> Nat]
    /\ rows \subseteq Codes \X Owners
    /\ rowPrecision \in [Codes \X Owners -> Precisions]
    /\ amount \in [Codes -> [Owners -> Nat]]

TokenInit ==
    /\ created = {}
    /\ precision \in [Codes -> Precisions] /\ issuer \in [Codes -> Owners]   \* read once created
    /\ max_supply = [c \in Codes |-> 0] /\ supply = [c \in Codes |-> 0]
    /\ rows = {}
    /\ rowPrecision = [x \in Codes \X Owners |-> precision[x[1]]]            \* read with a row
    /\ amount = [c \in Codes |-> [a \in Owners |-> 0]]
-----------------------------------------------------------------------------
create(who, c, p, max) ==
    /\ max > 0
    /\ c \notin created
    /\ created' = created \cup {c}
    /\ precision' = [precision EXCEPT ![c] = p]
    /\ max_supply' = [max_supply EXCEPT ![c] = max]
    /\ issuer' = [issuer EXCEPT ![c] = who]
    /\ supply' = [supply EXCEPT ![c] = 0]
    /\ UNCHANGED accounts

\* mutant: the precision of the quantity is not checked
AnyPrecision(c, p) == c \in created
\* The token exists and has the precision of the quantity.
IsSymbol(c, p) == c \in created /\ p = precision[c]

\* add_balance and sub_balance, on the balances of one code.  An asset of another precision
\* cannot be added or subtracted.
CanAdd(c, p, to) == <<c, to>> \in rows => rowPrecision[<<c, to>>] = p
AddRow(c, p, to) == /\ rows' = rows \cup {<<c, to>>}
                    /\ rowPrecision' = IF <<c, to>> \in rows THEN rowPrecision ELSE [rowPrecision EXCEPT ![<<c, to>>] = p]

CanSub(c, p, from, q) == <<c, from>> \in rows /\ rowPrecision[<<c, from>>] = p /\ amount[c][from] >= q

\* What may still be issued.
Available(c, q) == q <= max_supply[c] - supply[c]

issue(c, p, q) ==
    LET to == issuer[c]
    IN  /\ IsSymbol(c, p) /\ q > 0 /\ Available(c, q)
        /\ CanAdd(c, p, to)
        /\ supply' = [supply EXCEPT ![c] = supply[c] + q]
        /\ amount' = [amount EXCEPT ![c] = [amount[c] EXCEPT ![to] = amount[c][to] + q]]
        /\ AddRow(c, p, to)
        /\ UNCHANGED stat

retire(c, p, q) ==
    LET from == issuer[c]
    IN  /\ IsSymbol(c, p) /\ q > 0
        /\ CanSub(c, p, from, q)
        /\ supply' = [supply EXCEPT ![c] = supply[c] - q]
        /\ amount' = [amount EXCEPT ![c] = [amount[c] EXCEPT ![from] = amount[c][from] - q]]
        /\ UNCHANGED <<stat, rows, rowPrecision>>

\* The balances of one code after a transfer: from is written before to is read.
Moved(balances, from, to, q) ==
    LET debited == [balances EXCEPT ![from] = balances[from] - q]
    IN  [debited EXCEPT ![to] = debited[to] + q]

transfer(from, to, c, p, q) ==
    /\ from # to
    /\ IsSymbol(c, p) /\ q > 0
    /\ CanSub(c, p, from, q) /\ CanAdd(c, p, to)
    /\ amount' = [amount EXCEPT ![c] = Moved(amount[c], from, to, q)]
    /\ AddRow(c, p, to)
    /\ UNCHANGED <<stat, supply>>

open(owner, c, p) ==
    /\ IsSymbol(c, p)
    /\ AddRow(c, p, owner)
    /\ UNCHANGED <<stat, supply, amount>>

\* mutant: a row is closed whatever it holds
CanCloseAny(owner, c) == <<c, owner>> \in rows
CanClose(owner, c) == <<c, owner>> \in rows /\ amount[c][owner] = 0
\* A row is gone with its balance.
close(owner, c) ==
    /\ CanClose(owner, c)
    /\ rows' = rows \ {<<c, owner>>}
    /\ amount' = [amount EXCEPT ![c] = [amount[c] EXCEPT ![owner] = 0]]
    /\ UNCHANGED <<stat, supply, rowPrecision>>

Create   == \E a \in Owners, c \in Codes, p \in Precisions, q \in Amounts : create(a, c, p, q)
Issue    == \E c \in Codes, p \in Precisions, q \in Amounts : issue(c, p, q)
Retire   == \E c \in Codes, p \in Precisions, q \in Amounts : retire(c, p, q)
Transfer == \E from, to \in Owners, c \in Codes, p \in Precisions, q \in Amounts : transfer(from, to, c, p, q)
Open     == \E a \in Owners, c \in Codes, p \in Precisions : open(a, c, p)
Close    == \E a \in Owners, c \in Codes : close(a, c)

TokenNext == Create \/ Issue \/ Retire \/ Transfer \/ Open \/ Close

TokenSpec == TokenInit /\ [][TokenNext]_tokenVars
-----------------------------------------------------------------------------
\* The supply of a token is what its balances add up to, and never above the maximum: nothing is
\* made or lost by transfers, by rows created and erased, or by amounts in another precision.
SupplyIsHeld == \A c \in Codes : supply[c] = SumOver(amount[c]) /\ supply[c] <= max_supply[c]

\* Every balance row belongs to a token and has its precision, although the tables are keyed by
\* the code only and close checks no precision: a row of the wrong precision could neither
\* receive nor spend.  A balance without a row is 0.
RowsMatchToken == \A c \in Codes, a \in Owners :
    IF <<c, a>> \in rows THEN c \in created /\ rowPrecision[<<c, a>>] = precision[c]
                         ELSE amount[c][a] = 0
=============================================================================
