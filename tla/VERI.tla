------------------------------- MODULE VERI -------------------------------
(***************************************************************************)
(* The VERI token (contracts/VERI.sol): ERC20 + ERC20Burnable + Ownable.   *)
(*                                                                         *)
(* Only mint() and the constructor are VERI's own code; transfer, approve, *)
(* transferFrom, burn and burnFrom are OpenZeppelin's, whose source is not *)
(* in the repository: they are modelled from the way VERI and the arbiter  *)
(* use them (a call that reverts is a disabled action).  The zero address  *)
(* is no member of Address: OpenZeppelin reverts on it.                    *)
(***************************************************************************)
EXTENDS Integers

CONSTANTS
    Address,       \* the accounts that can hold tokens
    Owner,         \* Ownable's owner, who also receives the initial mint
    Spenders,      \* bound: the accounts approvals are given to
    Amounts,       \* bound: the amounts calls are made with
    MAX_SUPPLY,
    INITIAL_MINT,
    Unlimited      \* type(uint256).max: an allowance that is never spent

VARIABLES
    balanceOf,     \* Address -> tokens held
    allowance,     \* Address -> spender -> tokens it may still take
    totalSupply

tokenVars == <<balanceOf, allowance, totalSupply>>

Init ==
    /\ balanceOf = [a \in Address |-> IF a = Owner THEN INITIAL_MINT ELSE 0]
    /\ allowance = [a \in Address |-> [s \in Address |-> 0]]
    /\ totalSupply = INITIAL_MINT

----------------------------------------------------------------------------
(* Move and SpendAllowance are the guards and effects the calls share.     *)

Move(from, to, amount) ==
    /\ amount <= balanceOf[from]
    /\ balanceOf' = [balanceOf EXCEPT ![from] = @ - amount,
                                      ![to] = @ + amount]

SpendAllowance(holder, spender, amount) ==
    \/ /\ allowance[holder][spender] = Unlimited
       /\ UNCHANGED allowance
    \/ /\ allowance[holder][spender] # Unlimited
       /\ amount <= allowance[holder][spender]
       /\ allowance' = [allowance EXCEPT ![holder][spender] = @ - amount]

Transfer(sender, to, amount) ==
    /\ Move(sender, to, amount)
    /\ UNCHANGED <<allowance, totalSupply>>

Approve(sender, spender, amount) ==
    /\ allowance' = [allowance EXCEPT ![sender][spender] = amount]
    /\ UNCHANGED <<balanceOf, totalSupply>>

TransferFrom(sender, from, to, amount) ==
    /\ SpendAllowance(from, sender, amount)
    /\ Move(from, to, amount)
    /\ UNCHANGED totalSupply

Destroy(holder, amount) ==
    /\ amount <= balanceOf[holder]
    /\ balanceOf' = [balanceOf EXCEPT ![holder] = @ - amount]
    /\ totalSupply' = totalSupply - amount

Burn(sender, amount) ==
    /\ Destroy(sender, amount)
    /\ UNCHANGED allowance

BurnFrom(sender, holder, amount) ==
    /\ SpendAllowance(holder, sender, amount)
    /\ Destroy(holder, amount)

(* Mutant: the cap is compared with the supply before the mint. *)
Mint_CapBefore(sender, to, amount) ==
    /\ sender = Owner
    /\ totalSupply <= MAX_SUPPLY
    /\ totalSupply' = totalSupply + amount
    /\ balanceOf' = [balanceOf EXCEPT ![to] = @ + amount]
    /\ UNCHANGED allowance

Mint(sender, to, amount) ==
    /\ sender = Owner
    /\ totalSupply + amount <= MAX_SUPPLY
    /\ totalSupply' = totalSupply + amount
    /\ balanceOf' = [balanceOf EXCEPT ![to] = @ + amount]
    /\ UNCHANGED allowance

----------------------------------------------------------------------------
(* Every call `sender` can make to the token contract.                     *)
Call(sender) ==
    \E amount \in Amounts :
        \/ \E to \in Address : Transfer(sender, to, amount)
        \/ \E spender \in Spenders : Approve(sender, spender, amount)
        \/ \E from, to \in Address : TransferFrom(sender, from, to, amount)
        \/ Burn(sender, amount)
        \/ \E holder \in Address : BurnFrom(sender, holder, amount)
        \/ \E to \in Address : Mint(sender, to, amount)
=============================================================================
