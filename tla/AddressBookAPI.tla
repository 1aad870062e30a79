---------------------------- MODULE AddressBookAPI ----------------------------
(***************************************************************************)
(* What the abstract and the detailed address book share: the requests the  *)
(* HTTP handlers of internal/server/app.go accept, the replies they write,  *)
(* and the entries of a book.  address stands for the two free-text fields, *)
(* address and remark, which are trimmed and copied together.               *)
(***************************************************************************)
EXTENDS Integers, FiniteSets, RawText

CONSTANTS
  Handlers,   \* goroutines of net/http, each serving one request at a time
  Wallets,    \* values of the X-Wallet-Address header
  Spellings,  \* chain names as clients write them
  Addresses,  \* addresses as clients write them
  IDs,        \* values of "id" in update and delete requests
  MaxID,      \* bound: ids handed out in one life of the process
  MaxTime     \* bound: the last second of the clock

ASSUME InputsAreRaw ==
  /\ Wallets \subseteq Raw
  /\ Spellings \subseteq Raw
  /\ Addresses \subseteq Raw

\* At any instant a process has finitely many goroutines.
ASSUME HandlersAreFinite == IsFiniteSet(Handlers)

ASSUME NumbersAreNumbers ==
  /\ IDs \subseteq Int
  /\ MaxID \in Nat
  /\ MaxTime \in Nat

Users == {UserIDForWallet(w) : w \in Wallets}
Chains == {NormalizeChain(s) : s \in Spellings}

-----------------------------------------------------------------------------
(* Requests.  A field a request does not have holds Go's zero value; binds  *)
(* is FALSE when ShouldBindJSON fails on the body.                          *)

Ops == {"List", "Create", "Update", "Delete"}

Request ==
  [op : Ops, wallet : Raw, id : Int, address : Raw, chain : Raw,
   isDefault : BOOLEAN, binds : BOOLEAN]

NoRequest ==
  [op |-> "List", wallet |-> Absent, id |-> 0, address |-> Absent,
   chain |-> Absent, isDefault |-> FALSE, binds |-> TRUE]

ListRequests ==
  [op : {"List"}, wallet : Wallets, id : {0}, address : {Absent},
   chain : Spellings, isDefault : {FALSE}, binds : {TRUE}]

CreateRequests ==
  [op : {"Create"}, wallet : Wallets, id : {0}, address : Addresses,
   chain : Spellings, isDefault : BOOLEAN, binds : {TRUE}]

UpdateRequests ==
  [op : {"Update"}, wallet : Wallets, id : IDs, address : Addresses,
   chain : Spellings, isDefault : BOOLEAN, binds : {TRUE}]

DeleteRequests ==
  [op : {"Delete"}, wallet : Wallets, id : IDs, address : {Absent},
   chain : {Absent}, isDefault : {FALSE}, binds : {TRUE}]

UnboundRequests ==
  [op : Ops \ {"List"}, wallet : Wallets, id : {0}, address : {Absent},
   chain : {Absent}, isDefault : {FALSE}, binds : {FALSE}]

Requests ==
  ListRequests \cup CreateRequests \cup UpdateRequests \cup DeleteRequests
    \cup UnboundRequests

\* The checks made before the store's mutex is taken: the wallet header, the
\* JSON body, then the arguments of Create, Update and Delete.
Invalid(r) ==
  \/ IsBlank(r.wallet)
  \/ ~r.binds
  \/ r.op \in {"Update", "Delete"} /\ r.id <= 0
  \/ r.op \in {"Create", "Update"} /\ (IsBlank(r.address) \/ IsBlank(r.chain))

UserOf(r) == UserIDForWallet(r.wallet)

\* List keeps an item when no chain is asked for, or the item is on it.
OnListedChain(r, chain) ==
  NormalizeChain(r.chain) \in {"", NormalizeChain(chain)}

-----------------------------------------------------------------------------
(* Replies *)

Item ==
  [id : Int, userID : Users, address : Raw, chain : Raw, isDefault : BOOLEAN,
   createdAt : Nat, updatedAt : Nat]

Errors == {"none", "invalid", "not found"}

Reply(err, list) == [err |-> err, list |-> list]

NoReply == Reply("none", <<>>)

=============================================================================
