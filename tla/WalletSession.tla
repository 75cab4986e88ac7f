--------------------------- MODULE WalletSession ---------------------------
(***************************************************************************)
(* The wallet session of a browser tab (wallet-provider.tsx): what the     *)
(* pages believe of the wallet, account and network, against what the      *)
(* wallet exposes.  The answers of the wallet to eth_accounts,             *)
(* eth_requestAccounts and eth_chainId are used after an await, and events *)
(* of the wallet arrive in between, so that an answer can overwrite        *)
(* something newer.  A dismissed session is remembered in localStorage.    *)
(***************************************************************************)
EXTENDS PageAccounts

Chains == {"sepolia", "other"}
Pending == "pending"      \* a request that is not answered yet

ASSUME PendingAssumption == Pending \notin MaybeAccount

VARIABLES
  exposed, walletChain,          \* the wallet: its account for this site, its network
  account, chainId, dismissed,   \* the session; dismissed is in localStorage too
  sync,       \* the snapshot taken when the page was loaded, or NoSync
  request     \* the request that waits in the wallet, or NoRequest

walletVars == <<exposed, walletChain>>
sessionVars == <<account, chainId, dismissed>>
walletSession == <<walletVars, sessionVars, sync, request>>

NoSync == [dismissed |-> FALSE, account |-> NoAccount, chain |-> "none"]
NoRequest == [method |-> "none", account |-> NoAccount]

SessionTypeOK ==
  /\ exposed \in MaybeAccount /\ walletChain \in Chains
  /\ account \in MaybeAccount /\ chainId \in Chains \cup {"unknown"}
  /\ dismissed \in BOOLEAN
  /\ sync \in [dismissed : BOOLEAN, account : MaybeAccount \cup {Pending},
               chain : Chains \cup {"none", Pending}]
  /\ request \in [method : {"none", "accounts", "chain", "switch", "switched"}, account : MaybeAccount]

SessionInit ==
  /\ exposed \in MaybeAccount /\ walletChain \in Chains
  /\ account = NoAccount /\ chainId = "unknown" /\ dismissed = FALSE
  /\ sync = NoSync /\ request = NoRequest

IsConnected == account # NoAccount /\ ~dismissed

(* What the handlers of every page ask for before they use the wallet.     *)
WalletReady == IsConnected /\ chainId = "sepolia"

-----------------------------------------------------------------------------
(* A page load: the state of React is gone, and a snapshot is requested    *)
(* with the dismissal that is remembered now.                              *)
Mount ==
  /\ account' = NoAccount /\ chainId' = "unknown"
  /\ sync' = [dismissed |-> dismissed, account |-> Pending, chain |-> Pending]
  /\ request' = NoRequest
  /\ UNCHANGED <<walletVars, dismissed>>

SnapshotAccounts ==
  /\ sync.account = Pending
  /\ sync' = [sync EXCEPT !.account = exposed]
  /\ UNCHANGED <<walletVars, sessionVars, request>>
SnapshotChain ==
  /\ sync.chain = Pending
  /\ sync' = [sync EXCEPT !.chain = walletChain]
  /\ UNCHANGED <<walletVars, sessionVars, request>>
SnapshotApplied ==
  /\ sync # NoSync /\ sync.account # Pending /\ sync.chain # Pending
  /\ account' = IF sync.dismissed THEN NoAccount ELSE sync.account
  /\ chainId' = sync.chain
  /\ sync' = NoSync
  /\ UNCHANGED <<walletVars, dismissed, request>>
SnapshotFails ==
  sync # NoSync /\ sync' = NoSync /\ UNCHANGED <<walletVars, sessionVars, request>>

(* The wallet's events, handled as they occur.                             *)
HandleAccountsChanged(a) ==
  account' = IF a = NoAccount THEN NoAccount ELSE IF dismissed THEN account ELSE a
AccountsChanged(a) ==
  /\ a # exposed /\ exposed' = a
  /\ HandleAccountsChanged(a)
  /\ UNCHANGED <<walletChain, chainId, dismissed, sync, request>>
ChainChanged(c) ==
  /\ c # walletChain /\ walletChain' = c
  /\ chainId' = c
  /\ UNCHANGED <<exposed, account, dismissed, sync, request>>

(* Every page offers to connect while the session is not connected.  A     *)
(* wallet answers one request at a time and refuses a second one.          *)
Connect ==
  /\ ~IsConnected /\ request = NoRequest
  /\ request' = [method |-> "accounts", account |-> NoAccount]
  /\ UNCHANGED <<walletVars, sessionVars, sync>>
ConnectGranted(a) ==
  /\ request.method = "accounts"
  /\ exposed' = a
  /\ IF a # exposed THEN HandleAccountsChanged(a) ELSE UNCHANGED account
  /\ request' = [method |-> "chain", account |-> a]
  /\ UNCHANGED <<walletChain, chainId, dismissed, sync>>
Connected ==
  /\ request.method = "chain"
  /\ dismissed' = FALSE /\ account' = request.account /\ chainId' = walletChain
  /\ request' = NoRequest
  /\ UNCHANGED <<walletVars, sync>>

SwitchToSepolia ==
  /\ chainId # "sepolia" /\ request = NoRequest
  /\ request' = [method |-> "switch", account |-> NoAccount]
  /\ UNCHANGED <<walletVars, sessionVars, sync>>
(* The wallet switches, or has only added the network.  What it is on is   *)
(* asked for afterwards.                                                   *)
Switched ==
  /\ request.method = "switch"
  /\ walletChain' \in {"sepolia", walletChain}
  /\ chainId' = IF walletChain' # walletChain THEN walletChain' ELSE chainId
  /\ request' = [request EXCEPT !.method = "switched"]
  /\ UNCHANGED <<exposed, account, dismissed, sync>>
SwitchRead ==
  /\ request.method = "switched"
  /\ chainId' = walletChain
  /\ request' = NoRequest
  /\ UNCHANGED <<walletVars, account, dismissed, sync>>

RequestRefused ==
  /\ request # NoRequest /\ request' = NoRequest
  /\ UNCHANGED <<walletVars, sessionVars, sync>>

Disconnect ==
  /\ IsConnected
  /\ dismissed' = TRUE /\ account' = NoAccount
  /\ UNCHANGED <<walletVars, chainId, sync, request>>

(* What the session does by itself, and what the user or the wallet does.  *)
SnapshotStep == SnapshotAccounts \/ SnapshotChain \/ SnapshotApplied \/ SnapshotFails
WalletAnswers ==
  \/ Connected \/ Switched \/ SwitchRead \/ RequestRefused
  \/ \E a \in Accounts : ConnectGranted(a)
WalletChanges == (\E a \in MaybeAccount : AccountsChanged(a)) \/ (\E c \in Chains : ChainChanged(c))
SessionStep == SnapshotStep \/ WalletAnswers \/ Connect \/ SwitchToSepolia \/ Disconnect

SessionNext == Mount \/ SessionStep \/ WalletChanges
SessionSpec == SessionInit /\ [][SessionNext]_walletSession
=============================================================================
