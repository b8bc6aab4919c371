# BuyMarket backend: TLA+ models and proofs

BuyMarket is a NestJS backend over PostgreSQL (TypeORM) for a marketplace with
several sellers, in-app payment and an internal wallet per seller. These
modules model what it keeps in its database and what depends on the order in
which requests, webhooks and crashes happen.

## 1. The system

All paths are below `src/src/modules` unless they start with `src/`.

| Component | State it keeps | Operations | How it meets the others |
|---|---|---|---|
| Getnet Web Checkout (`payments/payments.service.ts`, `getnet.client.ts`) | `orders.status`, `paymentPreferenceId`; `payments`; `payment_attempts` | create intent, webhook (approve, reject, duplicate, mismatch), two failure audits | locks the order row, credits wallets in the same transaction, notifies after the commit |
| Mercado Pago, manual payments (same file), Getnet QR (`getnet-qr.service.ts`), Payway (`payway.service.ts`) | the same tables | create preference/link/QR, webhooks, proof upload, administrator's decision | credit wallets without a lock, outside any transaction (Mercado Pago, manual) or after the commit (QR); Payway credits nothing yet |
| Wallet and withdrawals (`wallet`, `with-drawal-request`, `wallet-transaction`) | `wallets` (balance, pendingBalance, totalEarned), `wallet_transactions`, `withdrawal_requests` | credit, request a withdrawal, decide it, add missing wallets | credited by every payment route; decisions notify the seller |
| Orders and checkout (`orders`) | `orders`, `order_items`, `payments`, `products.stock` | checkout from the cart | reads and clears the cart, decrements stock |
| Carts (`carts`) | `carts`, `cart_items` | add, change, remove, clear | read by checkout |
| Products (`products`, `product-media`, `product-approval-policy`) | `products`, variants, attribute values, media | create, update, remove, approve, reject, upload and assign media | filed in the catalogue; stock is decremented by checkout |
| Catalogue (`categories`, `subcategoria`, `brands`, `colors`, `category-suggestions`) | reference data, files of logos | edit, remove, approve a suggestion, upload a logo, recommend a colour | decides what a product must have and whether it waits for approval |
| Favorites (`favorites`) | pairs of user and product | add, remove | removed with the product |
| Shipments (`shipments`) | `shipments`, `orders.status` | create, edit, assign driver, pick up, in transit, delivered, tracking, cancel | only for a paid order; delivery closes the order, which payments go on deciding |
| Notifications (`notifications`) | `notifications` with a unique `eventKey` | create once, list, mark read | called by payments and withdrawals |
| Accounts (`auth`, `users`, `plan`) | users, verification and reset codes, plans | register, Google sign-in, verify, reset, administration | creates the wallet of a user |
| Addresses and payment methods (`user-address`, `user-payment-methods`) | rows, one of them the user's default | create, update, set default, remove | go with their user |
| Mail, Cloudinary, configuration, migrations | none of their own | calls to other services, wiring | |

### What is hard in it

* Every request runs interleaved with every other at each `await`.
  `repository.save(entity)` writes the columns of a snapshot read earlier. Only
  the two Getnet routes, Payway, and the edit and removal of a product open
  transactions; only the payment routes among them lock rows.
* Webhooks are lost, repeated and reordered; Getnet repeats a notification until
  it gets a 200.
* An operation of several saves without a transaction can stop between two of
  them (crash, failed query), or refuse its input between two of them.
* Statuses are compared with one expected value (`PAID`), while other components
  move the same row (`DELIVERED`).

`PROJECT.json` lists each of these places under `hazards` with the property that
watches it.

### What makes each component correct

* Payment routes: each seller of a paid order is credited exactly once; nothing is
  credited or announced that nobody approved; a late or repeated event never
  undoes that; everyone is told in the end, and nobody before the money moved.
* Wallet: the balance never goes below zero, but for the return of a withdrawal of a
  negative amount; money is neither created nor lost between balance, pending balance,
  payouts and credits; a withdrawal is decided once.
* Checkout: no order without stock, total equal to its items, the cart emptied only
  of what was bought.
* Shipments: an order is delivered only after it was paid; a local shipment on its
  way has the driver that was assigned.
* Products: a listed product was cleared for where it is filed; its stock is that
  of its variants from the time they are sent until one is sold or a stock is sent alone.
* Accounts: a verified user has proven an address, the present one unless it was
  changed; the password that works is the one last chosen; a user who signed up has a
  wallet; one default address and payment method.

## 2. Modules

| Module | Contents |
|---|---|
| `OrderSettlement` | Abstract promise of Getnet Web Checkout to the sellers: the net of an order enters the wallets of all its sellers in one step, once. |
| `GetnetCheckout` | Getnet intent creation and webhook, with row locks, transactions, audits, notifications, crashes, retries and the parts of wallet, shipment and notifications they meet. Refines `OrderSettlement`. |
| `SalePromise` | Abstract promise of the routes without an order-wide transaction: credited and announced only what was approved, and never taken back. |
| `OrderPayments` | What those routes share: rows, the providers' side, the saves, the crediting of sellers one by one, the notices. |
| `MercadoPago`, `ManualPayment`, `GetnetQr`, `Payway` | One route each, over `OrderPayments`. |
| `PaymentRoutes` | The routes together. Refines `SalePromise`. |
| `Withdrawals` | Wallets outside the Getnet transactions: withdrawals through both services and credits without a manager, unlocked, with crashes between saves. |
| `Checkout` | Cart changes, the checkout, and what sellers do to stock, price and carts. |
| `Shipments` | The shipment of an order and what payments do to the order meanwhile. |
| `Accounts`, `UserDefaults` | Users, their codes, passwords, wallets and plan; then their addresses and payment methods, composed with the accounts they go with. |
| `Catalogue`, `Publications` | Suggestions, subcategories, attributes, brands, colours; then products, variants, media and favourites, composed with the catalogue they are filed in. |
| `MC...` | The instances TLC checks. |
| `...Proofs` | TLAPS proofs about the module of that name. |
| `SumLemmas` | Lemmas about the community modules' sums over a set, for the proofs about money, stock and cart units. |

In all of them a request in progress is a slot (`req[r]`, `job[j]`) with a phase
and what it has read; `save(entity)` (select, compare, update) is one step and
writes the row as it was read with what the handler set. Reads that nothing can
come between without also coming between the last of them and the save are one
step.

### GetnetCheckout and the code

`Working(p, i)` is the private data with which a phase starts.

| Code | Model |
|---|---|
| `orders.status`, `paymentPreferenceId` | `status`, `preference` |
| `payments.status` | `payment` (`"NONE"`: no row yet) |
| `payment_attempts.status`, `expiresAt` passed, rows in `ERROR` | `attempt`, `expired`, `errored` |
| `wallets` rows, `balance`, CREDIT rows | `wallets`, `balance[s][o]`, `creditRow` |
| `notifications.eventKey` | `notified` |
| Getnet's side: intents minted, paid, notification not yet answered 200 | `issued`, `approved`, `due` |
| `createGetnetIntentWithinTransaction` | `CreateBegin`, `MintIntent`, `CreateCommit`, `CreateFail` |
| `recordGetnetCreationFailureAudit` | `CreationAudit` |
| `applyGetnetWebhookTransition` | `WebhookMismatch`, `WebhookTouchOnly`, `WebhookReject`, `WebhookDuplicate`, `WebhookApproveBegin`, `CreditSeller`, `WebhookCommit` |
| its rollback, `recordGetnetWebhookFailureAudit` | `WebhookRollback`, `WebhookFail`, `AuditRead`, `AuditWrite` |
| `notifyApprovedOrder`, `notifyRejectedPayment`, `createManyOnce` | `NotifyApproved`, `NotifyRejected`, `NotifyFail` |
| `ShipmentsService.create`, `markDelivered`, `syncMissingWallets` | `CreateShipment`, `MarkDelivered`, `SyncMissingWallets` |

A transaction holds the order's row lock (`Locked`) from its first to its last
step, and everything it writes is published by one step. A rejection or a
duplicate touches nothing that another transaction could be waiting for, so it
is one step. `approved` and `due` stand for approvals with the order's amount and
currency: one with others is answered 200 and changes nothing but the attempt's last
error (`WebhookTouchOnly`). The approval is split at every wallet it locks, because two orders
can meet there. The failure audit runs outside the transaction and is split
between its read and its save. An amount is not a number but a multiplicity:
`balance[s][o]` counts how often the net of order `o` is in the balance of `s`,
so that a lost update, a double credit or a partial one each show. The routes that save
wallets without a lock are not composed with this module: what they do to a wallet
that Getnet credits is in `Withdrawals` (`CreditLocked`).
`SyncMissingWallets` gives wallets only while there are none at all: the code
looks at `users.walletId`, which nothing writes, so it takes every user to be
without one, and the unique `wallets.userId` then fails the whole insert.

### PaymentRoutes and the code

| Code | Model |
|---|---|
| `orders.status`, `paymentMethod`; `payments`; `payment_attempts` | `order`, `payment`, `attempt` |
| payments and links at the providers; preferences | `charge`, `offered` |
| `wallets.balance`, CREDIT rows, those that refer to their wallet, `eventKey`s | `wallet[s][o]`, `credits[o][s]`, `attached`, `notices` |
| `creditSellersFromOrder`, `creditFromOrder` without a manager | `CreditRead`, `CreditCheck`, `CreditSave`, `CreditRecord`, then `Notify` |
| `createMercadoPagoPreference`, `handleMercadoPagoWebhook` | `CreatePreference`, `MercadoPagoWebhook`, then `SaveOrder` |
| `notifyTransferPayment`, `uploadedTranferProof`, `updateManualPaymentStatus` | `NotifyTransfer`, `InsertTransferPayment`, `UploadProof`, `DecideManually`, then `SavePayment`, `SaveOrder` |
| `GetnetQrService.createPayment` | `CreateQr`, `InsertQrPayment`, `ExpireQrs`, `InsertQrAttempt`, `MintQr`, `MintQrFails`, `SaveQrAttempt`, then `SaveOrder` |
| its `handleWebhook`, `applyStatus` | `QrWebhook`, `ApplyQrStatus`, `ApplyQrFails` |
| `PaywayService.createPaymentLinkWithinTransaction` | `LockForLink`, `CommitLink`, `LoseLink` |
| a provider's decision, the end of `expiresAt` | `PayPreference`, `ProviderDecides`, `TimePasses` (external) |

Deliveries of webhooks are never remembered: any payment is reported at any time,
so they are lost, late, repeated and out of order. The method of an order is
chosen in `Init` and `payments` may be missing, because checkout saves it after
the order. `ApplyQrFails` may happen at every delivery: the query that locks the
attempt also joins payment and order, which PostgreSQL is said to refuse
(`payments.service.ts:634`). `wallet[s]` is copied and saved whole, as the code does, so a credit
overwrites what came between. `findByUserId` reads the wallet with its transactions
(`wallet.service.ts:42`), and TypeORM saves them with it: a CREDIT row inserted since
the read is no longer one of the wallet, and a later notification does not find it and
credits again. While a row does refer to the wallet, the unique index on wallet, order and
type (`wallet-transaction.entity.ts:27`) refuses a second one, which ends the request
half way. Two requests that credit one wallet at the same time put their orders into
the history variable `crossed`.

### Withdrawals and the code

| Code | Model |
|---|---|
| row of `wallets` | `wallet[s]`: balance, pending, earned |
| `withdrawal_requests.status`, CREDIT rows, those that refer to their wallet, `eventKey`s | `status`, `creditRows`, `linked`, `notified` |
| `requestWithDrawal`, `WithDrawalRequestService.create` | `RequestWithdrawal`, `DeductSave`, `InsertRequest` |
| `updateWithdrawalStatus`, `WithDrawalRequestService.updateStatus` | `DecideWithdrawal` (the differences are `Open`, `Repeats`, `Refunds`), `AdjustSave`, `DecideSave`, `Notify` |
| `creditFromOrder` without a manager / with one | `CreditRead`, `CreditCheck`, `CreditSave`, `CreditRecord` / `CreditLocked` |

A request reads the wallet into `req[r].copy`; each save writes the whole copy,
changed by one amount, and so overwrites what others saved since the read. Where the
wallet was read through `findByUserId` the save also detaches the rows of withdrawals
and sales inserted since (`SaveWallet`). A decision on a row that refers to no wallet
moves no money and tells nobody. The rows of one sale are not told apart: at most one
refers to the wallet. The read of the CREDIT row is a step of its own because two
credits can both find none.

Amounts are numbers (cents). That of a sale is positive. That of a withdrawal is any
integer: the validation pipe looks at the body of `WithDrawalRequestService.create`
only (`Accepts`), while the inline body type of `POST /wallets/withdrawals`
(`wallet.controller.ts:47`) is not validated, and a negative amount passes the
comparison with the balance. An amount that is no number is not modelled.

### Checkout and the code

| Code | Model |
|---|---|
| `products` / `product_variants` rows: stock, price, `isActive`, `deletedAt` | `article[a]` |
| `cart_items`, `orders` with `order_items` and `payments` | `cart[i]`, `order[o]` |
| `addProduct`, `updateQuantity` | `AddProduct`, `UpdateQuantity`, then `SaveItem` |
| `removeItem`, `clearCart` | `RemoveItem`, `ClearCart` |
| `OrdersService.checkout` | `CheckoutBegin`, `SaveOrder`, `SaveItems`, `TakeStock` per row, `ClearBought`, `SavePayment` |
| `ProductsService.update`, `syncProductVariants`, `remove` | `UpdateArticle`, `OmitVariant`, `RemoveProduct` |

A checkout reads cart and articles in one query; each of its saves is a step. The
two joined rows of one product are separate objects, so each takes from its own
copy. Saving a product without variants writes its `deletedAt` back, saving a
variant does not touch its product. Saving a cart item that was deleted inserts
it again. Each variant is the only one of its product here, so removing a product
concerns one article. `UpdateArticle` is one step although the transaction of an edit
reads and writes without a lock, so it overlaps less here than in the code;
`Publications` splits it. `TRANSFER` stands for the methods with a pending payment
(`getnet_qr` too), `CASH` for the others. Nothing in the cart looks at the stock
(`src/README.md:405` says that adding a product does); `Enough` is evaluated by
the checkout only.

### Shipments and the code

| Code | Model |
|---|---|
| `shipments` row (type, status, driver), `orders.status` | `shipment[o]`, `order[o]` |
| `create`, `update` | `Create` then `InsertShipment`; `Update` then `SaveShipment` |
| `assignDriver`, `markPickedUp`, `markInTransit`, `updateTracking`, `cancel` | the action of that name, then `SaveShipment` |
| `markDelivered` | `MarkDelivered`, `SaveShipment`, `CloseOrder` |
| the payment routes' saves of the order | `PaymentDecides` |

`PaymentDecides` may write any of `PENDING`, `PAID`, `REJECTED`, `CANCELLED` at any
time, which is what a late notification of Mercado Pago or a new QR does.

### Accounts, UserDefaults and the code

| Code | Model |
|---|---|
| `users`: address, password, provider, `googleId`, verified, code, token | `user[u]` |
| `wallets.userId`, the plan `Free`, codes whose time is over | `wallets`, `freePlan`, `expired` |
| `register`, `googleAuth`, `findOrCreateFreePlan` | `Register`, `GoogleAuth`, `InsertFreePlan`, `ReadGoogleUser`, `SaveNewUser`, `SaveWallet` |
| `sendVerificationCode`, `verifyEmail`, `forgotPassword` | the action of that name, then `SaveUser`, `SendMail` |
| `resetPassword` | `ResetPassword`, `UpdatePassword` |
| `UsersService`, `PlansService`, `syncMissingWallets` | `CreateUser`, `UpdateUser`, `RemoveUser`; `CreatePlan`, `UpdatePlan`, `SavePlan`; `SyncMissingWallets`, `SaveMissingWallets` |
| `isDefault` of addresses and payment methods | `entry[e]` |
| `create`, `update`, `setDefault`, `remove` of both services | `Create`, `Update`, `SetDefault`, then `ClearDefault`, `SaveEntry`; `Remove`; `Cascade` when the user goes |

A password is a secret with the form it is stored in: the routes of `users`, which are
open to anyone, store it as it came, and `bcrypt.compare` then refuses it. `chosen[u]`
is the password last set with the route that set it. An address is the one a user
signed up with (`first`) or the one it is changed to (`second`); the change keeps
`isEmailVerified` and the pending codes (`UpdateUser`), and `readdressed` remembers it.
A code is sent to the address the row had when it was read, and proves that one. What
`findOrCreateFreePlan` returned is carried on (`PlanFound`). A code can only be presented by whoever received it. A code that
is drawn is new (`Unused`): it is in no row, no mail, and no copy of a row that a
request has yet to save.

### Catalogue, Publications and the code

| Code | Model |
|---|---|
| `category_suggestions.status` and the category made of one | `suggestion`, `suggested` |
| a subcategory's names; attributes; brands and stored files; colours | `filed`, `attribute`, `brand`, `stored`, `shade` |
| `products`, `product_variants`, `product_media`, `favorites` | `product`, `variant`, `media`, `favorite` |
| `product-approval-policy.ts`, `approvalStateFor...` | `RequiresManualApproval`, `ApprovalStateFor` |
| `ProductsService.create` | `Create`, `InsertProduct`, `InsertVariant`, `LinkMedia`, `SaveValues` |
| `update`, `syncProductVariants` | `Update`, `ReadVariants`, `CommitUpdate` (`Synced`) |
| `remove`, `approve`, `reject` | `RemoveProduct`; `Judge`, `SaveVerdict` |
| `OrdersService.checkout`, as far as it writes products and variants | `Checkout`, `SellItem`, `SaveStock` |
| `recommendMany` | `Recommended` on one axis of the colour space, its loop a recursive function |
| services of the catalogue | an action that reads and one that saves each |

`Forms` are the bodies sellers send, an empty list of variants excepted. A variant is
sent with one piece, which is enough to tell a forgotten variant from a counted one; a
checkout takes one piece of one item, the cart around it is in `Checkout`. Selling a
variant saves only the variant (`orders.service.ts:181`), and a stock sent without
variants is written to the product alone (`products.service.ts:877`): both leave
`products.stock` other than the sum of the variants until these are sent again, which
`adrift` records. (Responses compute the sum anew, `products.service.ts:124`; the search
does not, `:705`.) A product sold without a variant is saved whole as the checkout read
it, and so can be listed again after its removal or a verdict.

### What "Quiet" means

Much cannot hold of such code once requests overlap. Each module keeps a history
variable (`disturbed`, `crossed`, `clashed`) of the rows on which requests did,
or on which a crash left a request half done; the invariants `Quiet...` state what
holds of all other rows, for any sequence of operations on them and any overlap
elsewhere. Wallets are shared by orders that are otherwise apart: the credits of an
undisturbed order, rows and amount, are exact unless its own credit met another one at
a wallet (`crossed`). What holds in spite of every overlap is stated without it
(`CreditExactlyOnce`, `CreditedIsPaid`, `BalanceIsBacked`, `KeepsPromise`,
`OneLinkAtATime`, `BalanceIsCovered`, `StockNeverNegative`, `DeliveredWasPaid`,
`LocalMovesWithDriver`, `VerifiedWasProven`, `LogoIsStored`). A hazard that an overlap
makes real, and that the code does not withstand, has no property: its note says so and
section 5 lists it.

## 3. Runs

| Run | What it asks and shows |
|---|---|
| `getnet_one_order` | One order, two sellers (either may lack a wallet), three intents, one of them stored before attempts existed, two overlapping requests, one fault: all safety properties and the refinement of `OrderSettlement`. |
| `getnet_two_orders` | Two orders of the same sellers with opposite item order, both being approved: nobody hangs although wallets are locked in opposite order. |
| `getnet_liveness` | Redelivery gets a payment credited and its notifications sent in spite of a crash or failure. |
| `getnet_rejected_retry` | Finding: a rejected intent does not allow a new one. |
| `payment_routes` | An order of two sellers under each of the four routes: nothing is credited or announced without an approval (`KeepsPromise` refines `SalePromise`), no amount is in a wallet without one, one Payway link at a time; without overlap a sale is credited exactly once and agrees with its payment. |
| `withdrawals` | One seller, two withdrawals, one of them negative, and a sale, two overlapping requests, two decisions or crashes: no balance below zero but by giving back what a negative withdrawal had added; undisturbed wallets add up and decisions stand. |
| `withdrawals_overdrawn` | Finding: two withdrawals are accepted on a balance that covers one. |
| `checkout` | Two buyers with overlapping requests on a product and a variant, one edit, one crash: the stock stays at or above zero, and articles, carts and orders on which nothing overlapped are exact. |
| `shipments` | Two overlapping requests on a shipment while payments go on deciding its order: a delivered order was paid, a local shipment on its way has a driver; without overlap it is the one assigned, and a delivery closes the order. |
| `accounts` | Two users, codes, passwords, Google sign-in, changed e-mail addresses, wallets, addresses and payment methods: a verified user has proven the address, or one it had before a change; without overlap users have a wallet, one default and no working password but the one last chosen. |
| `publications` | One product over two subcategories, an attribute, a brand with two logo files, colours, a buyer: logos named are stored, the recommended colour is the nearest; without overlap the listing follows the policy and the administrator, stock adds up from the sending of variants to the next sale or stock sent alone, favourites are live. |
| `publications_incomplete` | Finding: a refused publication stays listed. |

### Bounds

* `Requests` (two): every interleaving the properties speak of is between two
  requests; a third one adds only further waiting.
* `MaxRequests`, `MaxEdits` (two to five): how many requests start. Four are
  enough on a payment route to create, be reported twice and be decided besides;
  five for a shipment to be made, staffed, moved, edited and delivered.
* `Intents` (one to three per order): one legacy preference, one intent that
  expires and one that replaces it. `Attempts`, `Charges` (two) of `PaymentRoutes`:
  one replaced by another.
* `MaxFaults` (zero or one): a crash or failed query at any step. Rollbacks by a
  missing wallet or a deadlock are not counted and can always happen.
* Two sellers: the smallest order that can be credited in part. One order in
  `payment_routes` and `shipments`: orders share wallets only. What they do to each
  other there is asked in `getnet_two_orders` and `withdrawals`, and answered for any
  number of orders by the theorem `SaleCreditedOnce`; an instance of `PaymentRoutes` with
  two orders and all four requests is more than TLC finishes in minutes.
* `MaxTurns` (two): a decision and its repetition, two competing ones, or a crash
  and what comes after. `MaxRows` (one): a sale is credited again once after its row
  was detached.
* `Withdrawals` (two) and one sale, all of one seller: wallets of different sellers
  share nothing. One of them is negative, and the other takes the sale and what that one
  added. In the overdrawn run both are positive and the sale covers each withdrawal but not both.
* `Rows` and `Orders` (two each), `MaxCartOps` (two), `MaxEdits` (one) of `Checkout`:
  a row doubled by two additions, two checkouts of one cart, a removal before,
  during and after a checkout. A cart row is inserted once, as a uuid is.
* Two users, one with two addresses and a payment method, one with an address: a
  default to be replaced, one of another kind and one of another user not to be.
  Two `Codes`: one superseded by another. Nobody else takes an address that a user
  has given up.
* One product with the six `Forms` of `MCPublications` and two subcategories, one
  of which needs approval.
* Requests and other ids that nothing distinguishes (two intents of an order, both
  or neither of them legacy) are interchangeable, so the safety runs use symmetry
  over them; the runs with liveness properties
  (`getnet_two_orders`, `getnet_liveness`) do not.
* Deadlock is checked where something waits (Getnet Web Checkout); it is not
  checked where the bounds end every behaviour.

### Fairness

* Weak fairness of the steps a request takes by itself: Node keeps running a
  request that does not wait, and PostgreSQL breaks a deadlock.
* Strong fairness of locking a wallet: a row lock is granted in the end.
* Strong fairness of redelivery per intent: Getnet repeats a notification until
  it is answered 200 (`src/README.md`, section on the webhook's responses).

No fairness is assumed of buyers, creation, failures, crashes, shipments or
`syncMissingWallets`. `PaymentEventuallySettles` therefore speaks of payments
whose sellers have wallets, and of the order's current intent: the code
acknowledges and drops the payment of a replaced intent. The other modules state
no liveness: nothing in their code retries or repairs what a failure left.

## 4. Proofs

Every invariant, every action property and every refinement that a passing run
checks on its instance is proved for all values of the constants. `tlapm` checks the
proofs from the assumptions named below and nothing else. Each is an invariance
argument: an inductive invariant, shown of `Init` and kept by every action, one
lemma per action where the actions differ.

What the assumptions say: the types of the constants; that the sets counted over
(`Withdrawals`, `Sales`, `Rows`, `Orders` of `Checkout`, `Variants`) are finite, as
tables are; that the net amount of a sale is positive (`WithdrawalsAssumption`); that
colours start with distinct hex values (`FirstShadesAssumption`;
`colors.hex` is unique); and that `None`, which stands for an absent row or value, is
none of the values it can be confused with (`AbsentAssumption`, `NoRowAssumption`,
`CatalogueRowAssumption`, `PublicationRowAssumption`). TLC evaluates all of them on
the instances.

Two theorems say more than the runs ask: `TypeCorrect` of the wallets, and
`CompletedStays` of Getnet.

### Getnet Web Checkout

`GetnetCheckoutProofs`, from `GetnetAssumption` (sequences of sellers, one order per
intent, at most one legacy intent per order), for any orders, sellers, intents,
requests and number of faults:

| Theorem | Statement |
|---|---|
| `TypeCorrect` | `Spec => []TypeOK` |
| `Inductive` | `Spec => []IInv` |
| `CreditedOnce` | `Spec => []CreditExactlyOnce` |
| `PaidSettled` | `Spec => []PaidIsSettled` |
| `NotifiedSettled` | `Spec => []NotifiedAfterSettlement` |
| `Implements` | `Spec => SettledOnceAndWhole`: refinement of `OrderSettlement` |
| `CreditedPaid` | `Spec => []CreditedIsPaid` |
| `CompletedStays` | `Spec => CompletedIsFinal` |
| `ReusableCurrent` | `Spec => []ReusableIsCurrent` |

`CreditExactlyOnce` is not inductive: a commit adds one to what the transaction
has *read*. `IInv` adds why that is sound: at most one transaction per order
(`OrderLockExclusive`) and per wallet (`WalletLockExclusive`), so that what a
crediting transaction has read of a locked wallet is still true
(`CreditInProgress`); sellers of an order are credited together (`AllOrNone`),
which turns the commit into one `Settle` step or a stutter. The proof treats the
ledger (`Ledger`: locks, balances, CREDIT rows) and what others see of it
(`Visible`: order status, shipments, notifications) separately, one step per
action.

`CreditedPaid` is what is true of the guard of a rejection, which knows only `PAID`: an
order credited to a seller is paid, or was delivered. A delivered one can still be
rejected (section 5), which the property therefore allows.

`ReusableIsCurrent` needs an invariant of its own, `ReuseInv`, because the failure
audit writes an attempt it read without a lock. It adds what the status of an attempt says of the rest (`AttemptsTell`:
it is closed only after it has expired, decided only when its order is); that the
copy an audit is about to write says the same, and reopens only an intent that is
the current one (`CopiesTell`); and that while an intent is being created, every
other one of its order that is pending or may be set back has expired
(`CreatesLast`). A consequence is that `closeStaleGetnetAttempts` finds no attempt
before its time, so that it never writes the status `CANCELED`.

### Wallets

`WithdrawalsProofs`, from `WithdrawalsAssumption`, for any sellers, amounts,
withdrawals, sales and requests:

| Theorem | Statement |
|---|---|
| `TypeCorrect` | `Spec => []TypeOK` |
| `AlwaysBalanceCovered` | `Spec => []BalanceIsCovered` |
| `QuietWalletExact` | `Spec => []QuietWalletIsExact` |
| `QuietDecisionFinal` | `Spec => []QuietDecisionStands` |

`NeverNegative` is a corollary of the second: where no withdrawal is of a negative
amount, no balance goes below zero. The invariant of the first two is `Covered`: a
request about to deduct holds a copy with at least that balance, and every copy about to
be saved has a balance not below what the refunds of negative withdrawals explain. Whose
balance it overwrites does not matter. The other two
add, wallet by wallet, `InOrder`: one request at most is at work, its copy is the
wallet (`Reliable`), and the books balance but for the one amount that is in the
wallet and not yet in its row (`Balanced`), or the other way round. A request on
another wallet leaves all of that alone (`Untouched`).

### Checkout

`CheckoutProofs`, from `CheckoutAssumption` and `AbsentAssumption`, for any buyers,
articles, rows, orders and requests:

| Theorem | Statement |
|---|---|
| `TypeCorrect` | `Spec => []TypeOK` |
| `NeverNegative` | `Spec => []StockNeverNegative` |
| `QuietStockExact` | `Spec => []QuietStockIsExact` |
| `QuietCartExact` | `Spec => []QuietCartIsExact` |
| `QuietOrderWhole` | `Spec => []QuietOrderIsWhole` |

`StockSafe` is about every overlap: each row of a checkout still to be taken
carries a copy with enough stock. `Base` adds what every request may rely on: an order
belongs to one checkout, cart rows stay with their buyer, no cart holds an article
erased from its table. On top of it come two invariants of what was not disturbed:
`ArticlesInOrder` (the shelf, but for the units of the one order whose stock is not
taken yet) and `BuyersInOrder` (each unit asked for is in the cart, in an order, or
in the checkout between the two).

### Sums

Money, stock and cart units are sums over sets (`SumFunctionOnSet`). The library's
induction theorems take an operator as parameter and cannot be instantiated by the
installed provers, so `SumLemmas` argues by a least counterexample: of sets of
subsets of a finite set one is least (`Least`), hence the function that computes a
sum exists and is unique, does not depend on the order of the elements (`SumPick`,
`SumRemove`), and changes by the difference where one summand changes (`SumChange`,
`SumInsert`). The colour scan is proved in the same way: the first point at which it
would not have found the nearest colour cannot exist.

### Shipments

`ShipmentsProofs`, from `ShipmentsAssumption` and `NoRowAssumption`, for
any orders, drivers, requests and faults:

| Theorem | Statement |
|---|---|
| `TypeCorrect` | `Spec => []TypeOK` |
| `DeliveredPaid` | `Spec => []DeliveredWasPaid` |
| `LocalStaffed` | `Spec => []LocalMovesWithDriver` |
| `DriverAssigned` | `Spec => []QuietDriverIsAssigned` |
| `DeliveryCloses` | `Spec => []QuietDeliveryClosesOrder` |

The first two invariants about drivers and payment hold under every overlap,
because of what a request carries from its read to its save (`Sound`: a row it
may store, of an order that was paid). The other two hold only of orders whose
requests never overlapped: `Steady` says that such a request still sees what it
read, `Alone` that it is the only one, `AtRest` what is true once it is done.
A step of a request of one order disturbs nothing of another, which is why the
invariant can be stated order by order.

### The other payment routes

`PaymentRoutesProofs`, from `PaymentsAssumption` and `NoRowAssumption`, for any
orders, sellers, attempts, requests and faults:

| Theorem | Statement |
|---|---|
| `TypeCorrect` | `Spec => []TypeOK` |
| `Inductive` | `Spec => []IInv` |
| `BalanceBacked` | `Spec => []BalanceIsBacked` |
| `Implements` | `Spec => KeepsPromise`: refinement of `SalePromise` |
| `OneLink` | `Spec => []OneLinkAtATime` |
| `SaleCreditedOnce` | `Spec => []QuietSaleIsCreditedOnce` |
| `PaymentAgrees` | `Spec => []QuietPaymentAgrees` |

Nothing in these routes is locked across requests, so the invariant speaks of
each request alone (`Formed`): what it needs to take its next step is there
(`Shaped`), the attempt and the payment at the provider it works on exist and are
of its order (`Linked`), and it credits or announces only an approved order
(`Honest`). `FormedStays` is the heart of the proof: all of that depends only on
what no step takes back (`Grows`: approvals, rows inserted, the order of a row,
the method of an order), so a step has to be looked at for the request that
takes it only. The refinement then has four kinds of steps that are not a stutter:
a provider's approval, an administrator's, the CREDIT row and the notice.
`OneLink` adds an invariant of its own (`Links`): one request at most holds the
lock of an order, and it has found every link of it decided or past its time.

The last two theorems rest on `QuietInv`. `QuietExact` follows the one request of an
undisturbed order from what it read (`StillPending`), by what it writes
(`WritesPayment`, `WritesOrder`), through the sellers credited and those still to be
(`Crediting`), to the notice (`Telling`). Orders share wallets, so it is not
enough that the order is undisturbed: `CopiesTrue` says that whoever is about to save
a wallet holds what is in it, amounts and rows, of every order but those in `crossed`,
which is why a save for one order neither loses the amount of another nor detaches its
row.

### Accounts and defaults

`UserDefaultsProofs`, from `AccountsAssumption`, `AbsentAssumption` and
`DefaultsAssumption`, for any users, codes, entries and requests:

| Theorem | Statement |
|---|---|
| `TypeCorrect` | `Spec => []TypeOK` |
| `VerifiedProven` | `Spec => []VerifiedWasProven` |
| `SignedUpHasWallet` | `Spec => []QuietUserHasWallet` |
| `AccountCurrent` | `Spec => []QuietAccountIsCurrent` |
| `DefaultIsPicked` | `Spec => []QuietDefaultIsPicked` |

`VerifiedWasProven` holds under every overlap because a code is one user's only,
wherever it is (`CodesApart`: rows, mails, copies about to be saved), and because a
row, once it says verified, is proven in every copy (`Proven`), of the address it holds
as long as that was never changed. `AccountsInOrder` and
`DefaultsInOrder` speak of users and entries on which nothing overlapped: the one
request at work holds a current row (`Current`), and between clearing the old
default and saving the new one it is known which of them will be marked (`JobInOrder`).

### Catalogue and publications

`PublicationsProofs`, from the four assumptions of `Catalogue` and `Publications` and
`FirstShadesAssumption`, for any products, variants, forms, brands, files, colours
and requests:

| Theorem | Statement |
|---|---|
| `TypeCorrect` | `Spec => []TypeOK` |
| `LogoStored` | `Spec => []LogoIsStored` |
| `ListingQuiet` | `Spec => []QuietListing` |
| `StockQuiet` | `Spec => []QuietStockAddsUp` |
| `FavoritesQuiet` | `Spec => []QuietFavoritesAreLive` |
| `ColorNearest` | `Spec => []NearestIsRecommended` |

`LogoInv` says that a file is of one brand (`LogosApart`), that a file just uploaded
is nobody else's and not about to be deleted (`NewLogosKept`), and that a file about
to be deleted is only that of the brand whose row is replaced or erased first
(`OldLogosFree`). `ShelfInv` follows products: the ids of new variants are one
request's own (`FormsApart`, `NewVariantsFree`), variants are of products there are
(`VariantsWhole`), and a product on which nothing overlapped has one request that
still sees what it read, until it is done (`Kept`). `ColorsApart` (no two colours with
one hex) is kept by the check before a save, and the scan of `recommendMany` is shown
to have found, after n colours, the first nearest of them (`NearestOf`).

### What the proofs showed about the models

* `QuietSaleIsCreditedOnce` holds of rows as little as of amounts where credits of two
  orders meet at a wallet: the save of one detaches the row of the other.
* `QuietCartIsExact` had claimed too much: an article of an undisturbed buyer's cart
  may be gone from the shelf if a stale checkout of somebody else has written its product.
* `QuietSaleIsCreditedOnce` was false with two orders of one seller, which the run
  with one order could not show: overlapping credits of the two lose one amount (`wallet.service.ts:194`). It
  now sets the amounts of such orders aside (`crossed`).
* `MintIntent` had forgotten which attempts the creation found stale, so that the
  commit closed none.
* A code drawn anew could be one that only a copy about to be saved still held.

### Model-checked only

The liveness properties of the Getnet flow (`RequestsFinish`,
`PaymentEventuallySettles`, `SettledEventuallyNotified`), since the prover has no
rules for fairness and `ENABLED`; and the findings, which are counterexamples.


## 5. Findings

1. `src/README.md:969` says a rejected attempt allows a new one. The rejection
   also rejects the order, and intents are created only for pending orders
   (`getnet_rejected_retry`).
2. Two withdrawals requested at once are both accepted (`wallet.service.ts:237`,
   against `src/README.md:673`; `withdrawals_overdrawn`).
3. `src/README.md:850` says that a publication has all its required fields. A
   product is saved and listed before its attributes are looked at
   (`products.service.ts:562`, `611`; `publications_incomplete`).

The models also show the following; the hazards in `PROJECT.json` name them, and
no run is kept for each:

* a rejection that arrives after delivery rejects a paid order
  (`payments.service.ts:1123` knows only `PAID`; `src/README.md:974`), which is why
  `CreditedIsPaid` excepts what was delivered;
* the webhook's failure audit saves an attempt read outside the lock and can put
  a paid order's attempt back to pending (`payments.service.ts:843`);
* overlapping decisions of one withdrawal both move its money
  (`wallet.service.ts:308`, against `wallet.service.spec.ts:657`);
* overlapping checkouts sell the same units (`orders.service.ts:186`, against
  `orders.service.spec.ts:434`), and one that overlaps the removal of a product
  lists it again (`orders.service.ts:188`);
* overlapping notifications of Mercado Pago credit a sale twice
  (`payments.service.ts:226`); a manual approval or a QR payment that breaks off
  before the credit is never credited, and repeating the manual one announces it
  all the same (`payments.service.ts:427`, `489`);
* credits of one seller's wallet that overlap, of one order or of two, lose an amount
  and detach a CREDIT row, after which a repeated notification credits that sale again
  (`wallet.service.ts:194`, `42`);
* a withdrawal of a negative amount through `POST /wallets/withdrawals` raises the
  balance (`wallet.service.ts:237`); given back after the money has left, it takes the
  balance below zero, with nothing overlapping;
* `PATCH /users/:id` changes an address and keeps it verified, with the pending codes,
  and the routes of `users` store a password with which nobody can sign in
  (`users.service.ts:34`, `auth.service.ts:168`);
* `products.stock` is no longer the sum of its variants after a variant is sold or a
  stock is sent alone (`orders.service.ts:181`, `products.service.ts:877`);
* `syncMissingWallets` gives no wallet once any user has one
  (`wallet.service.ts:349`).

## 6. Not modelled

* Authorization, payload parsing, signatures of webhooks: no state of their own;
  webhooks report what the provider holds.
* Amounts and rounding in the payment routes (a mismatch of amount or currency is
  `WebhookTouchOnly`), amounts that are no number, and the allocation of cents among the items of a sale.
* `creditPendingFromOrder`, which nothing calls, and `releaseAvailableTransaction`,
  which therefore finds nothing; wallet movements entered by hand.
* Payway's notification handlers, which write nothing in their present phase.
* Reading, marking and paging notifications; listings and searches.
* The user that Google sign-in makes for an address no row has any more, or not yet.
* Wallets credited by Getnet and by the other routes at once, except in `Withdrawals`.
* Creation of categories and subcategories, their images, sending a suggestion;
  attribute values of variants, the order of media; creation of a cart on first
  use; cost, dates and addresses of shipments; removal of plans.
* Mail, Cloudinary (their calls are steps that may fail), configuration,
  bootstrap, migrations.
