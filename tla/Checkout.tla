------------------------------- MODULE Checkout -------------------------------
(***************************************************************************)
(* Carts, the checkout that turns a cart into an order, and the sellers    *)
(* who edit or remove what is in it: CartsService, OrdersService.checkout, *)
(* and of ProductsService what reaches stock, price and carts.             *)
(*                                                                         *)
(* No cart or checkout request opens a transaction.  A checkout reads cart *)
(* and articles once, and saves order, items, stock, cart and payment one  *)
(* after the other; every save(entity) writes back the whole row as read.  *)
(***************************************************************************)
EXTENDS Integers, FiniteSets, Functions

CONSTANTS
  Buyers,       \* users with a cart
  Articles,     \* what has a stock: products without variants, and variants
  Variants,     \* the articles that are rows of product_variants
  Rows,         \* ids of cart_items, each inserted once (bound: a finite set)
  Orders,       \* ids of orders (bound: a finite set)
  Requests,     \* slots for requests in progress (bound: a finite set)
  None,         \* no article, row, order or line
  Unused, Deleted,   \* a cart row not inserted yet, and one deleted
  Quantities,   \* quantities a buyer adds
  Updates,      \* quantities a buyer sets on a row of the cart
  FirstStock,   \* FirstStock[a]: stock when an article is published
  Offers,       \* <<stock, price>> a seller may set
  MaxCartOps,   \* bound on changes of carts by buyers
  MaxEdits,     \* bound on edits and removals by sellers
  MaxFaults     \* bound on crashes and failed queries

ASSUME CheckoutAssumption ==
  /\ Variants \subseteq Articles
  /\ Quantities \cup Updates \subseteq Nat \ {0}
  /\ FirstStock \in [Articles -> Nat]
  /\ Offers \subseteq Nat \X Nat
  /\ IsFiniteSet(Rows) /\ IsFiniteSet(Orders)
  /\ None \notin Buyers \cup Articles \cup Rows \cup Orders
  /\ MaxCartOps \in Nat /\ MaxEdits \in Nat /\ MaxFaults \in Nat

VARIABLES
  article,    \* stock, price and state of what is sold
  cart,       \* rows of cart_items
  order,      \* rows of orders with their order_items and payment
  req,        \* the requests in progress and what they have read
  cartOps, edits, faults,   \* operations so far, for the bounds
  offer,      \* history: article as its seller last left it
  supplied,   \* history: units sellers have offered so far, sold ones included
  asked,      \* history: units in a cart that its buyer has not taken out again
  disturbed   \* history: buyers and articles on which requests overlapped

bounds  == <<cartOps, edits, faults>>
history == <<offer, supplied, asked, disturbed>>
vars    == <<article, cart, order, req, bounds, history>>

(* A row of products or product_variants.  active is the variant's          *)
(* isActive; product says whether the product is there, removed logically   *)
(* (deletedAt), or erased from the table.                                   *)
Article == [stock : Int, price : Nat, active : BOOLEAN,
            product : {"listed", "removed", "erased"}]

CartItem  == [buyer : Buyers, article : Articles, quantity : Nat, price : Nat]
OrderItem == [article : Articles, quantity : Nat, price : Nat]
Absent    == {Unused, Deleted}

PaymentMethod == {"TRANSFER", "CASH"}

Order == [buyer : Buyers \cup {None}, total : Nat, method : PaymentMethod,
          items : [Rows -> OrderItem \cup {None}], paid : BOOLEAN]

Phases == {"idle", "saveItem", "order", "items", "stock", "clear", "payment"}

(* What checkout has read of a cart row, the article's row included.        *)
Snapshot == [article : Articles, quantity : Nat, price : Nat, seen : Article]

(* Null is no row, and a row that is not there is not a row.                *)
ASSUME AbsentAssumption ==
  /\ None \notin OrderItem \cup Snapshot \cup CartItem
  /\ Absent \cap CartItem = {} /\ Unused # Deleted

Request == [phase : Phases, buyer : Buyers \cup {None},
            article : Articles \cup {None}, row : Rows \cup {None},
            quantity : Nat, price : Nat, change : Int,   \* of a saveItem
            copy : [Rows -> Snapshot \cup {None}],       \* of a checkout
            todo : SUBSET Rows,         \* rows whose stock is not taken yet
            method : PaymentMethod, order : Orders \cup {None}]

NoItems == [i \in Rows |-> None]
NoOrder == [buyer |-> None, total |-> 0, method |-> "CASH", items |-> NoItems,
            paid |-> FALSE]

Idle == [phase |-> "idle", buyer |-> None, article |-> None, row |-> None,
         quantity |-> 0, price |-> 0, change |-> 0, copy |-> NoItems,
         todo |-> {}, method |-> "CASH", order |-> None]

Published(a) == [stock |-> FirstStock[a], price |-> 1, active |-> TRUE,
                 product |-> "listed"]

TypeOK ==
  /\ article \in [Articles -> Article]
  /\ cart \in [Rows -> CartItem \cup Absent]
  /\ order \in [Orders -> Order]
  /\ req \in [Requests -> Request]
  /\ cartOps \in 0..MaxCartOps /\ edits \in 0..MaxEdits /\ faults \in 0..MaxFaults
  /\ offer \in [Articles -> Article] /\ supplied \in [Articles -> Int]
  /\ asked \in [Buyers -> [Articles -> Int]]
  /\ disturbed \subseteq Buyers \cup Articles

Init ==
  /\ article = [a \in Articles |-> Published(a)]
  /\ cart = [i \in Rows |-> Unused]
  /\ order = [o \in Orders |-> NoOrder]
  /\ req = [r \in Requests |-> Idle]
  /\ cartOps = 0 /\ edits = 0 /\ faults = 0
  /\ offer = article /\ supplied = FirstStock
  /\ asked = [b \in Buyers |-> [a \in Articles |-> 0]]
  /\ disturbed = {}

------------------------------------------------------------------------------
InCart(b) == {i \in Rows : cart[i] \notin Absent /\ cart[i].buyer = b}
Exists(o) == order[o].buyer # None

OrdersOf(b) == {o \in Orders : order[o].buyer = b}

(* Units of article a in the rows S of a table, in a cart and in orders.    *)
LineUnits(line, a) == IF line # None /\ line.article = a THEN line.quantity ELSE 0

UnitsIn(lines, S, a) == SumFunctionOnSet([i \in S |-> LineUnits(lines[i], a)], S)

InCartOf(b, a)   == UnitsIn(cart, InCart(b), a)
OrderUnits(o, a) == UnitsIn(order[o].items, Rows, a)

UnitsOrdered(S, a) == SumFunctionOnSet([o \in S |-> OrderUnits(o, a)], S)

Ordered(a)      == UnitsOrdered(Orders, a)
OrderedBy(b, a) == UnitsOrdered(OrdersOf(b), a)

Busy(q, b) == req[q].phase # "idle" /\ req[q].buyer = b

(* A checkout that has read article a has not written its stock yet.        *)
Taking(q, a) == \E i \in req[q].todo : req[q].copy[i].article = a

(* A cart request or checkout is about to use article a.                    *)
Using(q, a) == Taking(q, a) \/ req[q].article = a

Contended(b) == IF \E q \in Requests : Busy(q, b) THEN {b} ELSE {}

Finish(r) == req' = [req EXCEPT ![r] = Idle]

------------------------------------------------------------------------------
(* CartsService.                                                            *)

CartChange(b) ==
  /\ cartOps < MaxCartOps /\ cartOps' = cartOps + 1
  /\ disturbed' = disturbed \cup Contended(b)

(* What a product must be to enter a cart; its stock is not looked at.      *)
Addable(a) == article[a].product = "listed" /\ article[a].active

(* addProduct up to its save: a row of the same article, if it finds one,   *)
(* gets the quantity on top, else a row is made at today's price.           *)
AddProduct(r, b, a, n) ==
  LET same   == {i \in InCart(b) : cart[i].article = a}
      job    == [Idle EXCEPT !.phase = "saveItem", !.buyer = b, !.article = a,
                             !.quantity = n, !.change = n,
                             !.price = article[a].price]
      onto(i) == [job EXCEPT !.row = i, !.quantity = cart[i].quantity + n,
                             !.price = cart[i].price]
  IN
  /\ req[r].phase = "idle"
  /\ Addable(a)
  /\ IF same = {} THEN req' = [req EXCEPT ![r] = job]
                  ELSE \E i \in same : req' = [req EXCEPT ![r] = onto(i)]
  /\ CartChange(b)
  /\ UNCHANGED <<article, cart, order, edits, faults, offer, supplied, asked>>

(* updateQuantity up to its save.                                           *)
UpdateQuantity(r, b, i, n) ==
  /\ req[r].phase = "idle"
  /\ i \in InCart(b)
  /\ req' = [req EXCEPT ![r] = [Idle EXCEPT
       !.phase = "saveItem", !.buyer = b, !.article = cart[i].article, !.row = i,
       !.quantity = n, !.change = n - cart[i].quantity, !.price = cart[i].price]]
  /\ CartChange(b)
  /\ UNCHANGED <<article, cart, order, edits, faults, offer, supplied, asked>>

Item(r) == [buyer |-> req[r].buyer, article |-> req[r].article,
            quantity |-> req[r].quantity, price |-> req[r].price]

(* The save of either: inserts, overwrites, or inserts again under the old  *)
(* id when the row is gone.  A foreign key refuses an erased product.       *)
SaveItem(r) ==
  LET b == req[r].buyer  a == req[r].article IN
  /\ req[r].phase = "saveItem"
  /\ IF article[a].product = "erased"
     THEN UNCHANGED <<cart, asked>>
     ELSE /\ \E i \in Rows :
               /\ IF req[r].row = None THEN cart[i] = Unused ELSE i = req[r].row
               /\ cart' = [cart EXCEPT ![i] = Item(r)]
          /\ asked' = [asked EXCEPT ![b][a] = @ + req[r].change]
  /\ Finish(r)
  /\ UNCHANGED <<article, order, bounds, offer, supplied, disturbed>>

Without(S) == [i \in Rows |-> IF i \in S THEN Deleted ELSE cart[i]]

(* removeItem and clearCart delete by id or by cart, whatever was read.     *)
DeleteItems(b, S) ==
  /\ S # {}
  /\ cart' = Without(S)
  /\ asked' = [asked EXCEPT ![b] = [a \in Articles |-> @[a] - UnitsIn(cart, S, a)]]
  /\ CartChange(b)
  /\ UNCHANGED <<article, order, req, edits, faults, offer, supplied>>

RemoveItem(b, i) == i \in InCart(b) /\ DeleteItems(b, {i})
ClearCart(b)     == DeleteItems(b, InCart(b))

------------------------------------------------------------------------------
(* OrdersService.checkout.                                                  *)

(* variant: the stock is not compared with the quantity                     *)
EnoughUnchecked(i) == TRUE

Enough(i) == article[cart[i].article].stock >= cart[i].quantity

Seen(i) == [article |-> cart[i].article, quantity |-> cart[i].quantity,
            price |-> cart[i].price, seen |-> article[cart[i].article]]

(* Two rows of one article each take from what they have read of its stock. *)
Doubled(S) == {cart[i].article : i \in
                 {j \in S : \E k \in S \ {j} : cart[k].article = cart[j].article}}

(* Reads the cart with its articles and checks each row.                    *)
CheckoutBegin(r, b, method) ==
  LET S == InCart(b) IN
  /\ req[r].phase = "idle"
  /\ S # {} /\ \A i \in S : Enough(i)
  /\ req' = [req EXCEPT ![r] = [Idle EXCEPT
       !.phase = "order", !.buyer = b, !.method = method, !.todo = S,
       !.copy = [i \in Rows |-> IF i \in S THEN Seen(i) ELSE None]]]
  /\ disturbed' = disturbed \cup Contended(b) \cup Doubled(S) \cup
       {cart[i].article : i \in
          {j \in S : \E q \in Requests : Taking(q, cart[j].article)}}
  /\ UNCHANGED <<article, cart, order, bounds, offer, supplied, asked>>

Subtotal(line) == line.price * line.quantity

SumOf(lines, S) ==
  SumFunctionOnSet([i \in S |-> IF lines[i] = None THEN 0 ELSE Subtotal(lines[i])], S)

SaveOrder(r, o) ==
  /\ req[r].phase = "order"
  /\ ~Exists(o)
  /\ order' = [order EXCEPT ![o] = [NoOrder EXCEPT
       !.buyer = req[r].buyer, !.method = req[r].method,
       !.total = SumOf(req[r].copy, req[r].todo)]]
  /\ req' = [req EXCEPT ![r].phase = "items", ![r].order = o]
  /\ UNCHANGED <<article, cart, bounds, history>>

(* variant: the item keeps everything that was read                         *)
LineWhole(s) == s

Line(s) == IF s = None THEN None
           ELSE [article |-> s.article, quantity |-> s.quantity, price |-> s.price]

(* All items in one save; a foreign key refuses an erased product, and then *)
(* the order is left without any.                                           *)
SaveItems(r) ==
  LET o == req[r].order IN
  /\ req[r].phase = "items"
  /\ IF \E i \in req[r].todo : article[req[r].copy[i].article].product = "erased"
     THEN Finish(r) /\ UNCHANGED order
     ELSE /\ order' = [order EXCEPT ![o].items =
                         [i \in Rows |-> Line(req[r].copy[i])]]
          /\ req' = [req EXCEPT ![r].phase = "stock"]
  /\ UNCHANGED <<article, cart, bounds, history>>

(* variant: one unit is taken whatever the quantity                         *)
RemainingLessOne(s) == s.seen.stock - 1

Remaining(s) == s.seen.stock - s.quantity

(* save(item.variant) or save(item.product): the row as it was read, less   *)
(* the quantity.  A variant's product is another row.                       *)
TakeStock(r, i) ==
  LET s == req[r].copy[i]
      a == s.article
      product == IF a \in Variants THEN article[a].product ELSE s.seen.product
      rest == req[r].todo \ {i}
  IN
  /\ req[r].phase = "stock" /\ i \in req[r].todo
  /\ article' = [article EXCEPT ![a] =
       [stock |-> Remaining(s), price |-> s.seen.price,
        active |-> s.seen.active, product |-> product]]
  /\ req' = [req EXCEPT ![r].todo = rest,
                        ![r].phase = IF rest = {} THEN "clear" ELSE "stock"]
  /\ UNCHANGED <<cart, order, bounds, history>>

(* variant: every order gets a pending payment                              *)
PrepaidAlways(method) == TRUE

(* Methods for which the checkout itself records a pending payment; TRANSFER *)
(* stands for GETNET_QR too, CASH for all the others.                       *)
Prepaid(method) == method = "TRANSFER"

(* variant: the cart keeps what was bought                                  *)
ClearedNone(r) == {}

(* The rows of the cart as it is now, not as it was read.                   *)
Cleared(r) == InCart(req[r].buyer)

ClearBought(r) ==
  /\ req[r].phase = "clear"
  /\ cart' = Without(Cleared(r))
  /\ IF Prepaid(req[r].method) THEN req' = [req EXCEPT ![r].phase = "payment"]
                              ELSE Finish(r)
  /\ UNCHANGED <<article, order, bounds, history>>

(* The pending payment of the order's total.                                *)
SavePayment(r) ==
  LET o == req[r].order IN
  /\ req[r].phase = "payment"
  /\ order' = [order EXCEPT ![o].paid = TRUE]
  /\ Finish(r)
  /\ UNCHANGED <<article, cart, bounds, history>>

------------------------------------------------------------------------------
(* ProductsService: update with variants or without, and remove.            *)

Edit(a) ==
  /\ edits < MaxEdits /\ edits' = edits + 1
  /\ disturbed' = disturbed \cup (IF \E q \in Requests : Taking(q, a) THEN {a} ELSE {})

SetArticle(a, w) ==
  /\ article' = [article EXCEPT ![a] = w]
  /\ offer' = [offer EXCEPT ![a] = w]
  /\ supplied' = [supplied EXCEPT ![a] = w.stock + Ordered(a)]

(* update: the columns that are sent are set, and a variant that is sent is *)
(* active; only a product without variants may keep the stock it has.  The  *)
(* transaction is one step here; Publications splits its reads and commit.  *)
UpdateArticle(a, n, p) ==
  /\ article[a].product = "listed"
  /\ SetArticle(a, [article[a] EXCEPT !.stock = n, !.price = p, !.active = TRUE])
  /\ Edit(a)
  /\ UNCHANGED <<cart, order, req, cartOps, faults, asked>>

(* syncProductVariants: a variant left out of an update is withdrawn.       *)
OmitVariant(a) ==
  /\ a \in Variants /\ article[a].product = "listed"
  /\ SetArticle(a, [article[a] EXCEPT !.stock = 0, !.active = FALSE])
  /\ Edit(a)
  /\ UNCHANGED <<cart, order, req, cartOps, faults, asked>>

(* remove: takes the product out of every cart; erases it, or marks it      *)
(* removed once it is in an order.  One transaction.                        *)
RemoveProduct(a) ==
  LET S    == {i \in Rows : cart[i] \notin Absent /\ cart[i].article = a}
      sold == \E o \in Orders, i \in Rows :
                order[o].items[i] # None /\ order[o].items[i].article = a
      w    == [article[a] EXCEPT !.product = IF sold THEN "removed" ELSE "erased"]
  IN
  /\ article[a].product = "listed"
  /\ edits < MaxEdits /\ edits' = edits + 1
  /\ cart' = Without(S)
  /\ asked' = [b \in Buyers |-> [asked[b] EXCEPT ![a] = @ - InCartOf(b, a)]]
  /\ article' = [article EXCEPT ![a] = w] /\ offer' = [offer EXCEPT ![a] = w]
  /\ disturbed' = disturbed
       \cup (IF \E q \in Requests : Taking(q, a) THEN {a} ELSE {})
       \cup {req[q].buyer : q \in {p \in Requests : req[p].phase # "idle" /\
                \/ Using(p, a)
                \/ \E i \in S : cart[i].buyer = req[p].buyer}}
  /\ UNCHANGED <<order, req, cartOps, faults, supplied>>

------------------------------------------------------------------------------
(* A crash or failed query ends a request where it is.  After its first     *)
(* write a checkout leaves its order half done.                             *)
BreakOff(r) ==
  LET p == req[r].phase IN
  /\ p # "idle"
  /\ faults < MaxFaults /\ faults' = faults + 1
  /\ disturbed' = disturbed
       \cup (IF p \in {"items", "stock", "clear", "payment"}
             THEN {req[r].buyer} ELSE {})
       \cup (IF p = "stock" THEN {req[r].copy[i].article : i \in req[r].todo} ELSE {})
  /\ Finish(r)
  /\ UNCHANGED <<article, cart, order, cartOps, edits, offer, supplied, asked>>

CartStep(r) ==
  \E b \in Buyers :
    \/ \E n \in Quantities, a \in Articles : AddProduct(r, b, a, n)
    \/ \E n \in Updates, i \in Rows : UpdateQuantity(r, b, i, n)
    \/ \E i \in Rows : RemoveItem(b, i)
    \/ ClearCart(b)

CheckoutStep(r) ==
  \/ \E b \in Buyers, method \in PaymentMethod : CheckoutBegin(r, b, method)
  \/ \E o \in Orders : SaveOrder(r, o)
  \/ SaveItems(r)
  \/ \E i \in Rows : TakeStock(r, i)
  \/ ClearBought(r) \/ SavePayment(r)

SellerStep(a) ==
  \/ \E of \in Offers : UpdateArticle(a, of[1], of[2])
  \/ \E of \in Offers : a \notin Variants /\ UpdateArticle(a, article[a].stock, of[2])
  \/ OmitVariant(a)
  \/ RemoveProduct(a)

Next ==
  \/ \E r \in Requests : CartStep(r) \/ SaveItem(r) \/ CheckoutStep(r) \/ BreakOff(r)
  \/ \E a \in Articles : SellerStep(a)

Spec == Init /\ [][Next]_vars

------------------------------------------------------------------------------
(* Safety.                                                                  *)

(* "El stock no puede ser negativo" (README.md:852): no interleaving of     *)
(* checkouts, edits and crashes makes it so, because each save takes from a *)
(* copy no more than that copy had (orders.service.ts:124).                 *)
StockNeverNegative == \A a \in Articles : article[a].stock >= 0

QuietArticle(a) == a \notin disturbed /\ \A q \in Requests : ~Taking(q, a)

(* An article on which no checkout overlapped another or an edit has the    *)
(* stock offered less what is in orders, and is as its seller left it.      *)
QuietStockIsExact ==
  \A a \in Articles : QuietArticle(a) =>
    article[a] = [offer[a] EXCEPT !.stock = supplied[a] - Ordered(a)]

QuietBuyer(b) == b \notin disturbed /\ \A q \in Requests : ~Busy(q, b)

(* Of a buyer whose requests never overlapped every unit asked for is in    *)
(* the cart or in an order, once, and the cart has one row for an article,  *)
(* which is still there unless a stale checkout has written its product.    *)
QuietCartIsExact ==
  \A b \in Buyers : QuietBuyer(b) =>
    /\ \A a \in Articles : InCartOf(b, a) + OrderedBy(b, a) = asked[b][a]
    /\ Doubled(InCart(b)) = {}
    /\ \A i \in InCart(b) : cart[i].article \in disturbed
                             \/ article[cart[i].article].product = "listed"

(* Of such a buyer every order has its items, which its total is computed   *)
(* from, and its payment if it is paid by transfer (orders.service.ts:128). *)
QuietOrderIsWhole ==
  \A o \in Orders : Exists(o) /\ QuietBuyer(order[o].buyer) =>
    /\ order[o].items # NoItems
    /\ order[o].total = SumOf(order[o].items, Rows)
    /\ order[o].paid = (order[o].method = "TRANSFER")
==============================================================================
