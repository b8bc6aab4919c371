---------------------------- MODULE CheckoutProofs ----------------------------
(***************************************************************************)
(* Proofs about Checkout for all buyers, articles, orders, numbers of      *)
(* concurrent requests, edits and faults.                                  *)
(***************************************************************************)
EXTENDS Checkout, SumLemmas, TLAPS

(* What a request works with: a cart item to be saved, or copies of cart    *)
(* rows whose article had, when read, the stock that is still to be taken.  *)
Sound(w) ==
  /\ w.phase = "saveItem" => w.buyer \in Buyers /\ w.article \in Articles
  /\ \A i \in w.todo : /\ w.copy[i] \in Snapshot
                       /\ w.copy[i].seen.stock >= w.copy[i].quantity

RequestsSound ==
  /\ req \in [Requests -> Request]
  /\ \A q \in Requests : Sound(req[q])

(* The inductive invariant.                                                 *)
StockSafe ==
  /\ article \in [Articles -> Article]
  /\ cart \in [Rows -> CartItem \cup Absent]
  /\ RequestsSound
  /\ StockNeverNegative

(* A request that starts, goes on or ends with a sound record.              *)
LEMMA RequestStep ==
  ASSUME RequestsSound, NEW r \in Requests, NEW w \in Request, Sound(w),
         req' = [req EXCEPT ![r] = w]
  PROVE  RequestsSound'
BY DEF RequestsSound, Sound

(* An idle request is sound.                                                *)
LEMMA IdleSound == Idle \in Request /\ Sound(Idle) /\ Idle.todo = {}
BY DEF Idle, Request, Sound, Phases, PaymentMethod, NoItems

(* A request that finishes.                                                 *)
LEMMA FinishStep ==
  ASSUME RequestsSound, NEW r \in Requests, Finish(r)
  PROVE  RequestsSound'
<1> DEFINE w == Idle
<1>1. w \in Request /\ Sound(w) /\ req' = [req EXCEPT ![r] = w]
  BY IdleSound DEF Finish
<1> HIDE DEF w
<1> QED
  BY <1>1, RequestStep

(* A checkout that goes on without touching its copies.                     *)
LEMMA GoOnStep ==
  ASSUME RequestsSound, NEW r \in Requests, NEW p \in Phases \ {"saveItem"},
         NEW T \in SUBSET req[r].todo, NEW o \in Orders \cup {None},
         req' = [req EXCEPT ![r] = [req[r] EXCEPT !.phase = p, !.todo = T, !.order = o]]
  PROVE  RequestsSound'
<1> DEFINE w == [req[r] EXCEPT !.phase = p, !.todo = T, !.order = o]
<1>1. req[r] \in Request /\ Sound(req[r])
  BY DEF RequestsSound
<1>2. w \in Request /\ w.phase = p /\ w.todo = T /\ w.copy = req[r].copy
  BY <1>1 DEF Request
<1>3. Sound(w)
  BY <1>1, <1>2 DEF Sound
<1>4. req' = [req EXCEPT ![r] = w]
  OBVIOUS
<1> HIDE DEF w
<1> QED
  BY <1>2, <1>3, <1>4, RequestStep

(* A cart row that is there has a buyer, an article and a price.            *)
LEMMA InCartType ==
  ASSUME cart \in [Rows -> CartItem \cup Absent], NEW b, NEW i \in InCart(b)
  PROVE  /\ i \in Rows /\ cart[i] \in CartItem /\ cart[i].buyer = b
         /\ cart[i].article \in Articles /\ cart[i].quantity \in Nat
         /\ cart[i].price \in Nat
<1>1. i \in Rows /\ cart[i] \in CartItem /\ cart[i].buyer = b
  BY DEF InCart
<1> QED
  BY <1>1 DEF CartItem

(* Deleting rows keeps the cart well typed.                                 *)
LEMMA WithoutType ==
  ASSUME cart \in [Rows -> CartItem \cup Absent], NEW S
  PROVE  Without(S) \in [Rows -> CartItem \cup Absent]
BY DEF Without, Absent

(* What a seller sends makes a row of an article with the stock sent.       *)
LEMMA EditedType ==
  ASSUME NEW x \in Article, NEW n \in Nat, NEW p \in Nat, NEW f \in BOOLEAN
  PROVE  LET w == [x EXCEPT !.stock = n, !.price = p, !.active = f]
         IN  w \in Article /\ w.stock = n
<1> DEFINE y == [x EXCEPT !.stock = n]
           z == [y EXCEPT !.price = p]
           w == [z EXCEPT !.active = f]
<1>1. y \in Article /\ y.stock = n
  BY DEF Article
<1> HIDE DEF y
<1>2. z \in Article /\ z.stock = n
  BY <1>1 DEF Article
<1> HIDE DEF z
<1>3. w \in Article /\ w.stock = n
  BY <1>2 DEF Article
<1> QED
  BY <1>3 DEF y, z

(* Before the first request every stock is as published.                    *)
LEMMA InitSafe == Init => StockSafe
<1> SUFFICES ASSUME Init PROVE StockSafe
  OBVIOUS
<1>1. article \in [Articles -> Article] /\ StockNeverNegative
  BY CheckoutAssumption DEF Init, Published, Article, StockNeverNegative
<1>2. cart \in [Rows -> CartItem \cup Absent]
  BY DEF Init, Absent
<1>3. RequestsSound
  BY IdleSound DEF Init, RequestsSound
<1> QED
  BY <1>1, <1>2, <1>3 DEF StockSafe

(* No step of the system makes a stock negative.                            *)
LEMMA StepSafe == StockSafe /\ [Next]_vars => StockSafe'
<1> SUFFICES ASSUME StockSafe, [Next]_vars PROVE StockSafe'
  OBVIOUS
<1>0. /\ article \in [Articles -> Article] /\ StockNeverNegative
      /\ cart \in [Rows -> CartItem \cup Absent] /\ RequestsSound
  BY DEF StockSafe
<1>1. ASSUME NEW r \in Requests, NEW b \in Buyers, NEW a \in Articles,
             NEW n \in Quantities, AddProduct(r, b, a, n)
      PROVE  StockSafe'
  <2> DEFINE job     == [Idle EXCEPT !.phase = "saveItem", !.buyer = b,
                           !.article = a, !.quantity = n, !.change = n,
                           !.price = article[a].price]
             onto(i) == [job EXCEPT !.row = i, !.quantity = cart[i].quantity + n,
                           !.price = cart[i].price]
  <2>1. n \in Nat /\ n \in Int /\ article[a].price \in Nat
    BY <1>0, CheckoutAssumption DEF Article
  <2>2. /\ job \in Request /\ job.phase = "saveItem" /\ job.buyer = b
        /\ job.article = a /\ job.todo = {}
    BY <2>1, IdleSound DEF Request, Phases, Idle
  <2>3. Sound(job)
    BY <2>2 DEF Sound
  <2>4. ASSUME NEW i \in InCart(b)
        PROVE  onto(i) \in Request /\ Sound(onto(i))
    <3> DEFINE j == job
               k == [j EXCEPT !.row = i, !.quantity = cart[i].quantity + n,
                              !.price = cart[i].price]
    <3>1. j \in Request /\ j.phase = "saveItem" /\ j.buyer = b
          /\ j.article = a /\ j.todo = {}
      BY <2>2
    <3>2. i \in Rows /\ cart[i].quantity + n \in Nat /\ cart[i].price \in Nat
      BY <1>0, <2>1, InCartType
    <3> HIDE DEF j
    <3>3. k \in Request /\ k.phase = "saveItem" /\ k.buyer = b
          /\ k.article = a /\ k.todo = {}
      BY <3>1, <3>2 DEF Request
    <3>4. Sound(k)
      BY <3>3 DEF Sound
    <3> QED
      BY <3>3, <3>4 DEF j
  <2>5. \/ req' = [req EXCEPT ![r] = job]
        \/ \E i \in InCart(b) : req' = [req EXCEPT ![r] = onto(i)]
    BY <1>1 DEF AddProduct
  <2>6. PICK w \in Request : Sound(w) /\ req' = [req EXCEPT ![r] = w]
    <3> HIDE DEF job, onto
    <3> QED
      BY <2>2, <2>3, <2>4, <2>5
  <2>7. RequestsSound'
    BY <1>0, <2>6, RequestStep
  <2> HIDE DEF job, onto
  <2>8. UNCHANGED <<article, cart>>
    BY <1>1 DEF AddProduct
  <2> QED
    BY <1>0, <2>7, <2>8 DEF StockSafe, StockNeverNegative
<1>2. ASSUME NEW r \in Requests, NEW b \in Buyers, NEW i \in Rows,
             NEW n \in Updates, UpdateQuantity(r, b, i, n)
      PROVE  StockSafe'
  <2> DEFINE w == [Idle EXCEPT
                     !.phase = "saveItem", !.buyer = b, !.article = cart[i].article,
                     !.row = i, !.quantity = n, !.change = n - cart[i].quantity,
                     !.price = cart[i].price]
  <2>1. /\ n \in Nat /\ cart[i].article \in Articles /\ cart[i].price \in Nat
        /\ n - cart[i].quantity \in Int
    BY <1>0, <1>2, InCartType, CheckoutAssumption DEF UpdateQuantity
  <2>2. /\ w \in Request /\ w.phase = "saveItem" /\ w.buyer = b
        /\ w.article = cart[i].article /\ w.todo = {}
    BY <2>1, IdleSound DEF Request, Phases, Idle
  <2>3. Sound(w)
    BY <2>1, <2>2 DEF Sound
  <2>4. req' = [req EXCEPT ![r] = w]
    BY <1>2 DEF UpdateQuantity
  <2> HIDE DEF w
  <2>5. RequestsSound'
    BY <1>0, <2>2, <2>3, <2>4, RequestStep
  <2> QED
    BY <1>0, <1>2, <2>5 DEF UpdateQuantity, StockSafe, StockNeverNegative
<1>3. ASSUME NEW r \in Requests, SaveItem(r) PROVE StockSafe'
  <2>1. Item(r) \in CartItem
    BY <1>0, <1>3 DEF SaveItem, Item, CartItem, RequestsSound, Sound, Request
  <2>2. cart' \in [Rows -> CartItem \cup Absent]
    BY <1>0, <1>3, <2>1 DEF SaveItem
  <2>3. RequestsSound'
    BY <1>0, <1>3, FinishStep DEF SaveItem
  <2> QED
    BY <1>0, <1>3, <2>2, <2>3 DEF SaveItem, StockSafe, StockNeverNegative
<1>4. ASSUME NEW b \in Buyers, NEW S, DeleteItems(b, S) PROVE StockSafe'
  <2>1. cart' \in [Rows -> CartItem \cup Absent]
    BY <1>0, <1>4, WithoutType DEF DeleteItems
  <2> QED
    BY <1>0, <1>4, <2>1
    DEF DeleteItems, StockSafe, StockNeverNegative, RequestsSound
<1>5. ASSUME NEW r \in Requests, NEW b \in Buyers, NEW method \in PaymentMethod,
             CheckoutBegin(r, b, method)
      PROVE  StockSafe'
  <2> DEFINE S    == InCart(b)
             copy == [i \in Rows |-> IF i \in S THEN Seen(i) ELSE None]
             w    == [Idle EXCEPT !.phase = "order", !.buyer = b, !.method = method,
                                  !.todo = S, !.copy = copy]
  <2>1. ASSUME NEW i \in S
        PROVE  /\ Seen(i) \in Snapshot
               /\ Seen(i).seen.stock >= Seen(i).quantity
    <3>1. cart[i].article \in Articles /\ cart[i].quantity \in Nat /\ cart[i].price \in Nat
      BY <1>0, InCartType
    <3>2. article[cart[i].article] \in Article
      BY <1>0, <3>1
    <3>3. article[cart[i].article].stock >= cart[i].quantity
      BY <1>5 DEF CheckoutBegin, Enough
    <3> QED
      BY <3>1, <3>2, <3>3 DEF Seen, Snapshot
  <2>2. S \subseteq Rows /\ copy \in [Rows -> Snapshot \cup {None}]
    BY <2>1 DEF InCart
  <2> HIDE DEF copy
  <2>3. w \in Request /\ w.phase = "order" /\ w.todo = S /\ w.copy = copy
    <3> HIDE DEF S
    <3> QED
      BY <2>2, IdleSound DEF Request, Phases, Idle
  <2>4. Sound(w)
    BY <2>1, <2>2, <2>3 DEF Sound, copy
  <2>5. req' = [req EXCEPT ![r] = w]
    BY <1>5 DEF CheckoutBegin, copy
  <2> HIDE DEF w
  <2>6. RequestsSound'
    BY <1>0, <2>3, <2>4, <2>5, RequestStep
  <2> QED
    BY <1>0, <1>5, <2>6 DEF CheckoutBegin, StockSafe, StockNeverNegative
<1>6. ASSUME NEW r \in Requests, NEW o \in Orders, SaveOrder(r, o) PROVE StockSafe'
  <2>1. req' = [req EXCEPT ![r] = [req[r] EXCEPT
                  !.phase = "items", !.todo = req[r].todo, !.order = o]]
    BY <1>0, <1>6 DEF SaveOrder, RequestsSound, Request
  <2>2. "items" \in Phases \ {"saveItem"}
    BY DEF Phases
  <2>3. RequestsSound'
    BY <1>0, <2>1, <2>2, GoOnStep
  <2> QED
    BY <1>0, <1>6, <2>3 DEF SaveOrder, StockSafe, StockNeverNegative
<1>7. ASSUME NEW r \in Requests, SaveItems(r) PROVE StockSafe'
  <2>1. req[r] \in Request /\ req[r].order \in Orders \cup {None}
    BY <1>0 DEF RequestsSound, Request
  <2>2. \/ Finish(r)
        \/ req' = [req EXCEPT ![r] = [req[r] EXCEPT !.phase = "stock",
                     !.todo = req[r].todo, !.order = req[r].order]]
    BY <1>0, <1>7, <2>1 DEF SaveItems, RequestsSound, Request
  <2>3. "stock" \in Phases \ {"saveItem"}
    BY DEF Phases
  <2>4. RequestsSound'
    BY <1>0, <2>1, <2>2, <2>3, FinishStep, GoOnStep
  <2> QED
    BY <1>0, <1>7, <2>4 DEF SaveItems, StockSafe, StockNeverNegative
<1>8. ASSUME NEW r \in Requests, NEW i \in Rows, TakeStock(r, i) PROVE StockSafe'
  <2> DEFINE s == req[r].copy[i]
             a == s.article
             product == IF a \in Variants THEN article[a].product ELSE s.seen.product
             n == [stock |-> Remaining(s), price |-> s.seen.price,
                   active |-> s.seen.active, product |-> product]
             rest == req[r].todo \ {i}
             p == IF rest = {} THEN "clear" ELSE "stock"
  <2>1. s \in Snapshot /\ s.seen.stock >= s.quantity
    BY <1>0, <1>8 DEF TakeStock, RequestsSound, Sound
  <2>2. /\ a \in Articles /\ s.quantity \in Nat /\ s.seen \in Article
        /\ article[a] \in Article
    BY <1>0, <2>1 DEF Snapshot
  <2>3. s.seen.stock \in Int
    BY <2>2 DEF Article
  <2>4. Remaining(s) \in Int /\ Remaining(s) >= 0
    BY <2>1, <2>2, <2>3 DEF Remaining
  <2>5. n \in Article /\ n.stock >= 0
    BY <2>2, <2>4 DEF Article
  <2>6. article' = [article EXCEPT ![a] = n]
    BY <1>8 DEF TakeStock
  <2>7. article' \in [Articles -> Article] /\ StockNeverNegative'
    <3> HIDE DEF n, a
    <3> QED
      BY <1>0, <2>2, <2>5, <2>6 DEF StockNeverNegative
  <2>8. req[r] \in Request /\ req[r].order \in Orders \cup {None}
    BY <1>0 DEF RequestsSound, Request
  <2>9. req' = [req EXCEPT ![r].todo = rest, ![r].phase = p]
    BY <1>8 DEF TakeStock
  <2>10. rest \in SUBSET req[r].todo /\ p \in Phases \ {"saveItem"}
    BY DEF Phases
  <2> HIDE DEF rest, p
  <2>11. req' = [req EXCEPT ![r] = [req[r] EXCEPT !.phase = p, !.todo = rest,
                                                  !.order = req[r].order]]
    BY <1>0, <2>8, <2>9 DEF RequestsSound, Request
  <2>12. RequestsSound'
    BY <1>0, <2>8, <2>10, <2>11, GoOnStep
  <2>13. UNCHANGED cart
    BY <1>8 DEF TakeStock
  <2> QED
    BY <1>0, <2>7, <2>12, <2>13 DEF StockSafe
<1>9. ASSUME NEW r \in Requests, ClearBought(r) PROVE StockSafe'
  <2>1. req[r] \in Request /\ req[r].order \in Orders \cup {None}
    BY <1>0 DEF RequestsSound, Request
  <2>2. \/ Finish(r)
        \/ req' = [req EXCEPT ![r] = [req[r] EXCEPT !.phase = "payment",
                     !.todo = req[r].todo, !.order = req[r].order]]
    BY <1>0, <1>9, <2>1 DEF ClearBought, RequestsSound, Request
  <2>3. "payment" \in Phases \ {"saveItem"}
    BY DEF Phases
  <2>4. RequestsSound'
    BY <1>0, <2>1, <2>2, <2>3, FinishStep, GoOnStep
  <2>5. cart' \in [Rows -> CartItem \cup Absent]
    BY <1>0, <1>9, WithoutType DEF ClearBought
  <2> QED
    BY <1>0, <1>9, <2>4, <2>5 DEF ClearBought, StockSafe, StockNeverNegative
<1>10. ASSUME NEW r \in Requests, SavePayment(r) PROVE StockSafe'
  <2>1. RequestsSound'
    BY <1>0, <1>10, FinishStep DEF SavePayment
  <2> QED
    BY <1>0, <1>10, <2>1 DEF SavePayment, StockSafe, StockNeverNegative
<1>11. ASSUME NEW a \in Articles, NEW n \in Nat, NEW p \in Nat, UpdateArticle(a, n, p)
       PROVE  StockSafe'
  <2> DEFINE w == [article[a] EXCEPT !.stock = n, !.price = p, !.active = TRUE]
  <2>0. article[a] \in Article
    BY <1>0
  <2>a. w \in Article /\ w.stock = n
    BY <2>0, EditedType
  <2>1. w \in Article /\ w.stock >= 0
    <3> HIDE DEF w
    <3> QED
      BY <2>a
  <2>2. article' = [article EXCEPT ![a] = w]
    BY <1>11 DEF UpdateArticle, SetArticle
  <2> HIDE DEF w
  <2>3. article' \in [Articles -> Article] /\ StockNeverNegative'
    BY <1>0, <2>1, <2>2 DEF StockNeverNegative
  <2> QED
    BY <1>0, <1>11, <2>3 DEF UpdateArticle, StockSafe, RequestsSound
<1>12. ASSUME NEW a \in Articles, OmitVariant(a) PROVE StockSafe'
  <2> DEFINE w == [article[a] EXCEPT !.stock = 0, !.active = FALSE]
  <2>0. article[a] \in Article
    BY <1>0
  <2>a. w \in Article /\ w.stock = 0
    <3> DEFINE y == [article[a] EXCEPT !.stock = 0]
               z == [y EXCEPT !.active = FALSE]
    <3>1. y \in Article /\ y.stock = 0
      BY <2>0 DEF Article
    <3> HIDE DEF y
    <3>2. z \in Article /\ z.stock = 0
      BY <3>1 DEF Article
    <3> QED
      BY <3>2 DEF y
  <2>1. w \in Article /\ w.stock >= 0
    <3> HIDE DEF w
    <3> QED
      BY <2>a
  <2>2. article' = [article EXCEPT ![a] = w]
    BY <1>12 DEF OmitVariant, SetArticle
  <2> HIDE DEF w
  <2>3. article' \in [Articles -> Article] /\ StockNeverNegative'
    BY <1>0, <2>1, <2>2 DEF StockNeverNegative
  <2> QED
    BY <1>0, <1>12, <2>3 DEF OmitVariant, StockSafe, RequestsSound
<1>13. ASSUME NEW a \in Articles, RemoveProduct(a) PROVE StockSafe'
  <2>1. PICK t \in {"removed", "erased"} :
          article' = [article EXCEPT ![a] = [article[a] EXCEPT !.product = t]]
    BY <1>13 DEF RemoveProduct
  <2> DEFINE w == [article[a] EXCEPT !.product = t]
  <2>2. w \in Article /\ w.stock = article[a].stock
    BY <1>0 DEF Article
  <2>3. article' = [article EXCEPT ![a] = w]
    BY <2>1
  <2> HIDE DEF w
  <2>4. article' \in [Articles -> Article] /\ StockNeverNegative'
    BY <1>0, <2>2, <2>3 DEF StockNeverNegative
  <2>5. cart' \in [Rows -> CartItem \cup Absent]
    BY <1>0, <1>13, WithoutType DEF RemoveProduct
  <2>6. UNCHANGED req
    BY <1>13 DEF RemoveProduct
  <2> QED
    BY <1>0, <2>4, <2>5, <2>6 DEF StockSafe, RequestsSound
<1>14. ASSUME NEW r \in Requests, BreakOff(r) PROVE StockSafe'
  <2>1. RequestsSound'
    BY <1>0, <1>14, FinishStep DEF BreakOff
  <2> QED
    BY <1>0, <1>14, <2>1 DEF BreakOff, StockSafe, StockNeverNegative
<1>15. ASSUME NEW r \in Requests, CartStep(r) PROVE StockSafe'
  BY <1>1, <1>2, <1>4, <1>15 DEF CartStep, RemoveItem, ClearCart
<1>16. ASSUME NEW r \in Requests, CheckoutStep(r) PROVE StockSafe'
  BY <1>5, <1>6, <1>7, <1>8, <1>9, <1>10, <1>16 DEF CheckoutStep
<1>17. ASSUME NEW a \in Articles, SellerStep(a) PROVE StockSafe'
  <2>1. ASSUME NEW of \in Offers PROVE of[1] \in Nat /\ of[2] \in Nat
    BY <2>1, CheckoutAssumption
  <2>2. article[a].stock \in Nat
    BY <1>0 DEF Article, StockNeverNegative
  <2> QED
    BY <1>11, <1>12, <1>13, <1>17, <2>1, <2>2 DEF SellerStep
<1>18. ASSUME UNCHANGED vars PROVE StockSafe'
  BY <1>0, <1>18 DEF vars, StockSafe, StockNeverNegative, RequestsSound
<1> QED
  BY <1>3, <1>14, <1>15, <1>16, <1>17, <1>18 DEF Next

(* "El stock no puede ser negativo": it never is, however checkouts, edits  *)
(* and crashes interleave, since a checkout saves what it has read less     *)
(* what it has compared with it.                                            *)
THEOREM NeverNegative == Spec => []StockNeverNegative
<1>1. Init => StockSafe
  BY InitSafe
<1>2. StockSafe /\ [Next]_vars => StockSafe'
  BY StepSafe
<1>3. StockSafe => StockNeverNegative
  BY DEF StockSafe
<1> QED
  BY <1>1, <1>2, <1>3, PTL DEF Spec

------------------------------------------------------------------------------
(* What every request may rely on, whatever the others do.                  *)

(* The request has inserted the row of an order.                            *)
Holding  == {"items", "stock", "clear", "payment"}
Holds(q) == req[q].phase \in Holding

(* An order belongs to one checkout, which alone fills it in.               *)
OrdersKept ==
  /\ \A o \in Orders : ~Exists(o) => order[o] = NoOrder
  /\ \A q \in Requests : Holds(q) =>
       /\ req[q].order \in Orders /\ order[req[q].order].buyer = req[q].buyer
       /\ req[q].phase = "items" => order[req[q].order].items = NoItems
  /\ \A q1, q2 \in Requests :
       Holds(q1) /\ Holds(q2) /\ req[q1].order = req[q2].order => q1 = q2

(* The stock still to be taken is that of the rows read, until the items    *)
(* are saved; before and after the checkout there is none.                  *)
Regular(w) ==
  /\ w.phase \in {"order", "items"}
       => w.todo = {i \in Rows : w.copy[i] # None} /\ w.todo # {}
  /\ w.phase \in {"idle", "saveItem", "clear", "payment"} => w.todo = {}
  /\ w.phase # "idle" => w.buyer \in Buyers
  /\ w.phase \in Phases \ {"saveItem"} => w.article = None

TodoKept == \A q \in Requests : Regular(req[q])

(* No cart holds an article erased from its table, nor has a checkout read  *)
(* one in that state.                                                       *)
NoneErased ==
  /\ \A i \in Rows : cart[i] \notin Absent => article[cart[i].article].product # "erased"
  /\ \A q \in Requests, i \in Rows :
       i \in req[q].todo => req[q].copy[i].seen.product # "erased"

(* A cart row, once inserted, stays with its buyer.                         *)
RowsKept ==
  \A q \in Requests : req[q].phase = "saveItem" /\ req[q].row # None =>
    /\ cart[req[q].row] # Unused
    /\ cart[req[q].row] \notin Absent => cart[req[q].row].buyer = req[q].buyer
    /\ \A p \in Requests : req[p].phase = "saveItem" /\ req[p].row = req[q].row
         => req[p].buyer = req[q].buyer

Kept == OrdersKept /\ TodoKept /\ NoneErased /\ RowsKept

(* Article a, on which no checkout overlapped another or an edit, is as its *)
(* seller left it, less what is in orders, but for n units of an order      *)
(* whose stock is not taken yet.                                            *)
Shelf(a, n) ==
  article[a] = [offer[a] EXCEPT !.stock = supplied[a] - Ordered(a) + n]

Takes(q, i, a) == i \in req[q].todo /\ req[q].copy[i].article = a

ArticleInOrder(a) ==
  /\ \A q1, q2 \in Requests, i1, i2 \in Rows :
       Takes(q1, i1, a) /\ Takes(q2, i2, a) => q1 = q2 /\ i1 = i2
  /\ \A q \in Requests, i \in Rows : Takes(q, i, a) => req[q].copy[i].seen = article[a]
  /\ (\A q \in Requests, i \in Rows : Takes(q, i, a) => req[q].phase # "stock")
       => Shelf(a, 0)
  /\ \A q \in Requests, i \in Rows : Takes(q, i, a) /\ req[q].phase = "stock"
       => Shelf(a, req[q].copy[i].quantity)

ArticlesInOrder == \A a \in Articles \ disturbed : ArticleInOrder(a)

(* Buyer b, whose requests never overlapped: one row for an article, every  *)
(* unit asked for accounted for, and what the one request at work has read. *)
Present(a) == a \in disturbed \/ article[a].product = "listed"

Bought(q) == req[q].phase \in {"stock", "clear"}

RowsSound(b) ==
  /\ \A i, j \in InCart(b) : cart[i].article = cart[j].article => i = j
  /\ \A i \in InCart(b) : Present(cart[i].article)

Unbought(b, a) ==
  IF \E q \in Requests : Busy(q, b) /\ Bought(q) THEN 0 ELSE InCartOf(b, a)

CartSound(b) ==
  /\ RowsSound(b)
  /\ \A a \in Articles : OrderedBy(b, a) = asked[b][a] - Unbought(b, a)

Saving(q, b) ==
  /\ Present(req[q].article)
  /\ IF req[q].row = None
     THEN /\ \A i \in InCart(b) : cart[i].article # req[q].article
          /\ req[q].change = req[q].quantity
     ELSE /\ req[q].row \in InCart(b) /\ cart[req[q].row].article = req[q].article
          /\ req[q].change = req[q].quantity - cart[req[q].row].quantity

Buying(q, b) ==
  /\ req[q].todo = InCart(b)
  /\ \A i \in InCart(b) : /\ req[q].copy[i].article = cart[i].article
                          /\ req[q].copy[i].quantity = cart[i].quantity

Whole(o) ==
  /\ order[o].items # NoItems
  /\ order[o].total = SumOf(order[o].items, Rows)

Loose(o)   == \A q \in Requests : Holds(q) => req[q].order # o
Settled(o) == Whole(o) /\ order[o].paid = (order[o].method = "TRANSFER")

OrderSound(q, o) ==
  /\ ~order[o].paid /\ order[o].method = req[q].method
  /\ IF req[q].phase = "items" THEN order[o].total = SumOf(req[q].copy, req[q].todo)
                               ELSE Whole(o)
  /\ req[q].phase = "payment" => req[q].method = "TRANSFER"

BuyerInOrder(b) ==
  /\ \A q1, q2 \in Requests : Busy(q1, b) /\ Busy(q2, b) => q1 = q2
  /\ CartSound(b)
  /\ \A q \in Requests : Busy(q, b) =>
       /\ req[q].phase = "saveItem" => Saving(q, b)
       /\ req[q].phase \in {"order", "items"} => Buying(q, b)
       /\ Holds(q) => OrderSound(q, req[q].order)
  /\ \A o \in OrdersOf(b) : Loose(o) => Settled(o)

BuyersInOrder == \A b \in Buyers \ disturbed : BuyerInOrder(b)

------------------------------------------------------------------------------
(* Units in rows: how they change with the rows.                            *)

Countable(lines, S, a) == \A i \in S : LineUnits(lines[i], a) \in Int

(* They are an integer,                                                     *)
LEMMA UnitsType ==
  ASSUME NEW lines, NEW S, IsFiniteSet(S), NEW a, Countable(lines, S, a)
  PROVE  UnitsIn(lines, S, a) \in Int
<1> DEFINE F == [i \in S |-> LineUnits(lines[i], a)]
<1>1. \A i \in S : F[i] \in Int
  BY DEF Countable
<1> HIDE DEF F
<1>2. SumFunctionOnSet(F, S) \in Int
  BY <1>1, SumType
<1> QED
  BY <1>2 DEF UnitsIn, F

(* depend on those rows only,                                               *)
LEMMA UnitsEqual ==
  ASSUME NEW lines, NEW more, NEW S, NEW a,
         \A i \in S : LineUnits(lines[i], a) = LineUnits(more[i], a)
  PROVE  UnitsIn(lines, S, a) = UnitsIn(more, S, a)
<1>1. [i \in S |-> LineUnits(lines[i], a)] = [i \in S |-> LineUnits(more[i], a)]
  OBVIOUS
<1> QED
  BY <1>1 DEF UnitsIn

(* are none where no row has the article,                                   *)
LEMMA UnitsZero ==
  ASSUME NEW lines, NEW S, IsFiniteSet(S), NEW a, \A i \in S : LineUnits(lines[i], a) = 0
  PROVE  UnitsIn(lines, S, a) = 0
<1> DEFINE F == [i \in S |-> LineUnits(lines[i], a)]
<1>1. \A i \in S : F[i] = 0
  OBVIOUS
<1> HIDE DEF F
<1>2. SumFunctionOnSet(F, S) = 0
  BY <1>1, SumZero
<1> QED
  BY <1>2 DEF UnitsIn, F

(* grow by what a row brings that joins,                                    *)
LEMMA UnitsJoin ==
  ASSUME NEW lines, NEW S, IsFiniteSet(S), NEW x, x \notin S, NEW a,
         Countable(lines, S \cup {x}, a)
  PROVE  UnitsIn(lines, S \cup {x}, a) = UnitsIn(lines, S, a) + LineUnits(lines[x], a)
<1> DEFINE T == S \cup {x}
           F == [i \in S |-> LineUnits(lines[i], a)]
           G == [i \in T |-> LineUnits(lines[i], a)]
<1>1. G[x] = LineUnits(lines[x], a) /\ G[x] \in Int
      /\ \A i \in S : F[i] \in Int /\ F[i] = G[i]
  BY DEF Countable
<1> HIDE DEF F, G
<1>2. SumFunctionOnSet(G, S \cup {x}) = SumFunctionOnSet(F, S) + G[x]
  BY <1>1, SumInsert
<1> QED
  BY <1>1, <1>2 DEF UnitsIn, F, G, T

(* and shrink by what a row took that leaves.                               *)
LEMMA UnitsLeave ==
  ASSUME NEW lines, NEW S, IsFiniteSet(S), NEW x \in S, NEW a, Countable(lines, S, a)
  PROVE  UnitsIn(lines, S \ {x}, a) = UnitsIn(lines, S, a) - LineUnits(lines[x], a)
<1> DEFINE T == S \ {x}
<1>1. IsFiniteSet(T) /\ x \notin T /\ T \cup {x} = S
  BY FS_RemoveElement
<1>2. Countable(lines, T \cup {x}, a) /\ Countable(lines, T, a) /\ LineUnits(lines[x], a) \in Int
  BY <1>1 DEF Countable
<1> HIDE DEF T
<1>3. UnitsIn(lines, T \cup {x}, a) = UnitsIn(lines, T, a) + LineUnits(lines[x], a)
  BY <1>1, <1>2, UnitsJoin
<1>4. UnitsIn(lines, T, a) \in Int
  BY <1>1, <1>2, UnitsType
<1>5. UnitsIn(lines, S, a) = UnitsIn(lines, T, a) + LineUnits(lines[x], a)
  BY <1>1, <1>3
<1>6. ASSUME NEW m \in Int, NEW n \in Int, NEW k, k = m + n PROVE m = k - n
  BY <1>6
<1>7. UnitsIn(lines, T, a) = UnitsIn(lines, S, a) - LineUnits(lines[x], a)
  BY <1>2, <1>4, <1>5, <1>6
<1> QED
  BY <1>7 DEF T

(* One row that changes,                                                    *)
LEMMA UnitsChange ==
  ASSUME NEW lines, NEW more, NEW S, IsFiniteSet(S), NEW x \in S, NEW a,
         Countable(lines, S, a), LineUnits(more[x], a) \in Int,
         \A i \in S \ {x} : more[i] = lines[i]
  PROVE  UnitsIn(more, S, a)
           = UnitsIn(lines, S, a) - LineUnits(lines[x], a) + LineUnits(more[x], a)
<1> DEFINE F == [i \in S |-> LineUnits(lines[i], a)]
           G == [i \in S |-> LineUnits(more[i], a)]
<1>1. /\ F[x] = LineUnits(lines[x], a) /\ G[x] = LineUnits(more[x], a)
      /\ \A i \in S : F[i] \in Int /\ G[i] \in Int
      /\ \A i \in S \ {x} : F[i] = G[i]
  BY DEF Countable
<1> HIDE DEF F, G
<1>2. SumFunctionOnSet(G, S) = SumFunctionOnSet(F, S) - F[x] + G[x]
  BY <1>1, SumChange
<1> QED
  BY <1>1, <1>2 DEF UnitsIn, F, G

(* rows without the article that are left out,                              *)
LEMMA UnitsSubset ==
  ASSUME NEW lines, NEW S, IsFiniteSet(S), NEW T \in SUBSET S, NEW a,
         Countable(lines, T, a), \A i \in S \ T : LineUnits(lines[i], a) = 0
  PROVE  UnitsIn(lines, S, a) = UnitsIn(lines, T, a)
<1> DEFINE F == [i \in S |-> LineUnits(lines[i], a)]
           G == [i \in T |-> LineUnits(lines[i], a)]
<1>1. /\ \A i \in S : F[i] \in Int
      /\ \A i \in S \ T : F[i] = 0
      /\ \A i \in T : F[i] = G[i]
  BY DEF Countable
<1>2. IsFiniteSet(T)
  BY FS_Subset
<1> HIDE DEF F, G
<1>3. SumFunctionOnSet(F, S) = SumFunctionOnSet(F, T)
  BY <1>1, SumSubset
<1>4. SumFunctionOnSet(F, T) = SumFunctionOnSet(G, T)
  BY <1>1, <1>2, SumEqual
<1> QED
  BY <1>3, <1>4 DEF UnitsIn, F, G

(* and the only row with the article.                                       *)
LEMMA UnitsOnly ==
  ASSUME NEW lines, NEW S, IsFiniteSet(S), NEW x \in S, NEW a,
         LineUnits(lines[x], a) \in Int, \A i \in S \ {x} : LineUnits(lines[i], a) = 0
  PROVE  UnitsIn(lines, S, a) = LineUnits(lines[x], a)
<1>1. Countable(lines, {x}, a) /\ {x} \in SUBSET S /\ IsFiniteSet({x})
  BY FS_Singleton DEF Countable
<1>2. UnitsIn(lines, S, a) = UnitsIn(lines, {x}, a)
  BY <1>1, UnitsSubset
<1>3. IsFiniteSet({}) /\ {} \cup {x} = {x}
  BY FS_EmptySet
<1>4. UnitsIn(lines, {}, a) = 0
  BY <1>3, UnitsZero
<1>5. Countable(lines, {} \cup {x}, a) /\ x \notin {}
  BY <1>1, <1>3
<1>6. UnitsIn(lines, {} \cup {x}, a) = UnitsIn(lines, {}, a) + LineUnits(lines[x], a)
  BY <1>3, <1>5, UnitsJoin
<1> QED
  BY <1>2, <1>3, <1>4, <1>6

(* Units in the orders S of a table of orders.                              *)
Sales(ord, S, a) == SumFunctionOnSet([o \in S |-> UnitsIn(ord[o].items, Rows, a)], S)

LEMMA SalesOf ==
  /\ \A S, a : UnitsOrdered(S, a) = Sales(order, S, a)
  /\ \A a : Ordered(a) = Sales(order, Orders, a) /\ Ordered(a)' = Sales(order', Orders, a)
  /\ \A b, a : /\ OrderedBy(b, a) = Sales(order, OrdersOf(b), a)
               /\ OrderedBy(b, a)' = Sales(order', OrdersOf(b)', a)
BY DEF Sales, UnitsOrdered, Ordered, OrderedBy, OrderUnits

(* Tables of orders whose units can be added up.                            *)
Summable(ord, S, a) == \A o \in S : UnitsIn(ord[o].items, Rows, a) \in Int

LEMMA SalesType ==
  ASSUME NEW ord, NEW S, IsFiniteSet(S), NEW a, Summable(ord, S, a)
  PROVE  Sales(ord, S, a) \in Int
<1> DEFINE F == [o \in S |-> UnitsIn(ord[o].items, Rows, a)]
<1>1. \A o \in S : F[o] \in Int
  BY DEF Summable
<1> HIDE DEF F
<1>2. SumFunctionOnSet(F, S) \in Int
  BY <1>1, SumType
<1> QED
  BY <1>2 DEF Sales, F

LEMMA SalesEqual ==
  ASSUME NEW ord, NEW more, NEW S, NEW a,
         \A o \in S : UnitsIn(ord[o].items, Rows, a) = UnitsIn(more[o].items, Rows, a)
  PROVE  Sales(ord, S, a) = Sales(more, S, a)
<1>1. [o \in S |-> UnitsIn(ord[o].items, Rows, a)] = [o \in S |-> UnitsIn(more[o].items, Rows, a)]
  OBVIOUS
<1> QED
  BY <1>1 DEF Sales

(* One order gets its items.                                                *)
LEMMA SalesChange ==
  ASSUME NEW ord, NEW more, NEW S, IsFiniteSet(S), NEW x \in S, NEW a,
         Summable(ord, S, a), UnitsIn(more[x].items, Rows, a) \in Int,
         \A o \in S \ {x} : more[o].items = ord[o].items
  PROVE  Sales(more, S, a) = Sales(ord, S, a) - UnitsIn(ord[x].items, Rows, a)
                               + UnitsIn(more[x].items, Rows, a)
<1> DEFINE F == [o \in S |-> UnitsIn(ord[o].items, Rows, a)]
           G == [o \in S |-> UnitsIn(more[o].items, Rows, a)]
<1>1. /\ F[x] = UnitsIn(ord[x].items, Rows, a) /\ G[x] = UnitsIn(more[x].items, Rows, a)
      /\ \A o \in S : F[o] \in Int /\ G[o] \in Int
      /\ \A o \in S \ {x} : F[o] = G[o]
  BY DEF Summable
<1> HIDE DEF F, G
<1>2. SumFunctionOnSet(G, S) = SumFunctionOnSet(F, S) - F[x] + G[x]
  BY <1>1, SumChange
<1> QED
  BY <1>1, <1>2 DEF Sales, F, G

(* An order without items yet joins those of its buyer.                     *)
LEMMA SalesJoin ==
  ASSUME NEW ord, NEW more, NEW S, IsFiniteSet(S), NEW x, x \notin S, NEW a,
         Summable(ord, S, a), UnitsIn(more[x].items, Rows, a) = 0,
         \A o \in S : more[o].items = ord[o].items
  PROVE  Sales(more, S \cup {x}, a) = Sales(ord, S, a)
<1> DEFINE T == S \cup {x}
           F == [o \in S |-> UnitsIn(ord[o].items, Rows, a)]
           G == [o \in T |-> UnitsIn(more[o].items, Rows, a)]
<1>1. G[x] = 0 /\ \A o \in S : F[o] \in Int /\ F[o] = G[o]
  BY DEF Summable
<1> HIDE DEF F, G
<1>2. SumFunctionOnSet(G, S \cup {x}) = SumFunctionOnSet(F, S) + G[x]
  BY <1>1, SumInsert
<1>3. SumFunctionOnSet(F, S) \in Int
  BY <1>1, SumType
<1>4. SumFunctionOnSet(G, S \cup {x}) = SumFunctionOnSet(F, S)
  BY <1>1, <1>2, <1>3
<1> QED
  BY <1>4 DEF Sales, F, G, T

------------------------------------------------------------------------------
(* The types of all variables.                                              *)

RestTyped ==
  /\ order \in [Orders -> Order]
  /\ cartOps \in 0..MaxCartOps /\ edits \in 0..MaxEdits /\ faults \in 0..MaxFaults
  /\ offer \in [Articles -> Article] /\ supplied \in [Articles -> Int]
  /\ asked \in [Buyers -> [Articles -> Int]]
  /\ disturbed \subseteq Buyers \cup Articles

LEMMA TypeParts == StockSafe /\ RestTyped => TypeOK
BY DEF StockSafe, RequestsSound, RestTyped, TypeOK

(* Units in carts and orders can be added up.                               *)
LEMMA CartCountable ==
  ASSUME cart \in [Rows -> CartItem \cup Absent], NEW S \in SUBSET Rows,
         \A i \in S : cart[i] \notin Absent, NEW a
  PROVE  /\ Countable(cart, S, a) /\ IsFiniteSet(S) /\ UnitsIn(cart, S, a) \in Int
         /\ \A i \in S : LineUnits(cart[i], a) \in Nat
<1>1. IsFiniteSet(S)
  BY CheckoutAssumption, FS_Subset
<1>2. \A i \in S : LineUnits(cart[i], a) \in Nat
  BY DEF CartItem, LineUnits
<1>3. Countable(cart, S, a)
  BY <1>2 DEF Countable
<1>4. UnitsIn(cart, S, a) \in Int
  BY <1>1, <1>3, UnitsType
<1> QED
  BY <1>1, <1>2, <1>3, <1>4

LEMMA OwnCountable ==
  ASSUME cart \in [Rows -> CartItem \cup Absent], NEW b, NEW a
  PROVE  /\ InCart(b) \in SUBSET Rows /\ \A i \in InCart(b) : cart[i] \notin Absent
         /\ Countable(cart, InCart(b), a) /\ IsFiniteSet(InCart(b))
         /\ InCartOf(b, a) = UnitsIn(cart, InCart(b), a) /\ InCartOf(b, a) \in Int
<1>1. InCart(b) \in SUBSET Rows /\ \A i \in InCart(b) : cart[i] \notin Absent
  BY DEF InCart
<1> QED
  BY <1>1, CartCountable DEF InCartOf

LEMMA ItemsCountable ==
  ASSUME NEW items \in [Rows -> OrderItem \cup {None}], NEW a
  PROVE  Countable(items, Rows, a) /\ UnitsIn(items, Rows, a) \in Int
<1>1. Countable(items, Rows, a)
  BY DEF Countable, LineUnits, OrderItem
<1> QED
  BY <1>1, CheckoutAssumption, UnitsType

LEMMA OrdersCountable ==
  ASSUME NEW ord \in [Orders -> Order], NEW S \in SUBSET Orders, NEW a
  PROVE  IsFiniteSet(S) /\ Summable(ord, S, a) /\ Sales(ord, S, a) \in Int
<1>1. IsFiniteSet(S)
  BY CheckoutAssumption, FS_Subset
<1>2. ASSUME NEW o \in S PROVE UnitsIn(ord[o].items, Rows, a) \in Int
  <2>1. ord[o].items \in [Rows -> OrderItem \cup {None}]
    BY DEF Order
  <2> QED
    BY <2>1, ItemsCountable
<1>3. Summable(ord, S, a)
  BY <1>2 DEF Summable
<1> QED
  BY <1>1, <1>3, SalesType

(* The total of a checkout that is about to insert its order.               *)
LEMMA TotalType ==
  ASSUME NEW copy, NEW S \in SUBSET Rows, \A i \in S : copy[i] \in Snapshot
  PROVE  SumOf(copy, S) \in Nat
<1> DEFINE F == [i \in S |-> IF copy[i] = None THEN 0 ELSE Subtotal(copy[i])]
<1>1. IsFiniteSet(S)
  BY CheckoutAssumption, FS_Subset
<1>2. ASSUME NEW i \in S PROVE F[i] \in Nat
  <2>1. copy[i].price \in Nat /\ copy[i].quantity \in Nat
    BY DEF Snapshot
  <2>2. copy[i].price * copy[i].quantity \in Nat
    BY <2>1
  <2> QED
    BY <2>2 DEF Subtotal
<1> HIDE DEF F
<1>3. SumFunctionOnSet(F, S) \in Nat
  BY <1>1, <1>2, SumNat
<1> QED
  BY <1>3 DEF SumOf, F

(* The items of an order are what was read, without the article's row.      *)
LEMMA LineType ==
  ASSUME NEW s \in Snapshot
  PROVE  /\ s # None /\ Line(s) \in OrderItem /\ Line(s) # None
         /\ Line(s) = [article |-> s.article, quantity |-> s.quantity, price |-> s.price]
         /\ \A a : LineUnits(Line(s), a) = LineUnits(s, a)
<1>1. s # None /\ s.article \in Articles /\ s.quantity \in Nat /\ s.price \in Nat
  BY AbsentAssumption DEF Snapshot
<1>2. Line(s) = [article |-> s.article, quantity |-> s.quantity, price |-> s.price]
  BY <1>1 DEF Line
<1>3. Line(s) \in OrderItem
  BY <1>1, <1>2 DEF OrderItem
<1>4. Line(s) # None
  BY <1>3, AbsentAssumption
<1>5. \A a : LineUnits(Line(s), a) = LineUnits(s, a)
  BY <1>1, <1>2, <1>4 DEF LineUnits
<1> QED
  BY <1>1, <1>2, <1>3, <1>4, <1>5

LEMMA LinesType ==
  ASSUME NEW copy \in [Rows -> Snapshot \cup {None}]
  PROVE  [i \in Rows |-> Line(copy[i])] \in [Rows -> OrderItem \cup {None}]
<1>1. ASSUME NEW i \in Rows PROVE Line(copy[i]) \in OrderItem \cup {None}
  <2>1. CASE copy[i] = None
    BY <2>1 DEF Line
  <2>2. CASE copy[i] \in Snapshot
    BY <2>2, LineType
  <2> QED
    BY <2>1, <2>2
<1> QED
  BY <1>1

(* What may be marked as disturbed.                                         *)
LEMMA ContendType == \A b \in Buyers : Contended(b) \subseteq Buyers
BY DEF Contended

LEMMA TakingType ==
  ASSUME RequestsSound, NEW q \in Requests, NEW i \in req[q].todo
  PROVE  i \in Rows /\ req[q].copy[i] \in Snapshot /\ req[q].copy[i].article \in Articles
<1>1. i \in Rows /\ req[q].copy[i] \in Snapshot
  BY DEF RequestsSound, Sound, Request
<1> QED
  BY <1>1 DEF Snapshot

LEMMA InitTyped == Init => RestTyped
<1> SUFFICES ASSUME Init PROVE RestTyped
  OBVIOUS
<1>1. order \in [Orders -> Order]
  BY DEF Init, NoOrder, NoItems, Order, PaymentMethod
<1>2. offer \in [Articles -> Article] /\ supplied \in [Articles -> Int]
  BY CheckoutAssumption DEF Init, Published, Article
<1>3. /\ cartOps \in 0..MaxCartOps /\ edits \in 0..MaxEdits /\ faults \in 0..MaxFaults
      /\ asked \in [Buyers -> [Articles -> Int]]
      /\ disturbed \subseteq Buyers \cup Articles
  BY CheckoutAssumption DEF Init
<1> QED
  BY <1>1, <1>2, <1>3 DEF RestTyped

(* A change of the cart counts, and may disturb its buyer.                  *)
LEMMA CartChangeTyped ==
  ASSUME RestTyped, NEW b \in Buyers, CartChange(b)
  PROVE  cartOps' \in 0..MaxCartOps /\ disturbed' \subseteq Buyers \cup Articles
BY ContendType, CheckoutAssumption DEF RestTyped, CartChange

LEMMA SellerTyped ==
  ASSUME StockSafe, RestTyped, NEW a \in Articles, NEW w \in Article, w.stock >= 0,
         SetArticle(a, w), Edit(a), UNCHANGED <<cart, order, req, cartOps, faults, asked>>
  PROVE  RestTyped'
<1>0. order \in [Orders -> Order] /\ edits \in 0..MaxEdits
  BY DEF RestTyped
<1>1. Ordered(a) \in Int
  BY <1>0, OrdersCountable, SalesOf
<1>2. w.stock \in Int
  BY DEF Article
<1>3. w.stock + Ordered(a) \in Int
  BY <1>1, <1>2
<1>4. offer' \in [Articles -> Article] /\ supplied' \in [Articles -> Int]
  BY <1>3 DEF RestTyped, SetArticle
<1>5. edits' \in 0..MaxEdits
  BY <1>0, CheckoutAssumption DEF Edit
<1>6. disturbed' \subseteq Buyers \cup Articles
  BY DEF RestTyped, Edit
<1> QED
  BY <1>4, <1>5, <1>6 DEF RestTyped

LEMMA RestStep == StockSafe /\ RestTyped /\ Kept /\ [Next]_vars => RestTyped'
<1> SUFFICES ASSUME StockSafe, RestTyped, Kept, [Next]_vars PROVE RestTyped'
  OBVIOUS
<1>0. /\ article \in [Articles -> Article] /\ StockNeverNegative
      /\ cart \in [Rows -> CartItem \cup Absent] /\ RequestsSound
      /\ req \in [Requests -> Request]
  BY DEF StockSafe, RequestsSound
<1>1. ASSUME NEW q \in Requests, req[q].phase # "idle" PROVE req[q].buyer \in Buyers
  BY <1>1 DEF Kept, TodoKept, Regular
<1>2. ASSUME NEW r \in Requests, NEW b \in Buyers, NEW a \in Articles,
             NEW n \in Quantities, AddProduct(r, b, a, n)
      PROVE  RestTyped'
  BY <1>2, CartChangeTyped DEF AddProduct, RestTyped
<1>3. ASSUME NEW r \in Requests, NEW b \in Buyers, NEW i \in Rows,
             NEW n \in Updates, UpdateQuantity(r, b, i, n)
      PROVE  RestTyped'
  BY <1>3, CartChangeTyped DEF UpdateQuantity, RestTyped
<1>4. ASSUME NEW r \in Requests, SaveItem(r) PROVE RestTyped'
  <2> DEFINE b == req[r].buyer
             a == req[r].article
             c == req[r].change
  <2>1. b \in Buyers /\ a \in Articles /\ c \in Int
    BY <1>0, <1>4 DEF SaveItem, RequestsSound, Sound, Request
  <2>2. asked[b][a] + c \in Int
    BY <2>1 DEF RestTyped
  <2>3. asked' = asked \/ asked' = [asked EXCEPT ![b][a] = @ + c]
    BY <1>4 DEF SaveItem
  <2> HIDE DEF b, a, c
  <2>4. asked' \in [Buyers -> [Articles -> Int]]
    BY <2>1, <2>2, <2>3 DEF RestTyped
  <2>5. UNCHANGED <<order, bounds, offer, supplied, disturbed>>
    BY <1>4 DEF SaveItem
  <2> QED
    BY <2>4, <2>5 DEF RestTyped, bounds
<1>5. ASSUME NEW b \in Buyers, NEW S \in SUBSET InCart(b), DeleteItems(b, S) PROVE RestTyped'
  <2>1. \A i \in S : i \in Rows /\ cart[i] \notin Absent
    BY DEF InCart
  <2>2. \A a : UnitsIn(cart, S, a) \in Int
    BY <1>0, <2>1, CartCountable
  <2>3. \A a \in Articles : asked[b][a] - UnitsIn(cart, S, a) \in Int
    BY <2>2 DEF RestTyped
  <2>4. asked' \in [Buyers -> [Articles -> Int]]
    BY <1>5, <2>3 DEF DeleteItems, RestTyped
  <2> QED
    BY <1>5, <2>4, CartChangeTyped DEF DeleteItems, RestTyped
<1>6. ASSUME NEW r \in Requests, NEW b \in Buyers, NEW method \in PaymentMethod,
             CheckoutBegin(r, b, method)
      PROVE  RestTyped'
  <2>1. \A i \in InCart(b) : cart[i].article \in Articles
    BY <1>0, InCartType
  <2>2. Doubled(InCart(b)) \subseteq Articles
    BY <2>1 DEF Doubled
  <2>3. {cart[i].article : i \in {j \in InCart(b) :
            \E q \in Requests : Taking(q, cart[j].article)}} \subseteq Articles
    BY <2>1
  <2>4. disturbed' \subseteq Buyers \cup Articles
    BY <1>6, <2>2, <2>3, ContendType DEF CheckoutBegin, RestTyped
  <2> QED
    BY <1>6, <2>4 DEF CheckoutBegin, RestTyped, bounds
<1>7. ASSUME NEW r \in Requests, NEW o \in Orders, SaveOrder(r, o) PROVE RestTyped'
  <2>1. /\ \A i \in req[r].todo : req[r].copy[i] \in Snapshot
        /\ req[r].todo \in SUBSET Rows
    BY <1>0 DEF RequestsSound, Sound, Request
  <2>2. SumOf(req[r].copy, req[r].todo) \in Nat
    BY <2>1, TotalType
  <2>3. req[r].buyer \in Buyers /\ req[r].method \in PaymentMethod
    BY <1>0, <1>1, <1>7 DEF SaveOrder, Request
  <2> DEFINE w == [NoOrder EXCEPT !.buyer = req[r].buyer, !.method = req[r].method,
                                  !.total = SumOf(req[r].copy, req[r].todo)]
  <2>4. w \in Order
    BY <2>2, <2>3 DEF NoOrder, NoItems, Order
  <2>5. order' = [order EXCEPT ![o] = w]
    BY <1>7 DEF SaveOrder
  <2> HIDE DEF w
  <2>6. order' \in [Orders -> Order]
    BY <2>4, <2>5 DEF RestTyped
  <2> QED
    BY <1>7, <2>6 DEF SaveOrder, RestTyped, bounds, history
<1>8. ASSUME NEW r \in Requests, SaveItems(r) PROVE RestTyped'
  <2> DEFINE items == [i \in Rows |-> Line(req[r].copy[i])]
             o == req[r].order
  <2>1. req[r].copy \in [Rows -> Snapshot \cup {None}]
    BY <1>0 DEF Request
  <2>2. items \in [Rows -> OrderItem \cup {None}]
    BY <2>1, LinesType
  <2>3. order' = order \/ order' = [order EXCEPT ![o].items = items]
    BY <1>8 DEF SaveItems
  <2> HIDE DEF items, o
  <2>4. order' \in [Orders -> Order]
    BY <2>2, <2>3 DEF RestTyped, Order
  <2> QED
    BY <1>8, <2>4 DEF SaveItems, RestTyped, bounds, history
<1>9. ASSUME NEW r \in Requests, SavePayment(r) PROVE RestTyped'
  <2>1. order' \in [Orders -> Order]
    BY <1>9 DEF SavePayment, RestTyped, Order
  <2> QED
    BY <1>9, <2>1 DEF SavePayment, RestTyped, bounds, history
<1>10. ASSUME NEW a \in Articles, NEW n \in Nat, NEW p \in Nat, UpdateArticle(a, n, p)
       PROVE  RestTyped'
  <2> DEFINE w == [article[a] EXCEPT !.stock = n, !.price = p, !.active = TRUE]
  <2>1. article[a] \in Article
    BY <1>0
  <2>2. w \in Article /\ w.stock = n
    BY <2>1, EditedType
  <2>3. SetArticle(a, w) /\ Edit(a) /\ UNCHANGED <<cart, order, req, cartOps, faults, asked>>
    BY <1>10 DEF UpdateArticle
  <2> HIDE DEF w
  <2>4. w.stock >= 0
    BY <2>2
  <2> QED
    BY <2>2, <2>3, <2>4, SellerTyped
<1>11. ASSUME NEW a \in Articles, OmitVariant(a) PROVE RestTyped'
  <2> DEFINE w == [article[a] EXCEPT !.stock = 0, !.active = FALSE]
  <2>1. article[a] \in Article
    BY <1>0
  <2> DEFINE y == [article[a] EXCEPT !.stock = 0]
  <2>2. y \in Article /\ y.stock = 0 /\ w = [y EXCEPT !.active = FALSE]
    BY <2>1 DEF Article
  <2> HIDE DEF y, w
  <2>3. w \in Article /\ w.stock = 0
    BY <2>2 DEF Article
  <2>4. SetArticle(a, w) /\ Edit(a) /\ UNCHANGED <<cart, order, req, cartOps, faults, asked>>
    BY <1>11 DEF OmitVariant, w
  <2>5. w.stock >= 0
    BY <2>3
  <2> QED
    BY <2>3, <2>4, <2>5, SellerTyped
<1>12. ASSUME NEW a \in Articles, RemoveProduct(a) PROVE RestTyped'
  <2>1. PICK s \in {"removed", "erased"} :
          offer' = [offer EXCEPT ![a] = [article[a] EXCEPT !.product = s]]
    BY <1>12 DEF RemoveProduct
  <2>2. offer' \in [Articles -> Article]
    BY <1>0, <2>1 DEF RestTyped, Article
  <2>3. \A b \in Buyers : InCartOf(b, a) \in Int
    BY <1>0, OwnCountable
  <2>4. \A b \in Buyers : asked[b][a] - InCartOf(b, a) \in Int
    BY <2>3 DEF RestTyped
  <2>5. asked' = [b \in Buyers |-> [asked[b] EXCEPT ![a] = @ - InCartOf(b, a)]]
    BY <1>12 DEF RemoveProduct
  <2>6. asked' \in [Buyers -> [Articles -> Int]]
    BY <2>4, <2>5 DEF RestTyped
  <2>7. edits' \in 0..MaxEdits
    BY <1>12, CheckoutAssumption DEF RemoveProduct, RestTyped
  <2>8. disturbed' \subseteq Buyers \cup Articles
    BY <1>1, <1>12 DEF RemoveProduct, RestTyped
  <2> QED
    BY <1>12, <2>2, <2>6, <2>7, <2>8 DEF RemoveProduct, RestTyped
<1>13. ASSUME NEW r \in Requests, BreakOff(r) PROVE RestTyped'
  <2>1. faults' \in 0..MaxFaults
    BY <1>13, CheckoutAssumption DEF BreakOff, RestTyped
  <2>2. req[r].buyer \in Buyers /\ \A i \in req[r].todo : req[r].copy[i].article \in Articles
    BY <1>0, <1>1, <1>13, TakingType DEF BreakOff
  <2>3. disturbed' \subseteq Buyers \cup Articles
    BY <1>13, <2>2 DEF BreakOff, RestTyped
  <2> QED
    BY <1>13, <2>1, <2>3 DEF BreakOff, RestTyped
<1>14. ASSUME UNCHANGED <<order, bounds, history>> PROVE RestTyped'
  BY <1>14 DEF RestTyped, bounds, history
<1>15. ASSUME NEW r \in Requests, CartStep(r) PROVE RestTyped'
  <2>1. ASSUME NEW b \in Buyers, NEW i, RemoveItem(b, i) PROVE RestTyped'
    BY <1>5, <2>1 DEF RemoveItem
  <2>2. ASSUME NEW b \in Buyers, ClearCart(b) PROVE RestTyped'
    BY <1>5, <2>2 DEF ClearCart
  <2> QED
    BY <1>2, <1>3, <1>15, <2>1, <2>2 DEF CartStep
<1>16. ASSUME NEW r \in Requests, CheckoutStep(r) PROVE RestTyped'
  <2>1. ASSUME NEW i \in Rows, TakeStock(r, i) PROVE RestTyped'
    BY <1>14, <2>1 DEF TakeStock
  <2>2. ASSUME ClearBought(r) PROVE RestTyped'
    BY <1>14, <2>2 DEF ClearBought
  <2> QED
    BY <1>6, <1>7, <1>8, <1>9, <1>16, <2>1, <2>2 DEF CheckoutStep
<1>17. ASSUME NEW a \in Articles, SellerStep(a) PROVE RestTyped'
  <2>1. ASSUME NEW of \in Offers PROVE of[1] \in Nat /\ of[2] \in Nat
    BY <2>1, CheckoutAssumption
  <2>2. article[a].stock \in Nat
    BY <1>0 DEF Article, StockNeverNegative
  <2> QED
    BY <1>10, <1>11, <1>12, <1>17, <2>1, <2>2 DEF SellerStep
<1>18. ASSUME UNCHANGED vars PROVE RestTyped'
  BY <1>14, <1>18 DEF vars
<1> QED
  BY <1>4, <1>13, <1>15, <1>16, <1>17, <1>18 DEF Next

------------------------------------------------------------------------------
(* What every request may rely on is kept.                                  *)

(* One request changes that neither gains nor loses an order,               *)
LEMMA OrdersStart ==
  ASSUME OrdersKept, req \in [Requests -> Request], NEW r \in Requests, NEW w,
         w.phase \notin Holding, req' = [req EXCEPT ![r] = w], UNCHANGED order
  PROVE  OrdersKept'
BY DEF OrdersKept, Holds, Exists

LEMMA OrdersGoOn ==
  ASSUME OrdersKept, req \in [Requests -> Request], NEW r \in Requests, NEW w,
         Holds(r), w.phase \in Holding \ {"items"}, w.order = req[r].order,
         w.buyer = req[r].buyer, req' = [req EXCEPT ![r] = w], UNCHANGED order
  PROVE  OrdersKept'
BY DEF OrdersKept, Holds, Exists

(* or that is regular,                                                      *)
LEMMA TodoStep ==
  ASSUME TodoKept, req \in [Requests -> Request], NEW r \in Requests, NEW w,
         Regular(w), req' = [req EXCEPT ![r] = w]
  PROVE  TodoKept'
BY DEF TodoKept, Regular

(* or that has read no erased article,                                      *)
LEMMA ErasedStep ==
  ASSUME NoneErased, req \in [Requests -> Request], NEW r \in Requests, NEW w,
         \A i \in w.todo : w.copy[i].seen.product # "erased",
         req' = [req EXCEPT ![r] = w],
         \A i \in Rows : cart'[i] \notin Absent
                           => article'[cart'[i].article].product # "erased"
  PROVE  NoneErased'
BY DEF NoneErased

(* or that saves a row of its buyer.                                        *)
LEMMA RowsStep ==
  ASSUME RowsKept, req \in [Requests -> Request], NEW r \in Requests, NEW w,
         w.phase = "saveItem" /\ w.row # None =>
           cart[w.row] \notin Absent /\ cart[w.row].buyer = w.buyer,
         req' = [req EXCEPT ![r] = w], UNCHANGED cart
  PROVE  RowsKept'
<1>1. ASSUME NEW q \in Requests, req'[q].phase = "saveItem", req'[q].row # None
      PROVE  /\ cart[req'[q].row] # Unused
             /\ cart[req'[q].row] \notin Absent => cart[req'[q].row].buyer = req'[q].buyer
             /\ \A p \in Requests : req'[p].phase = "saveItem" /\ req'[p].row = req'[q].row
                  => req'[p].buyer = req'[q].buyer
  <2>1. CASE q = r
    <3>1. req'[q] = w
      BY <2>1
    <3>2. cart[w.row] \notin Absent /\ cart[w.row].buyer = w.buyer
      BY <1>1, <3>1
    <3>3. ASSUME NEW p \in Requests, req'[p].phase = "saveItem", req'[p].row = w.row
          PROVE  req'[p].buyer = w.buyer
      BY <1>1, <3>1, <3>2, <3>3 DEF RowsKept
    <3> QED
      BY <3>1, <3>2, <3>3 DEF Absent
  <2>2. CASE q # r
    <3>1. req'[q] = req[q]
      BY <2>2
    <3>2. ASSUME NEW p \in Requests, req'[p].phase = "saveItem", req'[p].row = req[q].row
          PROVE  req'[p].buyer = req[q].buyer
      <4>1. CASE p = r
        BY <1>1, <3>1, <3>2, <4>1 DEF RowsKept
      <4>2. CASE p # r
        BY <1>1, <3>1, <3>2, <4>2 DEF RowsKept
      <4> QED
        BY <4>1, <4>2
    <3> QED
      BY <1>1, <3>1, <3>2 DEF RowsKept
  <2> QED
    BY <2>1, <2>2
<1> QED
  BY <1>1 DEF RowsKept

(* Rows that are deleted disturb none of these.                             *)
LEMMA RowsDeleted ==
  ASSUME RowsKept, req \in [Requests -> Request], NEW S, cart' = Without(S),
         \A q \in Requests : req'[q] = req[q] \/ req'[q].phase # "saveItem"
  PROVE  RowsKept'
<1>1. ASSUME NEW q \in Requests, req'[q].phase = "saveItem", req'[q].row # None
      PROVE  /\ cart'[req'[q].row] # Unused
             /\ cart'[req'[q].row] \notin Absent => cart'[req'[q].row].buyer = req'[q].buyer
             /\ \A p \in Requests : req'[p].phase = "saveItem" /\ req'[p].row = req'[q].row
                  => req'[p].buyer = req'[q].buyer
  <2>1. req'[q] = req[q] /\ req[q].row \in Rows
    BY <1>1 DEF Request
  <2>2. cart'[req[q].row] = Deleted \/ cart'[req[q].row] = cart[req[q].row]
    BY <2>1 DEF Without
  <2> QED
    BY <1>1, <2>1, <2>2, AbsentAssumption DEF RowsKept, Absent
<1> QED
  BY <1>1 DEF RowsKept

LEMMA ErasedDeleted ==
  ASSUME NoneErased, NEW S, cart' = Without(S), UNCHANGED article
  PROVE  \A i \in Rows : cart'[i] \notin Absent
                           => article'[cart'[i].article].product # "erased"
BY DEF NoneErased, Without, Absent

(* An idle request relies on nothing.                                       *)
LEMMA IdleRegular == Regular(Idle) /\ Idle.phase = "idle" /\ Idle.todo = {}
BY DEF Idle, Regular, Phases

LEMMA KeptInit == Init => Kept
<1> SUFFICES ASSUME Init PROVE Kept
  OBVIOUS
<1>1. \A q \in Requests : req[q] = Idle
  BY DEF Init
<1> QED
  BY <1>1, IdleRegular
  DEF Init, Kept, OrdersKept, TodoKept, NoneErased, RowsKept, Holds, Holding, Absent

(* A request that starts or ends without a write.                           *)
LEMMA KeptStart ==
  ASSUME Kept, req \in [Requests -> Request], NEW r \in Requests, NEW w,
         w.phase \notin Holding, Regular(w),
         \A i \in w.todo : w.copy[i].seen.product # "erased",
         w.phase = "saveItem" /\ w.row # None =>
           cart[w.row] \notin Absent /\ cart[w.row].buyer = w.buyer,
         req' = [req EXCEPT ![r] = w], UNCHANGED <<article, cart, order>>
  PROVE  Kept'
<1>1. OrdersKept'
  BY OrdersStart DEF Kept
<1>2. TodoKept'
  BY TodoStep DEF Kept
<1>3. NoneErased'
  BY ErasedStep DEF Kept, NoneErased
<1>4. RowsKept'
  BY RowsStep DEF Kept
<1> QED
  BY <1>1, <1>2, <1>3, <1>4 DEF Kept

(* A seller's step changes no request and erases nothing that is in a cart. *)
LEMMA KeptSeller ==
  ASSUME Kept, req \in [Requests -> Request], UNCHANGED <<order, req>>,
         cart' = cart \/ \E S : cart' = Without(S),
         \A i \in Rows : cart'[i] \notin Absent
                           => article'[cart'[i].article].product # "erased"
  PROVE  Kept'
<1>1. OrdersKept' /\ TodoKept' /\ NoneErased'
  BY DEF Kept, OrdersKept, TodoKept, NoneErased, Holds, Exists
<1>2. RowsKept'
  BY RowsDeleted DEF Kept, RowsKept
<1> QED
  BY <1>1, <1>2 DEF Kept

LEMMA KeptSaveItem ==
  ASSUME StockSafe, Kept, NEW r \in Requests, SaveItem(r)
  PROVE  Kept'
<1> DEFINE b == req[r].buyer
           a == req[r].article
<1>0. /\ cart \in [Rows -> CartItem \cup Absent] /\ req \in [Requests -> Request]
      /\ OrdersKept /\ TodoKept /\ NoneErased /\ RowsKept
  BY DEF StockSafe, RequestsSound, Kept
<1>1. req[r].phase = "saveItem" /\ b \in Buyers /\ a \in Articles
  BY DEF SaveItem, StockSafe, RequestsSound, Sound
<1>2. req' = [req EXCEPT ![r] = Idle] /\ UNCHANGED <<article, order>>
  BY DEF SaveItem, Finish
<1>3. OrdersKept'
  BY <1>0, <1>2, IdleRegular, OrdersStart DEF Holding
<1>4. TodoKept'
  BY <1>0, <1>2, IdleRegular, TodoStep
<1>5. CASE article[a].product = "erased"
  <2>1. UNCHANGED cart
    BY <1>5 DEF SaveItem
  <2>2. NoneErased'
    BY <1>0, <1>2, <2>1, IdleRegular, ErasedStep DEF NoneErased
  <2>3. RowsKept'
    BY <1>0, <1>2, <2>1, IdleRegular, RowsStep
  <2> QED
    BY <1>3, <1>4, <2>2, <2>3 DEF Kept
<1>6. CASE article[a].product # "erased"
  <2>1. PICK i \in Rows : /\ cart' = [cart EXCEPT ![i] = Item(r)]
                          /\ IF req[r].row = None THEN cart[i] = Unused ELSE i = req[r].row
    BY <1>6 DEF SaveItem
  <2>2. Item(r) \in CartItem /\ Item(r).article = a /\ Item(r).buyer = b
    BY <1>0, <1>1 DEF Item, CartItem, Request
  <2>3. Item(r) \notin Absent
    BY <2>2, AbsentAssumption
  <2>4. NoneErased'
    BY <1>0, <1>2, <1>6, <2>1, <2>2, IdleRegular, ErasedStep DEF NoneErased
  <2>5. ASSUME NEW q \in Requests, req'[q].phase = "saveItem", req'[q].row # None
        PROVE  /\ cart'[req'[q].row] # Unused
               /\ cart'[req'[q].row] \notin Absent => cart'[req'[q].row].buyer = req'[q].buyer
               /\ \A p \in Requests : req'[p].phase = "saveItem" /\ req'[p].row = req'[q].row
                    => req'[p].buyer = req'[q].buyer
    <3>1. q # r /\ req'[q] = req[q] /\ req[q].row \in Rows
      BY <1>0, <1>2, <2>5, IdleRegular DEF Request
    <3>2. cart[req[q].row] # Unused
      BY <1>0, <2>5, <3>1 DEF RowsKept
    <3>3. ASSUME req[q].row = i PROVE b = req[q].buyer
      BY <1>0, <1>1, <2>1, <2>5, <3>1, <3>2, <3>3 DEF RowsKept
    <3>4. /\ cart'[req[q].row] # Unused
          /\ cart'[req[q].row] \notin Absent => cart'[req[q].row].buyer = req[q].buyer
      BY <1>0, <2>1, <2>2, <2>3, <2>5, <3>1, <3>2, <3>3 DEF RowsKept, Absent
    <3>5. ASSUME NEW p \in Requests, req'[p].phase = "saveItem", req'[p].row = req[q].row
          PROVE  req'[p].buyer = req[q].buyer
      <4>1. p # r /\ req'[p] = req[p]
        BY <1>0, <1>2, <3>5, IdleRegular
      <4> QED
        BY <1>0, <2>5, <3>1, <3>5, <4>1 DEF RowsKept
    <3> QED
      BY <3>1, <3>4, <3>5
  <2>6. RowsKept'
    BY <2>5 DEF RowsKept
  <2> QED
    BY <1>3, <1>4, <2>4, <2>6 DEF Kept
<1> QED
  BY <1>5, <1>6

LEMMA KeptAddProduct ==
  ASSUME StockSafe, Kept, NEW r \in Requests, NEW b \in Buyers, NEW a \in Articles,
         NEW n \in Quantities, AddProduct(r, b, a, n)
  PROVE  Kept'
<1> DEFINE job     == [Idle EXCEPT !.phase = "saveItem", !.buyer = b,
                         !.article = a, !.quantity = n, !.change = n,
                         !.price = article[a].price]
           onto(i) == [job EXCEPT !.row = i, !.quantity = cart[i].quantity + n,
                         !.price = cart[i].price]
<1>0. req \in [Requests -> Request] /\ UNCHANGED <<article, cart, order>>
  BY DEF StockSafe, RequestsSound, AddProduct
<1>1. \/ req' = [req EXCEPT ![r] = job]
      \/ \E i \in InCart(b) : req' = [req EXCEPT ![r] = onto(i)]
  BY DEF AddProduct
<1>2. job.phase = "saveItem" /\ job.buyer = b /\ job.todo = {} /\ job.row = None
  BY DEF Idle
<1>3. ASSUME NEW i \in InCart(b)
      PROVE  /\ onto(i).phase = "saveItem" /\ onto(i).buyer = b /\ onto(i).todo = {}
             /\ onto(i).row = i /\ cart[i] \notin Absent /\ cart[i].buyer = b
  BY DEF Idle, InCart
<1> HIDE DEF job, onto
<1>4. PICK w : /\ w.phase = "saveItem" /\ w.buyer = b /\ w.todo = {}
               /\ w.row # None => cart[w.row] \notin Absent /\ cart[w.row].buyer = b
               /\ req' = [req EXCEPT ![r] = w]
  BY <1>1, <1>2, <1>3
<1>5. Regular(w) /\ w.phase \notin Holding
  BY <1>4 DEF Regular, Holding
<1> QED
  BY <1>0, <1>4, <1>5, KeptStart

LEMMA KeptUpdateQuantity ==
  ASSUME StockSafe, Kept, NEW r \in Requests, NEW b \in Buyers, NEW i \in Rows,
         NEW n \in Updates, UpdateQuantity(r, b, i, n)
  PROVE  Kept'
<1> DEFINE w == [Idle EXCEPT
                   !.phase = "saveItem", !.buyer = b, !.article = cart[i].article,
                   !.row = i, !.quantity = n, !.change = n - cart[i].quantity,
                   !.price = cart[i].price]
<1>0. req \in [Requests -> Request] /\ UNCHANGED <<article, cart, order>>
  BY DEF StockSafe, RequestsSound, UpdateQuantity
<1>1. req' = [req EXCEPT ![r] = w] /\ i \in InCart(b)
  BY DEF UpdateQuantity
<1>2. w.phase = "saveItem" /\ w.buyer = b /\ w.todo = {} /\ w.row = i
  BY DEF Idle
<1> HIDE DEF w
<1>3. Regular(w) /\ w.phase \notin Holding
  BY <1>2 DEF Regular, Holding
<1>4. cart[i] \notin Absent /\ cart[i].buyer = b
  BY <1>1 DEF InCart
<1> QED
  BY <1>0, <1>1, <1>2, <1>3, <1>4, KeptStart

LEMMA KeptCheckoutBegin ==
  ASSUME StockSafe, Kept, NEW r \in Requests, NEW b \in Buyers,
         NEW method \in PaymentMethod, CheckoutBegin(r, b, method)
  PROVE  Kept'
<1> DEFINE S    == InCart(b)
           copy == [i \in Rows |-> IF i \in S THEN Seen(i) ELSE None]
           w    == [Idle EXCEPT !.phase = "order", !.buyer = b, !.method = method,
                                !.todo = S, !.copy = copy]
<1>0. req \in [Requests -> Request] /\ UNCHANGED <<article, cart, order>>
  BY DEF StockSafe, RequestsSound, CheckoutBegin
<1>1. req' = [req EXCEPT ![r] = w] /\ S # {} /\ S \subseteq Rows
  BY DEF CheckoutBegin, InCart
<1>2. /\ w.phase = "order" /\ w.buyer = b /\ w.todo = S /\ w.copy = copy
      /\ w.article = None
  BY DEF Idle
<1>3. ASSUME NEW i \in S
      PROVE  copy[i] # None /\ copy[i].seen.product # "erased"
  <2>1. i \in Rows /\ copy[i] = Seen(i) /\ cart[i] \notin Absent
    BY DEF InCart
  <2>2. cart[i] \in CartItem /\ article[cart[i].article] \in Article
    BY <2>1 DEF StockSafe, CartItem
  <2>3. Seen(i) \in Snapshot /\ Seen(i).seen = article[cart[i].article]
    BY <2>2 DEF Seen, Snapshot, CartItem
  <2> QED
    BY <2>1, <2>3, AbsentAssumption DEF Kept, NoneErased
<1>4. \A i \in Rows \ S : copy[i] = None
  OBVIOUS
<1> HIDE DEF w, copy
<1>5. S = {i \in Rows : copy[i] # None}
  BY <1>1, <1>3, <1>4
<1>6. Regular(w) /\ w.phase \notin Holding
  BY <1>1, <1>2, <1>5 DEF Regular, Holding
<1> QED
  BY <1>0, <1>1, <1>2, <1>3, <1>6, KeptStart

LEMMA KeptSaveOrder ==
  ASSUME StockSafe, RestTyped, Kept, NEW r \in Requests, NEW o \in Orders, SaveOrder(r, o)
  PROVE  Kept'
<1> DEFINE w == [req[r] EXCEPT !.phase = "items", !.order = o]
<1>0. /\ req \in [Requests -> Request] /\ UNCHANGED <<article, cart>>
      /\ OrdersKept /\ TodoKept /\ NoneErased /\ RowsKept
  BY DEF StockSafe, RequestsSound, SaveOrder, Kept
<1>1. req[r] \in Request /\ req[r].phase = "order" /\ ~Exists(o) /\ req[r].buyer \in Buyers
  BY <1>0 DEF SaveOrder, TodoKept, Regular
<1>2. req' = [req EXCEPT ![r] = w]
  BY <1>0 DEF SaveOrder, Request
<1>3. /\ w.phase = "items" /\ w.order = o /\ w.buyer = req[r].buyer
      /\ w.todo = req[r].todo /\ w.copy = req[r].copy /\ w.article = req[r].article
  BY <1>1 DEF Request
<1> HIDE DEF w
<1>4. Regular(w)
  BY <1>0, <1>1, <1>3 DEF TodoKept, Regular, Phases
<1>5. TodoKept'
  BY <1>0, <1>2, <1>4, TodoStep
<1>6. NoneErased'
  <2>1. \A i \in w.todo : w.copy[i].seen.product # "erased"
    BY <1>0, <1>1, <1>3 DEF NoneErased, Request
  <2> QED
    BY <1>0, <1>2, <2>1, ErasedStep DEF NoneErased
<1>7. RowsKept'
  BY <1>0, <1>2, <1>3, RowsStep
<1>8. OrdersKept'
  <2>1. /\ order \in [Orders -> Order]
        /\ order' = [order EXCEPT ![o] = [NoOrder EXCEPT
             !.buyer = req[r].buyer, !.method = req[r].method,
             !.total = SumOf(req[r].copy, req[r].todo)]]
    BY DEF SaveOrder, RestTyped
  <2>2. order'[o].buyer = req[r].buyer /\ order'[o].items = NoItems
    BY <2>1 DEF NoOrder
  <2>3. \A x \in Orders \ {o} : order'[x] = order[x]
    BY <2>1
  <2>4. None \notin Buyers
    BY CheckoutAssumption
  <2>5. \A q \in Requests : Holds(q) => req[q].order # o
    BY <1>0, <1>1, <2>4 DEF OrdersKept, Exists, TodoKept, Regular, Holds, Holding
  <2>6. \A x \in Orders : order'[x].buyer = None => order'[x] = NoOrder
    BY <1>0, <1>1, <2>2, <2>3, <2>4 DEF OrdersKept, Exists
  <2>7. ASSUME NEW q \in Requests, req'[q].phase \in Holding
        PROVE  /\ req'[q].order \in Orders /\ order'[req'[q].order].buyer = req'[q].buyer
               /\ req'[q].phase = "items" => order'[req'[q].order].items = NoItems
    <3>1. CASE q = r
      BY <1>0, <1>2, <1>3, <2>2, <3>1
    <3>2. CASE q # r
      BY <1>0, <1>2, <2>3, <2>5, <2>7, <3>2 DEF OrdersKept, Holds
    <3> QED
      BY <3>1, <3>2
  <2>8. ASSUME NEW q1 \in Requests, NEW q2 \in Requests, req'[q1].phase \in Holding,
               req'[q2].phase \in Holding, req'[q1].order = req'[q2].order
        PROVE  q1 = q2
    BY <1>0, <1>2, <1>3, <2>5, <2>8 DEF OrdersKept, Holds
  <2> QED
    BY <2>6, <2>7, <2>8 DEF OrdersKept, Holds, Exists
<1> QED
  BY <1>5, <1>6, <1>7, <1>8 DEF Kept

LEMMA KeptFinish ==
  ASSUME StockSafe, Kept, NEW r \in Requests, Finish(r), UNCHANGED <<article, cart, order>>
  PROVE  Kept'
<1>1. req \in [Requests -> Request] /\ req' = [req EXCEPT ![r] = Idle]
  BY DEF StockSafe, RequestsSound, Finish
<1>2. Idle.phase \notin Holding /\ Idle.phase # "saveItem"
  BY IdleRegular DEF Holding
<1>3. \A i \in Idle.todo : Idle.copy[i].seen.product # "erased"
  BY IdleRegular
<1> QED
  BY <1>1, <1>2, <1>3, IdleRegular, KeptStart

LEMMA KeptSaveItems ==
  ASSUME StockSafe, RestTyped, Kept, NEW r \in Requests, SaveItems(r)
  PROVE  Kept'
<1> DEFINE w == [req[r] EXCEPT !.phase = "stock"]
           o == req[r].order
<1>0. /\ req \in [Requests -> Request] /\ UNCHANGED <<article, cart>>
      /\ order \in [Orders -> Order]
      /\ OrdersKept /\ TodoKept /\ NoneErased /\ RowsKept
  BY DEF StockSafe, RequestsSound, RestTyped, SaveItems, Kept
<1>1. CASE Finish(r) /\ UNCHANGED order
  BY <1>0, <1>1, KeptFinish
<1>2. CASE /\ order' = [order EXCEPT ![o].items = [i \in Rows |-> Line(req[r].copy[i])]]
           /\ req' = [req EXCEPT ![r].phase = "stock"]
  <2>1. req[r].phase = "items" /\ req[r] \in Request /\ req' = [req EXCEPT ![r] = w]
    BY <1>0, <1>2 DEF SaveItems
  <2>2. /\ w.phase = "stock" /\ w.order = o /\ w.buyer = req[r].buyer
        /\ w.todo = req[r].todo /\ w.copy = req[r].copy /\ w.article = req[r].article
    BY <2>1 DEF Request
  <2> HIDE DEF w
  <2>3. Regular(w)
    BY <1>0, <2>1, <2>2 DEF TodoKept, Regular, Phases
  <2>4. TodoKept'
    BY <1>0, <2>1, <2>3, TodoStep
  <2>5. NoneErased'
    <3>1. \A i \in w.todo : w.copy[i].seen.product # "erased"
      BY <1>0, <2>1, <2>2 DEF NoneErased, Request
    <3> QED
      BY <1>0, <2>1, <3>1, ErasedStep DEF NoneErased
  <2>6. RowsKept'
    BY <1>0, <2>1, <2>2, RowsStep
  <2>7. OrdersKept'
    <3>1. Holds(r) /\ o \in Orders /\ order[o].buyer = req[r].buyer /\ req[r].buyer \in Buyers
      BY <1>0, <2>1 DEF OrdersKept, Holds, Holding, TodoKept, Regular
    <3>2. None \notin Buyers
      BY CheckoutAssumption
    <3>3. order'[o].buyer = order[o].buyer /\ \A x \in Orders \ {o} : order'[x] = order[x]
      BY <1>0, <1>2 DEF Order
    <3>4. \A x \in Orders : order'[x].buyer = None => order'[x] = NoOrder
      BY <1>0, <3>1, <3>2, <3>3 DEF OrdersKept, Exists
    <3>5. ASSUME NEW q \in Requests, req'[q].phase \in Holding
          PROVE  /\ req'[q].order \in Orders /\ order'[req'[q].order].buyer = req'[q].buyer
                 /\ req'[q].phase = "items" => order'[req'[q].order].items = NoItems
      <4>1. CASE q = r
        BY <1>0, <2>1, <2>2, <3>1, <3>3, <4>1
      <4>2. CASE q # r
        <5>1. req'[q] = req[q] /\ Holds(q) /\ req[q].order # o
          BY <1>0, <2>1, <3>1, <3>5, <4>2 DEF OrdersKept, Holds
        <5> QED
          BY <1>0, <3>3, <5>1 DEF OrdersKept
      <4> QED
        BY <4>1, <4>2
    <3>6. ASSUME NEW q1 \in Requests, NEW q2 \in Requests, req'[q1].phase \in Holding,
                 req'[q2].phase \in Holding, req'[q1].order = req'[q2].order
          PROVE  q1 = q2
      BY <1>0, <2>1, <2>2, <3>1, <3>6 DEF OrdersKept, Holds
    <3> QED
      BY <3>4, <3>5, <3>6 DEF OrdersKept, Holds, Exists
  <2> QED
    BY <2>4, <2>5, <2>6, <2>7 DEF Kept
<1> QED
  BY <1>1, <1>2 DEF SaveItems

LEMMA KeptTakeStock ==
  ASSUME StockSafe, RestTyped, Kept, NEW r \in Requests, NEW i \in Rows, TakeStock(r, i)
  PROVE  Kept'
<1> DEFINE s == req[r].copy[i]
           a == s.article
           product == IF a \in Variants THEN article[a].product ELSE s.seen.product
           rest == req[r].todo \ {i}
           p == IF rest = {} THEN "clear" ELSE "stock"
           w == [req[r] EXCEPT !.todo = rest, !.phase = p]
<1>0. /\ req \in [Requests -> Request] /\ UNCHANGED <<cart, order>>
      /\ cart \in [Rows -> CartItem \cup Absent] /\ article \in [Articles -> Article]
      /\ OrdersKept /\ TodoKept /\ NoneErased /\ RowsKept
  BY DEF StockSafe, RequestsSound, RestTyped, TakeStock, Kept
<1>1. req[r].phase = "stock" /\ req[r] \in Request /\ i \in req[r].todo
  BY <1>0 DEF TakeStock
<1>2. req' = [req EXCEPT ![r] = w]
  BY <1>0 DEF TakeStock
<1>3. /\ w.phase = p /\ w.order = req[r].order /\ w.buyer = req[r].buyer
      /\ w.todo = rest /\ w.copy = req[r].copy /\ w.article = req[r].article
  BY <1>1 DEF Request
<1>4. article' = [article EXCEPT ![a] =
        [stock |-> Remaining(s), price |-> s.seen.price,
         active |-> s.seen.active, product |-> product]]
  BY DEF TakeStock
<1>5. \A x \in Articles \ {a} : article'[x] = article[x]
  BY <1>0, <1>4
<1>6. a \in Articles => article'[a].product = product
  BY <1>0, <1>4
<1>7. s.seen.product # "erased"
  BY <1>0, <1>1 DEF NoneErased
<1> HIDE DEF w
<1>8. Regular(w)
  BY <1>0, <1>1, <1>3 DEF TodoKept, Regular, Phases
<1>9. TodoKept'
  BY <1>0, <1>2, <1>8, TodoStep
<1>10. OrdersKept'
  <2>1. w.phase \in Holding \ {"items"} /\ Holds(r)
    BY <1>1, <1>3 DEF Holds, Holding
  <2> HIDE DEF p
  <2> QED
    BY <1>0, <1>2, <1>3, <2>1, OrdersGoOn
<1>11. RowsKept'
  BY <1>0, <1>2, <1>3, RowsStep
<1>12. ASSUME NEW j \in Rows, cart[j] \notin Absent
       PROVE  article'[cart[j].article].product # "erased"
  <2>1. cart[j].article \in Articles /\ article[cart[j].article].product # "erased"
    BY <1>0, <1>12 DEF CartItem, NoneErased
  <2> QED
    BY <1>5, <1>6, <1>7, <2>1
<1>13. \A j \in w.todo : w.copy[j].seen.product # "erased"
  BY <1>0, <1>1, <1>3 DEF NoneErased, Request
<1>14. NoneErased'
  BY <1>0, <1>2, <1>12, <1>13, ErasedStep
<1> QED
  BY <1>9, <1>10, <1>11, <1>14 DEF Kept

LEMMA KeptClearBought ==
  ASSUME StockSafe, Kept, NEW r \in Requests, ClearBought(r)
  PROVE  Kept'
<1>0. /\ req \in [Requests -> Request] /\ UNCHANGED <<article, order>>
      /\ OrdersKept /\ TodoKept /\ NoneErased /\ RowsKept
      /\ req[r].phase = "clear" /\ req[r] \in Request /\ cart' = Without(Cleared(r))
  BY DEF StockSafe, RequestsSound, ClearBought, Kept
<1>1. PICK w : /\ req' = [req EXCEPT ![r] = w] /\ Regular(w) /\ w.todo = {}
               /\ w.phase # "saveItem"
               /\ \/ w.phase \notin Holding
                  \/ /\ w.phase = "payment" /\ w.order = req[r].order
                     /\ w.buyer = req[r].buyer
  <2>1. CASE Finish(r)
    BY <2>1, IdleRegular DEF Finish, Holding
  <2>2. CASE req' = [req EXCEPT ![r].phase = "payment"]
    <3> DEFINE w == [req[r] EXCEPT !.phase = "payment"]
    <3>1. req' = [req EXCEPT ![r] = w]
      BY <1>0, <2>2
    <3>2. /\ w.phase = "payment" /\ w.order = req[r].order /\ w.buyer = req[r].buyer
          /\ w.todo = req[r].todo /\ w.article = req[r].article
      BY <1>0 DEF Request
    <3> HIDE DEF w
    <3>3. Regular(w) /\ w.todo = {}
      BY <1>0, <3>2 DEF TodoKept, Regular, Phases
    <3> QED
      BY <3>1, <3>2, <3>3
  <2> QED
    BY <2>1, <2>2 DEF ClearBought
<1>2. Holds(r)
  BY <1>0 DEF Holds, Holding
<1>3. OrdersKept'
  <2>1. CASE w.phase \notin Holding
    BY <1>0, <1>1, <2>1, OrdersStart
  <2>2. CASE w.phase = "payment" /\ w.order = req[r].order /\ w.buyer = req[r].buyer
    <3>1. w.phase \in Holding \ {"items"}
      BY <2>2 DEF Holding
    <3> QED
      BY <1>0, <1>1, <1>2, <2>2, <3>1, OrdersGoOn
  <2> QED
    BY <1>1, <2>1, <2>2
<1>4. TodoKept'
  BY <1>0, <1>1, TodoStep
<1>5. NoneErased'
  BY <1>0, <1>1, ErasedDeleted, ErasedStep
<1>6. RowsKept'
  <2>1. \A q \in Requests : req'[q] = req[q] \/ req'[q].phase # "saveItem"
    BY <1>0, <1>1
  <2> QED
    BY <1>0, <2>1, RowsDeleted
<1> QED
  BY <1>3, <1>4, <1>5, <1>6 DEF Kept

LEMMA KeptSavePayment ==
  ASSUME StockSafe, RestTyped, Kept, NEW r \in Requests, SavePayment(r)
  PROVE  Kept'
<1> DEFINE o == req[r].order
<1>0. /\ req \in [Requests -> Request] /\ UNCHANGED <<article, cart>>
      /\ order \in [Orders -> Order]
      /\ OrdersKept /\ TodoKept /\ NoneErased /\ RowsKept
      /\ req[r].phase = "payment" /\ req' = [req EXCEPT ![r] = Idle]
      /\ order' = [order EXCEPT ![o].paid = TRUE]
  BY DEF StockSafe, RequestsSound, RestTyped, SavePayment, Finish, Kept
<1>1. Holds(r) /\ o \in Orders /\ order[o].buyer = req[r].buyer /\ req[r].buyer \in Buyers
  BY <1>0 DEF OrdersKept, Holds, Holding, TodoKept, Regular
<1>2. None \notin Buyers
  BY CheckoutAssumption
<1>3. /\ order'[o].buyer = order[o].buyer /\ order'[o].items = order[o].items
      /\ \A x \in Orders \ {o} : order'[x] = order[x]
  BY <1>0 DEF Order
<1>4. \A x \in Orders : order'[x].buyer = None => order'[x] = NoOrder
  BY <1>0, <1>1, <1>2, <1>3 DEF OrdersKept, Exists
<1>5. ASSUME NEW q \in Requests, req'[q].phase \in Holding
      PROVE  /\ req'[q] = req[q] /\ req'[q].order \in Orders
             /\ order'[req'[q].order].buyer = req'[q].buyer
             /\ req'[q].phase = "items" => order'[req'[q].order].items = NoItems
  <2>1. req'[q] = req[q] /\ Holds(q)
    BY <1>0, <1>5, IdleRegular DEF Holds, Holding
  <2> QED
    BY <1>0, <1>3, <2>1 DEF OrdersKept
<1>6. ASSUME NEW q1 \in Requests, NEW q2 \in Requests, req'[q1].phase \in Holding,
             req'[q2].phase \in Holding, req'[q1].order = req'[q2].order
      PROVE  q1 = q2
  BY <1>0, <1>5, <1>6 DEF OrdersKept, Holds
<1>7. OrdersKept'
  BY <1>4, <1>5, <1>6 DEF OrdersKept, Holds, Exists
<1>8. TodoKept'
  BY <1>0, IdleRegular, TodoStep
<1>9. NoneErased'
  BY <1>0, IdleRegular, ErasedStep DEF NoneErased
<1>10. RowsKept'
  BY <1>0, IdleRegular, RowsStep
<1> QED
  BY <1>7, <1>8, <1>9, <1>10 DEF Kept

(* A row that has gone from its table was in no cart.                       *)
LEMMA KeptRemoveProduct ==
  ASSUME StockSafe, Kept, NEW a \in Articles, RemoveProduct(a)
  PROVE  Kept'
<1> DEFINE S == {i \in Rows : cart[i] \notin Absent /\ cart[i].article = a}
<1>0. /\ req \in [Requests -> Request] /\ UNCHANGED <<order, req>> /\ cart' = Without(S)
      /\ cart \in [Rows -> CartItem \cup Absent] /\ NoneErased
  BY DEF StockSafe, RequestsSound, RemoveProduct, Kept
<1>1. \A x \in Articles \ {a} : article'[x] = article[x]
  BY DEF RemoveProduct, StockSafe
<1>2. ASSUME NEW i \in Rows, cart'[i] \notin Absent
      PROVE  article'[cart'[i].article].product # "erased"
  <2>1. i \notin S /\ cart'[i] = cart[i]
    BY <1>0, <1>2 DEF Without, Absent
  <2>2. cart[i].article \in Articles \ {a}
    BY <1>0, <1>2, <2>1 DEF CartItem
  <2> QED
    BY <1>0, <1>1, <1>2, <2>1, <2>2 DEF NoneErased
<1> HIDE DEF S
<1> QED
  BY <1>0, <1>2, KeptSeller

LEMMA KeptEdit ==
  ASSUME StockSafe, Kept, NEW a \in Articles,
         (\E n, p : UpdateArticle(a, n, p)) \/ OmitVariant(a)
  PROVE  Kept'
<1>0. /\ req \in [Requests -> Request] /\ UNCHANGED <<order, req, cart>>
      /\ article \in [Articles -> Article] /\ NoneErased
  BY DEF StockSafe, RequestsSound, UpdateArticle, OmitVariant, Kept
<1>1. \A x \in Articles : article'[x].product = article[x].product
  <2>1. ASSUME NEW n, NEW p, UpdateArticle(a, n, p)
        PROVE  \A x \in Articles : article'[x].product = article[x].product
    BY <1>0, <2>1 DEF UpdateArticle, SetArticle, Article
  <2>2. ASSUME OmitVariant(a)
        PROVE  \A x \in Articles : article'[x].product = article[x].product
    BY <1>0, <2>2 DEF OmitVariant, SetArticle, Article
  <2> QED
    BY <2>1, <2>2
<1>2. \A i \in Rows : cart[i] \notin Absent => cart[i].article \in Articles
  BY DEF StockSafe, CartItem
<1>3. \A i \in Rows : cart'[i] \notin Absent
                        => article'[cart'[i].article].product # "erased"
  BY <1>0, <1>1, <1>2 DEF NoneErased
<1> QED
  BY <1>0, <1>3, KeptSeller

LEMMA KeptStep == StockSafe /\ RestTyped /\ Kept /\ [Next]_vars => Kept'
<1> SUFFICES ASSUME StockSafe, RestTyped, Kept, [Next]_vars PROVE Kept'
  OBVIOUS
<1>0. req \in [Requests -> Request]
  BY DEF StockSafe, RequestsSound
<1>1. ASSUME NEW r \in Requests, CartStep(r) PROVE Kept'
  <2>1. ASSUME NEW b \in Buyers, NEW S, DeleteItems(b, S) PROVE Kept'
    <3>1. /\ UNCHANGED <<order, req, article>> /\ cart' = Without(S)
      BY <2>1 DEF DeleteItems
    <3>2. \A i \in Rows : cart'[i] \notin Absent
                            => article'[cart'[i].article].product # "erased"
      BY <3>1, ErasedDeleted DEF Kept
    <3> QED
      BY <1>0, <3>1, <3>2, KeptSeller
  <2> QED
    BY <1>1, <2>1, KeptAddProduct, KeptUpdateQuantity DEF CartStep, RemoveItem, ClearCart
<1>2. ASSUME NEW r \in Requests, CheckoutStep(r) PROVE Kept'
  BY <1>2, KeptCheckoutBegin, KeptSaveOrder, KeptSaveItems, KeptTakeStock,
     KeptClearBought, KeptSavePayment DEF CheckoutStep
<1>3. ASSUME NEW r \in Requests, BreakOff(r) PROVE Kept'
  BY <1>3, KeptFinish DEF BreakOff
<1>4. ASSUME NEW a \in Articles, SellerStep(a) PROVE Kept'
  BY <1>4, KeptEdit, KeptRemoveProduct DEF SellerStep
<1>5. ASSUME UNCHANGED vars PROVE Kept'
  BY <1>5 DEF vars, Kept, OrdersKept, TodoKept, NoneErased, RowsKept, Holds, Exists
<1> QED
  BY <1>1, <1>2, <1>3, <1>4, <1>5, KeptSaveItem DEF Next

(* The inductive invariant of all requests: types, stocks and what each     *)
(* may rely on.                                                             *)
Base == StockSafe /\ RestTyped /\ Kept

LEMMA BaseInit == Init => Base
BY InitSafe, InitTyped, KeptInit DEF Base

LEMMA BaseStep == Base /\ [Next]_vars => Base'
BY StepSafe, RestStep, KeptStep DEF Base

(* Every variable keeps its type.  That the units of orders can be added up *)
(* needs that they have the items their checkout has read.                  *)
THEOREM TypeCorrect == Spec => []TypeOK
<1>1. Base => TypeOK
  BY TypeParts DEF Base
<1> QED
  BY BaseInit, BaseStep, <1>1, PTL DEF Spec

------------------------------------------------------------------------------
(* The stock of an article on which no checkout overlaps another or an      *)
(* edit: each step either leaves it alone, or moves units between what is   *)
(* in stock and what is in orders.                                          *)

(* What is in orders depends on their items.                                *)
LEMMA OrderedSame ==
  ASSUME \A o \in Orders : order'[o].items = order[o].items, NEW a
  PROVE  Ordered(a)' = Ordered(a)
<1>1. Sales(order', Orders, a) = Sales(order, Orders, a)
  <2>1. PICK more : more = order'
    OBVIOUS
  <2>2. PICK ord : ord = order
    OBVIOUS
  <2>3. \A o \in Orders : UnitsIn(ord[o].items, Rows, a) = UnitsIn(more[o].items, Rows, a)
    BY <2>1, <2>2
  <2>4. Sales(ord, Orders, a) = Sales(more, Orders, a)
    BY <2>3, SalesEqual
  <2> QED
    BY <2>1, <2>2, <2>4
<1> QED
  BY <1>1, SalesOf

LEMMA OrderedStays ==
  ASSUME UNCHANGED order, NEW a
  PROVE  Ordered(a)' = Ordered(a)
BY OrderedSame

Untouched(a) ==
  /\ article'[a] = article[a] /\ offer'[a] = offer[a] /\ supplied'[a] = supplied[a]
  /\ Ordered(a)' = Ordered(a)

LEMMA ShelfSame ==
  ASSUME NEW a, Untouched(a), NEW n
  PROVE  Shelf(a, n)' <=> Shelf(a, n)
BY DEF Untouched, Shelf

(* No request changes.                                                      *)
LEMMA ArticleSame ==
  ASSUME NEW a, ArticleInOrder(a), Untouched(a), UNCHANGED req
  PROVE  ArticleInOrder(a)'
<1>1. \A q \in Requests, i \in Rows : Takes(q, i, a)' <=> Takes(q, i, a)
  BY DEF Takes
<1>2. \A n : Shelf(a, n)' <=> Shelf(a, n)
  BY ShelfSame
<1> QED
  BY <1>1, <1>2 DEF ArticleInOrder, Untouched

(* A request has nothing to take of a, or no longer, and has saved no item. *)
LEMMA ArticleDrop ==
  ASSUME NEW a, ArticleInOrder(a), Untouched(a), req \in [Requests -> Request],
         NEW r \in Requests, NEW w, req' = [req EXCEPT ![r] = w],
         \A i \in w.todo : w.copy[i].article # a,
         \A i \in Rows : Takes(r, i, a) => req[r].phase # "stock"
  PROVE  ArticleInOrder(a)'
<1>1. ASSUME NEW q \in Requests, NEW i \in Rows, Takes(q, i, a)'
      PROVE  q # r /\ req'[q] = req[q] /\ Takes(q, i, a)
  BY <1>1 DEF Takes
<1>2. ASSUME NEW q \in Requests, NEW i \in Rows, Takes(q, i, a), q # r
      PROVE  Takes(q, i, a)' /\ req'[q] = req[q]
  BY <1>2 DEF Takes
<1>3. \A n : Shelf(a, n)' <=> Shelf(a, n)
  BY ShelfSame
<1>4. \A q1, q2 \in Requests, i1, i2 \in Rows :
        Takes(q1, i1, a)' /\ Takes(q2, i2, a)' => q1 = q2 /\ i1 = i2
  BY <1>1 DEF ArticleInOrder
<1>5. \A q \in Requests, i \in Rows : Takes(q, i, a)' => req'[q].copy[i].seen = article'[a]
  BY <1>1 DEF ArticleInOrder, Untouched
<1>6. ASSUME \A q \in Requests, i \in Rows : Takes(q, i, a)' => req'[q].phase # "stock"
      PROVE  Shelf(a, 0)'
  <2>1. \A q \in Requests, i \in Rows : Takes(q, i, a) => req[q].phase # "stock"
    BY <1>2, <1>6
  <2> QED
    BY <1>3, <2>1 DEF ArticleInOrder
<1>7. \A q \in Requests, i \in Rows :
        (Takes(q, i, a) /\ req[q].phase = "stock" => Shelf(a, req[q].copy[i].quantity))'
  <2>1. ASSUME NEW q \in Requests, NEW i \in Rows, Takes(q, i, a)', req'[q].phase = "stock"
        PROVE  Shelf(a, req[q].copy[i].quantity)'
    <3>1. req'[q] = req[q] /\ Shelf(a, req[q].copy[i].quantity)
      BY <1>1, <2>1 DEF ArticleInOrder
    <3> QED
      BY <3>1 DEF Shelf, Untouched
  <2> QED
    BY <2>1
<1> QED
  BY <1>4, <1>5, <1>6, <1>7 DEF ArticleInOrder

(* A request goes on, and what it is to take of a stays the same.           *)
LEMMA ArticleKeep ==
  ASSUME NEW a, ArticleInOrder(a), Untouched(a), req \in [Requests -> Request],
         NEW r \in Requests, NEW w, req' = [req EXCEPT ![r] = w],
         w.copy = req[r].copy,
         \A i \in Rows : (i \in w.todo /\ w.copy[i].article = a) <=> Takes(r, i, a),
         \A i \in Rows : Takes(r, i, a) => (w.phase = "stock" <=> req[r].phase = "stock")
  PROVE  ArticleInOrder(a)'
<1>1. ASSUME NEW q \in Requests, NEW i \in Rows
      PROVE  /\ Takes(q, i, a)' <=> Takes(q, i, a)
             /\ req'[q].copy = req[q].copy
             /\ Takes(q, i, a) => (req'[q].phase = "stock" <=> req[q].phase = "stock")
  BY DEF Takes
<1>2. \A n : Shelf(a, n)' <=> Shelf(a, n)
  BY ShelfSame
<1>3. \A q1, q2 \in Requests, i1, i2 \in Rows :
        Takes(q1, i1, a)' /\ Takes(q2, i2, a)' => q1 = q2 /\ i1 = i2
  BY <1>1 DEF ArticleInOrder
<1>4. \A q \in Requests, i \in Rows : Takes(q, i, a)' => req'[q].copy[i].seen = article'[a]
  BY <1>1 DEF ArticleInOrder, Untouched
<1>5. ASSUME \A q \in Requests, i \in Rows : Takes(q, i, a)' => req'[q].phase # "stock"
      PROVE  Shelf(a, 0)'
  <2>1. \A q \in Requests, i \in Rows : Takes(q, i, a) => req[q].phase # "stock"
    BY <1>1, <1>5
  <2> QED
    BY <1>2, <2>1 DEF ArticleInOrder
<1>6. \A q \in Requests, i \in Rows :
        (Takes(q, i, a) /\ req[q].phase = "stock" => Shelf(a, req[q].copy[i].quantity))'
  <2>1. ASSUME NEW q \in Requests, NEW i \in Rows, Takes(q, i, a)', req'[q].phase = "stock"
        PROVE  Shelf(a, req[q].copy[i].quantity)'
    <3>1. req'[q].copy[i].quantity = req[q].copy[i].quantity
          /\ Shelf(a, req[q].copy[i].quantity)
      BY <1>1, <2>1 DEF ArticleInOrder
    <3> QED
      BY <3>1 DEF Shelf, Untouched
  <2> QED
    BY <2>1
<1> QED
  BY <1>3, <1>4, <1>5, <1>6 DEF ArticleInOrder

(* No request takes of a: it is on the shelf.                               *)
LEMMA ArticleIdle ==
  ASSUME NEW a, \A q \in Requests, i \in Rows : ~Takes(q, i, a)', Shelf(a, 0)'
  PROVE  ArticleInOrder(a)'
<1>1. \A q \in Requests, i \in Rows : (~Takes(q, i, a))'
  OBVIOUS
<1> QED
  BY <1>1 DEF ArticleInOrder

LEMMA TakingTakes ==
  ASSUME RequestsSound, NEW q \in Requests, NEW a
  PROVE  Taking(q, a) <=> \E i \in Rows : Takes(q, i, a)
BY TakingType DEF Taking, Takes

(* Of an article that no request takes, the seller may set the stock.       *)
LEMMA ArticleSet ==
  ASSUME Base, NEW a \in Articles, NEW w \in Article, SetArticle(a, w), Edit(a),
         UNCHANGED <<order, req>>, NEW x \in Articles, x \notin disturbed', ArticleInOrder(x)
  PROVE  ArticleInOrder(x)'
<1>0. /\ order \in [Orders -> Order] /\ article \in [Articles -> Article]
      /\ offer \in [Articles -> Article] /\ supplied \in [Articles -> Int] /\ RequestsSound
  BY DEF Base, RestTyped, StockSafe
<1>1. Ordered(x)' = Ordered(x)
  BY OrderedStays
<1>2. CASE x # a
  <2>1. Untouched(x)
    BY <1>0, <1>1, <1>2 DEF Untouched, SetArticle
  <2> QED
    BY <2>1, ArticleSame
<1>3. CASE x = a
  <2>1. \A q \in Requests : ~Taking(q, a)
    BY <1>3 DEF Edit
  <2>2. \A q \in Requests, i \in Rows : ~Takes(q, i, a)'
    BY <1>0, <2>1, TakingTakes DEF Takes
  <2>3. article'[a] = w /\ offer'[a] = w /\ supplied'[a] = w.stock + Ordered(a)
    BY <1>0 DEF SetArticle
  <2>4. PICK n : n = Ordered(a)
    OBVIOUS
  <2>5. n \in Int /\ w.stock \in Int
    BY <1>0, <2>4, OrdersCountable, SalesOf DEF Article
  <2>6. w.stock + n - n + 0 = w.stock
    BY <2>5
  <2>7. w = [w EXCEPT !.stock = w.stock]
    BY DEF Article
  <2>8. supplied'[a] - Ordered(a)' + 0 = w.stock
    <3>1. PICK m : m = Ordered(a)'
      OBVIOUS
    <3>2. m = n
      BY <1>1, <1>3, <2>4, <3>1
    <3>3. PICK s : s = supplied'[a]
      OBVIOUS
    <3>4. s = w.stock + n
      BY <2>3, <2>4, <3>3
    <3>5. s - m + 0 = w.stock
      BY <2>5, <3>2, <3>4
    <3> QED
      BY <3>1, <3>3, <3>5
  <2>9. Shelf(a, 0)'
    BY <2>3, <2>7, <2>8 DEF Shelf
  <2> QED
    BY <1>3, <2>2, <2>9, ArticleIdle
<1> QED
  BY <1>2, <1>3

LEMMA ArticleUpdate ==
  ASSUME Base, NEW a \in Articles, NEW n \in Nat, NEW p \in Nat, UpdateArticle(a, n, p),
         NEW x \in Articles, x \notin disturbed', ArticleInOrder(x)
  PROVE  ArticleInOrder(x)'
<1> DEFINE w == [article[a] EXCEPT !.stock = n, !.price = p, !.active = TRUE]
<1>1. article[a] \in Article
  BY DEF Base, StockSafe
<1>2. w \in Article
  BY <1>1, EditedType
<1>3. SetArticle(a, w) /\ Edit(a) /\ UNCHANGED <<order, req>>
  BY DEF UpdateArticle
<1> HIDE DEF w
<1> QED
  BY <1>2, <1>3, ArticleSet

LEMMA ArticleOmit ==
  ASSUME Base, NEW a \in Articles, OmitVariant(a),
         NEW x \in Articles, x \notin disturbed', ArticleInOrder(x)
  PROVE  ArticleInOrder(x)'
<1> DEFINE y == [article[a] EXCEPT !.stock = 0]
           w == [article[a] EXCEPT !.stock = 0, !.active = FALSE]
<1>1. article[a] \in Article
  BY DEF Base, StockSafe
<1>2. SetArticle(a, w) /\ Edit(a) /\ UNCHANGED <<order, req>>
  BY DEF OmitVariant
<1>3. y \in Article /\ w = [y EXCEPT !.active = FALSE]
  BY <1>1 DEF Article
<1> HIDE DEF y, w
<1>4. w \in Article
  BY <1>3 DEF Article
<1> QED
  BY <1>2, <1>4, ArticleSet

(* Removing a product only marks it.                                        *)
LEMMA ArticleRemove ==
  ASSUME Base, NEW a \in Articles, RemoveProduct(a),
         NEW x \in Articles, x \notin disturbed', ArticleInOrder(x)
  PROVE  ArticleInOrder(x)'
<1>0. /\ order \in [Orders -> Order] /\ article \in [Articles -> Article]
      /\ offer \in [Articles -> Article] /\ supplied \in [Articles -> Int] /\ RequestsSound
  BY DEF Base, RestTyped, StockSafe
<1>1. UNCHANGED <<order, req, supplied>>
  BY DEF RemoveProduct
<1>2. PICK s \in {"removed", "erased"} :
        /\ article' = [article EXCEPT ![a] = [article[a] EXCEPT !.product = s]]
        /\ offer' = [offer EXCEPT ![a] = [article[a] EXCEPT !.product = s]]
  BY DEF RemoveProduct
<1>3. Ordered(x)' = Ordered(x)
  BY <1>1, OrderedStays
<1>4. CASE x # a
  <2>1. Untouched(x)
    BY <1>0, <1>1, <1>2, <1>3, <1>4 DEF Untouched
  <2> QED
    BY <1>1, <2>1, ArticleSame
<1>5. CASE x = a
  <2>1. \A q \in Requests : ~Taking(q, a)
    BY <1>5 DEF RemoveProduct
  <2>2. \A q \in Requests, i \in Rows : ~Takes(q, i, a) /\ ~Takes(q, i, a)'
    BY <1>0, <1>1, <2>1, TakingTakes DEF Takes
  <2>3. Shelf(a, 0)
    BY <1>5, <2>2 DEF ArticleInOrder
  <2> DEFINE m == supplied[a] - Ordered(a) + 0
             w == [article[a] EXCEPT !.product = s]
  <2>4. article[a] = [offer[a] EXCEPT !.stock = m]
    BY <2>3 DEF Shelf
  <2>5. article[a].stock = m
    BY <1>0, <2>4 DEF Article
  <2>6. article'[a] = w /\ offer'[a] = w
    BY <1>0, <1>2
  <2>7. w = [w EXCEPT !.stock = m]
    BY <1>0, <2>5 DEF Article
  <2>8. supplied'[a] - Ordered(a)' + 0 = m
    BY <1>1, <1>3, <1>5
  <2> HIDE DEF m, w
  <2>9. Shelf(a, 0)'
    BY <2>6, <2>7, <2>8 DEF Shelf
  <2> QED
    BY <1>5, <2>2, <2>9, ArticleIdle
<1> QED
  BY <1>4, <1>5

(* A checkout reads an article that no other is about to take.              *)
LEMMA ArticleBegin ==
  ASSUME Base, NEW r \in Requests, NEW b \in Buyers, NEW method \in PaymentMethod,
         CheckoutBegin(r, b, method),
         NEW x \in Articles, x \notin disturbed', ArticleInOrder(x)
  PROVE  ArticleInOrder(x)'
<1> DEFINE S    == InCart(b)
           copy == [i \in Rows |-> IF i \in S THEN Seen(i) ELSE None]
           w    == [Idle EXCEPT !.phase = "order", !.buyer = b, !.method = method,
                                !.todo = S, !.copy = copy]
<1>0. /\ req \in [Requests -> Request] /\ RequestsSound /\ TodoKept
      /\ UNCHANGED <<article, order, offer, supplied>>
  BY DEF Base, StockSafe, RequestsSound, CheckoutBegin, Kept
<1>1. Untouched(x)
  BY <1>0, OrderedStays DEF Untouched
<1>2. req' = [req EXCEPT ![r] = w] /\ req[r].phase = "idle"
  BY DEF CheckoutBegin
<1>3. w.phase = "order" /\ w.todo = S /\ w.copy = copy
  BY DEF Idle
<1>4. \A i \in S : /\ i \in Rows /\ copy[i].article = cart[i].article
                   /\ copy[i].seen = article[cart[i].article]
  BY DEF InCart, Seen
<1> HIDE DEF w, copy
<1>5. \A i \in Rows : ~Takes(r, i, x)
  BY <1>0, <1>2 DEF TodoKept, Regular, Takes
<1>6. CASE \A i \in S : cart[i].article # x
  <2>1. \A i \in w.todo : w.copy[i].article # x
    BY <1>3, <1>4, <1>6
  <2>2. \A i \in Rows : Takes(r, i, x) => req[r].phase # "stock"
    BY <1>5
  <2> HIDE DEF S
  <2> QED
    BY <1>0, <1>1, <1>2, <2>1, <2>2, ArticleDrop
<1>7. CASE \E i \in S : cart[i].article = x
  <2>1. PICK k \in S : cart[k].article = x
    BY <1>7
  <2>2. \A q \in Requests : ~Taking(q, x)
    BY <2>1 DEF CheckoutBegin
  <2>3. \A q \in Requests, i \in Rows : ~Takes(q, i, x)
    BY <1>0, <2>2, TakingTakes
  <2>4. \A i \in S : cart[i].article = x => i = k
    BY <2>1 DEF CheckoutBegin, Doubled
  <2>5. Shelf(x, 0)
    BY <2>3 DEF ArticleInOrder
  <2>6. ASSUME NEW q \in Requests, NEW i \in Rows, Takes(q, i, x)'
        PROVE  /\ q = r /\ i = k /\ req'[q].phase = "order"
               /\ req'[q].copy[i].seen = article'[x]
    <3>1. q = r
      BY <1>2, <2>3, <2>6 DEF Takes
    <3>2. i \in S /\ copy[i].article = x
      BY <1>0, <1>2, <1>3, <2>6, <3>1 DEF Takes
    <3>3. i = k
      BY <1>4, <2>4, <3>2
    <3> QED
      BY <1>0, <1>2, <1>3, <1>4, <2>1, <3>1, <3>3
  <2>7. Shelf(x, 0)'
    BY <1>1, <2>5, ShelfSame
  <2>8. \A q \in Requests, i \in Rows :
          (Takes(q, i, x) /\ req[q].phase = "stock" => Shelf(x, req[q].copy[i].quantity))'
    BY <2>6
  <2> QED
    BY <2>6, <2>7, <2>8 DEF ArticleInOrder
<1> QED
  BY <1>6, <1>7

(* Items that are saved move units from the shelf into an order, and their  *)
(* stock is still to be taken.                                              *)
LEMMA ItemsUnits ==
  ASSUME NEW copy \in [Rows -> Snapshot \cup {None}], NEW items,
         items = [i \in Rows |-> Line(copy[i])], NEW a
  PROVE  /\ \A i \in Rows : LineUnits(items[i], a) = LineUnits(copy[i], a)
         /\ \A i \in Rows : LineUnits(copy[i], a) \in Nat
         /\ UnitsIn(items, Rows, a) = UnitsIn(copy, Rows, a)
         /\ UnitsIn(items, Rows, a) \in Int /\ items \in [Rows -> OrderItem \cup {None}]
<1>1. ASSUME NEW i \in Rows
      PROVE  LineUnits(items[i], a) = LineUnits(copy[i], a) /\ LineUnits(copy[i], a) \in Nat
  <2>1. CASE copy[i] = None
    BY <2>1 DEF Line, LineUnits
  <2>2. CASE copy[i] \in Snapshot
    <3>1. LineUnits(Line(copy[i]), a) = LineUnits(copy[i], a)
      BY <2>2, LineType
    <3>2. LineUnits(copy[i], a) \in Nat
      BY <2>2 DEF LineUnits, Snapshot
    <3> QED
      BY <3>1, <3>2
  <2> QED
    BY <2>1, <2>2
<1>2. UnitsIn(items, Rows, a) = UnitsIn(copy, Rows, a)
  BY <1>1, UnitsEqual
<1>3. items \in [Rows -> OrderItem \cup {None}]
  BY LinesType
<1>4. UnitsIn(items, Rows, a) \in Int
  BY <1>3, ItemsCountable
<1> QED
  BY <1>1, <1>2, <1>3, <1>4

LEMMA NoUnits == \A a : UnitsIn(NoItems, Rows, a) = 0
<1>1. \A a : \A i \in Rows : LineUnits(NoItems[i], a) = 0
  BY DEF NoItems, LineUnits
<1> QED
  BY <1>1, CheckoutAssumption, UnitsZero

(* The order that is filled in was empty.                                   *)
LEMMA OrderedFilled ==
  ASSUME order \in [Orders -> Order], NEW o \in Orders, NEW items \in [Rows -> OrderItem \cup {None}],
         order[o].items = NoItems, order' = [order EXCEPT ![o].items = items],
         NEW S \in SUBSET Orders, o \in S, NEW a
  PROVE  Sales(order', S, a) = Sales(order, S, a) + UnitsIn(items, Rows, a)
<1>1. PICK ord : ord = order
  OBVIOUS
<1>2. PICK more : more = order'
  OBVIOUS
<1>3. more[o].items = items /\ \A x \in S \ {o} : more[x].items = ord[x].items
  BY <1>1, <1>2 DEF Order
<1>4. IsFiniteSet(S) /\ Summable(ord, S, a) /\ Sales(ord, S, a) \in Int
  BY <1>1, OrdersCountable
<1>5. UnitsIn(items, Rows, a) \in Int
  BY ItemsCountable
<1>6. UnitsIn(ord[o].items, Rows, a) = 0
  BY <1>1, NoUnits
<1>7. Sales(more, S, a) = Sales(ord, S, a) - UnitsIn(ord[o].items, Rows, a)
                            + UnitsIn(more[o].items, Rows, a)
  BY <1>3, <1>4, <1>5, SalesChange
<1>8. Sales(more, S, a) = Sales(ord, S, a) + UnitsIn(items, Rows, a)
  BY <1>3, <1>4, <1>5, <1>6, <1>7
<1> QED
  BY <1>1, <1>2, <1>8

LEMMA ArticleSaveItems ==
  ASSUME Base, NEW r \in Requests, SaveItems(r),
         NEW x \in Articles, x \notin disturbed, ArticleInOrder(x)
  PROVE  ArticleInOrder(x)'
<1> DEFINE o == req[r].order
           w == [req[r] EXCEPT !.phase = "stock"]
<1>0. /\ req \in [Requests -> Request] /\ RequestsSound /\ TodoKept /\ OrdersKept
      /\ order \in [Orders -> Order] /\ supplied \in [Articles -> Int]
      /\ UNCHANGED <<article, offer, supplied>>
  BY DEF Base, StockSafe, RequestsSound, RestTyped, Kept, SaveItems, history
<1>1. req[r].phase = "items" /\ req[r] \in Request /\ Holds(r)
  BY <1>0 DEF SaveItems, Holds, Holding
<1>2. CASE Finish(r) /\ UNCHANGED order
  <2>1. Untouched(x)
    BY <1>0, <1>2, OrderedStays DEF Untouched
  <2>2. req' = [req EXCEPT ![r] = Idle] /\ \A i \in Idle.todo : Idle.copy[i].article # x
    BY <1>2, IdleRegular DEF Finish
  <2>3. \A i \in Rows : Takes(r, i, x) => req[r].phase # "stock"
    BY <1>1
  <2> QED
    BY <1>0, <2>1, <2>2, <2>3, ArticleDrop
<1>3. CASE /\ order' = [order EXCEPT ![o].items = [i \in Rows |-> Line(req[r].copy[i])]]
           /\ req' = [req EXCEPT ![r].phase = "stock"]
  <2>1. PICK copy : copy = req[r].copy
    OBVIOUS
  <2>2. PICK items : items = [i \in Rows |-> Line(copy[i])]
    OBVIOUS
  <2>3. copy \in [Rows -> Snapshot \cup {None}]
    BY <1>1, <2>1 DEF Request
  <2>4. /\ \A i \in Rows : LineUnits(items[i], x) = LineUnits(copy[i], x)
        /\ \A i \in Rows : LineUnits(copy[i], x) \in Nat
        /\ UnitsIn(items, Rows, x) = UnitsIn(copy, Rows, x)
        /\ UnitsIn(items, Rows, x) \in Int /\ items \in [Rows -> OrderItem \cup {None}]
    BY <2>2, <2>3, ItemsUnits
  <2>5. o \in Orders /\ order[o].items = NoItems /\ order' = [order EXCEPT ![o].items = items]
    BY <1>0, <1>1, <1>3, <2>1, <2>2 DEF OrdersKept
  <2>6. req' = [req EXCEPT ![r] = w]
    BY <1>0, <1>3
  <2>7. w.phase = "stock" /\ w.todo = req[r].todo /\ w.copy = copy
    BY <1>1, <2>1 DEF Request
  <2>8. req[r].todo = {i \in Rows : copy[i] # None}
    BY <1>0, <1>1, <2>1 DEF TodoKept, Regular
  <2> HIDE DEF w
  <2>9. Ordered(x)' = Ordered(x) + UnitsIn(items, Rows, x)
    <3>1. PICK k : k = o
      OBVIOUS
    <3>a. /\ k \in Orders /\ order[k].items = NoItems
          /\ order' = [order EXCEPT ![k].items = items]
      BY <2>5, <3>1
    <3>2. Sales(order', Orders, x) = Sales(order, Orders, x) + UnitsIn(items, Rows, x)
      <4>1. Orders \in SUBSET Orders /\ order \in [Orders -> Order]
            /\ items \in [Rows -> OrderItem \cup {None}]
        BY <1>0, <2>4
      <4> QED
        BY <3>a, <4>1, OrderedFilled
    <3> QED
      BY <3>2, SalesOf
  <2>10. CASE \A i \in Rows : ~Takes(r, i, x)
    <3>1. \A i \in Rows : LineUnits(items[i], x) = 0
      BY <2>1, <2>4, <2>8, <2>10 DEF Takes, LineUnits
    <3>2. UnitsIn(items, Rows, x) = 0
      BY <3>1, CheckoutAssumption, UnitsZero
    <3>3. Ordered(x) \in Int
      BY <1>0, OrdersCountable, SalesOf
    <3>4. Ordered(x)' = Ordered(x)
      BY <2>9, <3>2, <3>3
    <3>5. Untouched(x)
      BY <1>0, <3>4 DEF Untouched
    <3>6. \A i \in Rows : (i \in w.todo /\ w.copy[i].article = x) <=> Takes(r, i, x)
      BY <2>1, <2>7 DEF Takes
    <3> QED
      BY <1>0, <2>1, <2>6, <2>7, <2>10, <3>5, <3>6, ArticleKeep
  <2>11. CASE \E i \in Rows : Takes(r, i, x)
    <3>1. PICK k \in Rows : Takes(r, k, x)
      BY <2>11
    <3>2. \A q \in Requests, i \in Rows : Takes(q, i, x) => q = r /\ i = k
      BY <3>1 DEF ArticleInOrder
    <3>3. \A i \in Rows \ {k} : LineUnits(items[i], x) = 0
      BY <2>1, <2>4, <2>8, <3>2 DEF Takes, LineUnits
    <3>4. LineUnits(items[k], x) = copy[k].quantity /\ copy[k].quantity \in Nat
      BY <2>1, <2>3, <2>4, <2>8, <3>1 DEF Takes, LineUnits
    <3>5. UnitsIn(items, Rows, x) = copy[k].quantity
      <4>1. LineUnits(items[k], x) \in Int
        BY <3>4
      <4>2. UnitsIn(items, Rows, x) = LineUnits(items[k], x)
        BY <3>3, <4>1, CheckoutAssumption, UnitsOnly
      <4> QED
        BY <3>4, <4>2
    <3>6. Shelf(x, 0)
      BY <1>1, <3>2 DEF ArticleInOrder
    <3>7. PICK n : n = Ordered(x)
      OBVIOUS
    <3>8. PICK s : s = supplied[x]
      OBVIOUS
    <3>9. n \in Int /\ s \in Int
      BY <1>0, <3>7, <3>8, OrdersCountable, SalesOf
    <3>10. s - n + 0 = s - (n + copy[k].quantity) + copy[k].quantity
      BY <3>4, <3>9
    <3>11. Ordered(x)' = n + copy[k].quantity
      BY <2>9, <3>5, <3>7
    <3>12. article[x] = [offer[x] EXCEPT !.stock = s - n + 0]
      BY <3>6, <3>7, <3>8 DEF Shelf
    <3>13. article'[x] = [offer'[x] EXCEPT !.stock = s - Ordered(x)' + copy[k].quantity]
      BY <1>0, <3>10, <3>11, <3>12
    <3>14. Shelf(x, copy[k].quantity)'
      BY <1>0, <3>8, <3>13 DEF Shelf
    <3>15. ASSUME NEW q \in Requests, NEW i \in Rows, Takes(q, i, x)'
           PROVE  /\ q = r /\ i = k /\ req'[q].phase = "stock" /\ req'[q].copy = copy
                  /\ req'[q].copy[i].seen = article'[x]
      <4>1. Takes(q, i, x)
        BY <1>0, <2>1, <2>6, <2>7, <3>15 DEF Takes
      <4>2. q = r /\ i = k /\ req[q].copy[i].seen = article[x]
        BY <3>2, <4>1 DEF ArticleInOrder
      <4> QED
        BY <1>0, <2>1, <2>6, <2>7, <4>2
    <3>16. Takes(r, k, x)' /\ req'[r].phase = "stock"
      BY <1>0, <2>1, <2>6, <2>7, <3>1 DEF Takes
    <3>17. \A q \in Requests, i \in Rows :
            (Takes(q, i, x) /\ req[q].phase = "stock" => Shelf(x, req[q].copy[i].quantity))'
      <4>1. ASSUME NEW q \in Requests, NEW i \in Rows, Takes(q, i, x)'
            PROVE  Shelf(x, req[q].copy[i].quantity)'
        <5>1. req'[q].copy[i].quantity = copy[k].quantity
          BY <3>15, <4>1
        <5> QED
          BY <3>14, <5>1 DEF Shelf
      <4> QED
        BY <4>1
    <3> QED
      BY <3>15, <3>16, <3>17 DEF ArticleInOrder
  <2> QED
    BY <2>10, <2>11
<1> QED
  BY <1>2, <1>3 DEF SaveItems

(* The stock that is taken is what was on the shelf when it was read, less  *)
(* the units of the order.                                                  *)
LEMMA ArticleTakeStock ==
  ASSUME Base, NEW r \in Requests, NEW i \in Rows, TakeStock(r, i),
         NEW x \in Articles, x \notin disturbed, ArticleInOrder(x)
  PROVE  ArticleInOrder(x)'
<1> DEFINE s == req[r].copy[i]
           a == s.article
           rest == req[r].todo \ {i}
           p == IF rest = {} THEN "clear" ELSE "stock"
           w == [req[r] EXCEPT !.todo = rest, !.phase = p]
<1>0. /\ req \in [Requests -> Request] /\ RequestsSound
      /\ article \in [Articles -> Article] /\ offer \in [Articles -> Article]
      /\ order \in [Orders -> Order] /\ supplied \in [Articles -> Int]
      /\ UNCHANGED <<order, offer, supplied>>
  BY DEF Base, StockSafe, RequestsSound, RestTyped, TakeStock, history
<1>1. /\ req[r].phase = "stock" /\ req[r] \in Request /\ i \in req[r].todo
      /\ s \in Snapshot /\ a \in Articles
  BY <1>0, TakingType DEF TakeStock
<1>2. req' = [req EXCEPT ![r] = w]
  BY <1>0 DEF TakeStock
<1>3. w.phase = p /\ w.todo = rest /\ w.copy = req[r].copy
  BY <1>1 DEF Request
<1>4. Ordered(x)' = Ordered(x)
  BY <1>0, OrderedStays
<1>5. article' = [article EXCEPT ![a] =
        [stock |-> Remaining(s), price |-> s.seen.price, active |-> s.seen.active,
         product |-> IF a \in Variants THEN article[a].product ELSE s.seen.product]]
  BY DEF TakeStock
<1> HIDE DEF w
<1>6. CASE x # a
  <2>1. Untouched(x)
    BY <1>0, <1>4, <1>5, <1>6 DEF Untouched
  <2>2. \A j \in Rows : (j \in w.todo /\ w.copy[j].article = x) <=> Takes(r, j, x)
    BY <1>3, <1>6 DEF Takes
  <2>3. \A j \in Rows : Takes(r, j, x) => (w.phase = "stock" <=> req[r].phase = "stock")
    BY <1>1, <1>3, <1>6 DEF Takes
  <2> HIDE DEF p, rest
  <2> QED
    BY <1>0, <1>2, <1>3, <2>1, <2>2, <2>3, ArticleKeep
<1>7. CASE x = a
  <2>1. Takes(r, i, x)
    BY <1>1, <1>7 DEF Takes
  <2>2. \A q \in Requests, j \in Rows : Takes(q, j, x) => q = r /\ j = i
    BY <2>1 DEF ArticleInOrder
  <2>3. s.seen = article[x] /\ Shelf(x, s.quantity)
    BY <1>1, <2>1 DEF ArticleInOrder
  <2>4. \A q \in Requests, j \in Rows : ~Takes(q, j, x)'
    <3>1. ASSUME NEW q \in Requests, NEW j \in Rows, Takes(q, j, x)' PROVE FALSE
      <4>1. q # r
        BY <1>0, <1>2, <1>3, <2>2, <3>1 DEF Takes
      <4>2. Takes(q, j, x)
        BY <1>0, <1>2, <3>1, <4>1 DEF Takes
      <4> QED
        BY <2>2, <4>1, <4>2
    <3> QED
      BY <3>1
  <2>5. PICK n : n = supplied[x] - Ordered(x)
    OBVIOUS
  <2>a. Ordered(x) \in Int /\ supplied[x] \in Int
    BY <1>0, OrdersCountable, SalesOf
  <2>6. n \in Int /\ s.quantity \in Nat /\ article[x].stock \in Int
    BY <1>0, <1>1, <2>5, <2>a DEF Snapshot, Article
  <2>7. article[x] = [offer[x] EXCEPT !.stock = n + s.quantity]
    BY <2>3, <2>5 DEF Shelf
  <2>8. article[x].stock = n + s.quantity
    BY <1>0, <2>7 DEF Article
  <2>9. Remaining(s) = n + 0
    BY <2>3, <2>6, <2>8 DEF Remaining
  <2>10. article'[x] = [article[x] EXCEPT !.stock = n + 0]
    BY <1>0, <1>1, <1>5, <1>7, <2>3, <2>9 DEF Article
  <2>11. article'[x] = [offer'[x] EXCEPT !.stock = n + 0]
    BY <1>0, <2>7, <2>10 DEF Article
  <2>12. Shelf(x, 0)'
    BY <1>0, <1>4, <2>5, <2>11 DEF Shelf
  <2> QED
    BY <2>4, <2>12, ArticleIdle
<1> QED
  BY <1>6, <1>7

(* A request ends, by itself or broken off, with no stock half taken.       *)
LEMMA ArticleFinish ==
  ASSUME Base, NEW r \in Requests, Finish(r), NEW x, ArticleInOrder(x), Untouched(x),
         \A i \in Rows : Takes(r, i, x) => req[r].phase # "stock"
  PROVE  ArticleInOrder(x)'
<1>1. req \in [Requests -> Request]
  BY DEF Base, StockSafe, RequestsSound
<1>2. req' = [req EXCEPT ![r] = Idle] /\ \A i \in Idle.todo : Idle.copy[i].article # x
  BY IdleRegular DEF Finish
<1> QED
  BY <1>1, <1>2, ArticleDrop

(* A request of a cart starts.                                              *)
LEMMA ArticleCart ==
  ASSUME Base, NEW r \in Requests, CartStep(r), NEW x, ArticleInOrder(x)
  PROVE  ArticleInOrder(x)'
<1>1. UNCHANGED <<article, order, offer, supplied>>
  BY DEF CartStep, AddProduct, UpdateQuantity, RemoveItem, ClearCart, DeleteItems
<1>2. Untouched(x)
  BY <1>1, OrderedStays DEF Untouched
<1>3. \/ UNCHANGED req
      \/ \E w : req[r].phase = "idle" /\ w.todo = {} /\ req' = [req EXCEPT ![r] = w]
  <2>1. ASSUME NEW b \in Buyers, NEW a \in Articles, NEW n \in Quantities,
               AddProduct(r, b, a, n)
        PROVE  \E w : req[r].phase = "idle" /\ w.todo = {} /\ req' = [req EXCEPT ![r] = w]
    <3> DEFINE job     == [Idle EXCEPT !.phase = "saveItem", !.buyer = b,
                             !.article = a, !.quantity = n, !.change = n,
                             !.price = article[a].price]
               onto(i) == [job EXCEPT !.row = i, !.quantity = cart[i].quantity + n,
                             !.price = cart[i].price]
    <3>1. job.todo = {} /\ \A i : onto(i).todo = {}
      BY DEF Idle
    <3>2. \/ req' = [req EXCEPT ![r] = job]
          \/ \E i \in InCart(b) : req' = [req EXCEPT ![r] = onto(i)]
      BY <2>1 DEF AddProduct
    <3>3. req[r].phase = "idle"
      BY <2>1 DEF AddProduct
    <3> HIDE DEF job, onto
    <3> QED
      BY <3>1, <3>2, <3>3
  <2>2. ASSUME NEW b \in Buyers, NEW i \in Rows, NEW n \in Updates,
               UpdateQuantity(r, b, i, n)
        PROVE  \E w : req[r].phase = "idle" /\ w.todo = {} /\ req' = [req EXCEPT ![r] = w]
    BY <2>2 DEF UpdateQuantity, Idle
  <2> QED
    BY <2>1, <2>2 DEF CartStep, RemoveItem, ClearCart, DeleteItems
<1>4. CASE UNCHANGED req
  BY <1>2, <1>4, ArticleSame
<1>5. ASSUME NEW w, req[r].phase = "idle", w.todo = {}, req' = [req EXCEPT ![r] = w]
      PROVE  ArticleInOrder(x)'
  <2>1. req \in [Requests -> Request] /\ \A i \in w.todo : w.copy[i].article # x
    BY <1>5 DEF Base, StockSafe, RequestsSound
  <2>2. \A i \in Rows : Takes(r, i, x) => req[r].phase # "stock"
    BY <1>5
  <2> QED
    BY <1>2, <1>5, <2>1, <2>2, ArticleDrop
<1> QED
  BY <1>3, <1>4, <1>5

LEMMA ArticleSaveOrder ==
  ASSUME Base, NEW r \in Requests, NEW o \in Orders, SaveOrder(r, o),
         NEW x, ArticleInOrder(x)
  PROVE  ArticleInOrder(x)'
<1> DEFINE w == [req[r] EXCEPT !.phase = "items", !.order = o]
<1>0. /\ req \in [Requests -> Request] /\ order \in [Orders -> Order] /\ OrdersKept
      /\ UNCHANGED <<article, offer, supplied>>
  BY DEF Base, StockSafe, RequestsSound, RestTyped, Kept, SaveOrder, history
<1>1. req[r].phase = "order" /\ req[r] \in Request
  BY <1>0 DEF SaveOrder
<1>2. req' = [req EXCEPT ![r] = w]
  BY <1>0 DEF SaveOrder
<1>3. w.phase = "items" /\ w.todo = req[r].todo /\ w.copy = req[r].copy
  BY <1>1 DEF Request
<1> HIDE DEF w
<1>4. order[o].items = NoItems
  BY <1>0 DEF SaveOrder, OrdersKept, NoOrder
<1>5. order'[o].items = NoItems /\ \A y \in Orders \ {o} : order'[y] = order[y]
  BY <1>0 DEF SaveOrder, NoOrder
<1>6. Untouched(x)
  BY <1>0, <1>4, <1>5, OrderedSame DEF Untouched
<1>7. \A i \in Rows : (i \in w.todo /\ w.copy[i].article = x) <=> Takes(r, i, x)
  BY <1>3 DEF Takes
<1> QED
  BY <1>0, <1>1, <1>2, <1>3, <1>6, <1>7, ArticleKeep

LEMMA ArticleClearBought ==
  ASSUME Base, NEW r \in Requests, ClearBought(r), NEW x, ArticleInOrder(x)
  PROVE  ArticleInOrder(x)'
<1>0. /\ req \in [Requests -> Request] /\ TodoKept /\ req[r].phase = "clear"
      /\ UNCHANGED <<article, order, offer, supplied>>
  BY DEF Base, StockSafe, RequestsSound, Kept, ClearBought, history
<1>1. Untouched(x)
  BY <1>0, OrderedStays DEF Untouched
<1>2. \A i \in Rows : ~Takes(r, i, x)
  BY <1>0 DEF TodoKept, Regular, Takes
<1>3. CASE Finish(r)
  BY <1>1, <1>2, <1>3, ArticleFinish
<1>4. CASE req' = [req EXCEPT ![r].phase = "payment"]
  <2> DEFINE w == [req[r] EXCEPT !.phase = "payment"]
  <2>1. req' = [req EXCEPT ![r] = w]
    BY <1>0, <1>4
  <2>2. w.todo = {}
    BY <1>0 DEF TodoKept, Regular, Request
  <2> HIDE DEF w
  <2>3. \A i \in w.todo : w.copy[i].article # x
    BY <2>2
  <2> QED
    BY <1>0, <1>1, <1>2, <2>1, <2>3, ArticleDrop
<1> QED
  BY <1>3, <1>4 DEF ClearBought

LEMMA ArticleSavePayment ==
  ASSUME Base, NEW r \in Requests, SavePayment(r), NEW x, ArticleInOrder(x)
  PROVE  ArticleInOrder(x)'
<1>0. /\ order \in [Orders -> Order] /\ req[r].phase = "payment"
      /\ UNCHANGED <<article, offer, supplied>> /\ Finish(r)
      /\ \E o : order' = [order EXCEPT ![o].paid = TRUE]
  BY DEF Base, RestTyped, SavePayment, history
<1>1. \A o \in Orders : order'[o].items = order[o].items
  BY <1>0 DEF Order
<1>2. Untouched(x)
  BY <1>0, <1>1, OrderedSame DEF Untouched
<1> QED
  BY <1>0, <1>2, ArticleFinish

LEMMA ArticleSaveItem ==
  ASSUME Base, NEW r \in Requests, SaveItem(r), NEW x, ArticleInOrder(x)
  PROVE  ArticleInOrder(x)'
<1>0. /\ req[r].phase = "saveItem" /\ Finish(r)
      /\ UNCHANGED <<article, order, offer, supplied>>
  BY DEF SaveItem
<1>1. Untouched(x)
  BY <1>0, OrderedStays DEF Untouched
<1> QED
  BY <1>0, <1>1, ArticleFinish

LEMMA ArticleBreakOff ==
  ASSUME Base, NEW r \in Requests, BreakOff(r), NEW x, x \notin disturbed', ArticleInOrder(x)
  PROVE  ArticleInOrder(x)'
<1>0. Finish(r) /\ UNCHANGED <<article, order, offer, supplied>>
  BY DEF BreakOff
<1>1. Untouched(x)
  BY <1>0, OrderedStays DEF Untouched
<1>2. \A i \in Rows : Takes(r, i, x) => req[r].phase # "stock"
  BY DEF BreakOff, Takes
<1> QED
  BY <1>0, <1>1, <1>2, ArticleFinish

LEMMA ArticlesInit == Init => ArticlesInOrder
<1> SUFFICES ASSUME Init, NEW a \in Articles PROVE ArticleInOrder(a)
  BY DEF ArticlesInOrder
<1>1. \A q \in Requests, i \in Rows : ~Takes(q, i, a)
  BY IdleRegular DEF Init, Takes
<1>2. \A o \in Orders : order[o].items = NoItems
  BY DEF Init, NoOrder
<1>3. Ordered(a) = 0
  <2> DEFINE F == [o \in Orders |-> UnitsIn(order[o].items, Rows, a)]
  <2>1. \A o \in Orders : F[o] = 0
    BY <1>2, NoUnits
  <2> HIDE DEF F
  <2>2. SumFunctionOnSet(F, Orders) = 0
    BY <2>1, CheckoutAssumption, SumZero
  <2> QED
    BY <2>2, SalesOf DEF Sales, F
<1>4. /\ offer[a] = Published(a) /\ article[a] = Published(a)
      /\ supplied[a] = FirstStock[a] /\ FirstStock[a] \in Nat
  BY CheckoutAssumption DEF Init
<1>5. FirstStock[a] - 0 + 0 = FirstStock[a]
  BY <1>4
<1>6. supplied[a] - Ordered(a) + 0 = FirstStock[a]
  BY <1>3, <1>4, <1>5
<1>7. Published(a) = [Published(a) EXCEPT !.stock = FirstStock[a]]
  <2>1. Published(a) \in Article /\ Published(a).stock = FirstStock[a]
    BY CheckoutAssumption DEF Published, Article
  <2> QED
    BY <2>1 DEF Article
<1>8. Shelf(a, 0)
  BY <1>4, <1>6, <1>7 DEF Shelf
<1> QED
  BY <1>1, <1>8 DEF ArticleInOrder

(* What was disturbed stays so.                                             *)
LEMMA DisturbedGrows == [Next]_vars => disturbed \subseteq disturbed'
<1> SUFFICES ASSUME [Next]_vars PROVE disturbed \subseteq disturbed'
  OBVIOUS
<1>1. ASSUME NEW r \in Requests, CartStep(r) PROVE disturbed \subseteq disturbed'
  BY <1>1 DEF CartStep, AddProduct, UpdateQuantity, RemoveItem, ClearCart, DeleteItems,
              CartChange
<1>2. ASSUME NEW r \in Requests, SaveItem(r) PROVE disturbed \subseteq disturbed'
  BY <1>2 DEF SaveItem
<1>3. ASSUME NEW r \in Requests, CheckoutStep(r) PROVE disturbed \subseteq disturbed'
  <2>1. ASSUME NEW b \in Buyers, NEW method \in PaymentMethod, CheckoutBegin(r, b, method)
        PROVE  disturbed \subseteq disturbed'
    BY <2>1 DEF CheckoutBegin
  <2>2. ASSUME UNCHANGED history PROVE disturbed \subseteq disturbed'
    BY <2>2 DEF history
  <2> QED
    BY <1>3, <2>1, <2>2
    DEF CheckoutStep, SaveOrder, SaveItems, TakeStock, ClearBought, SavePayment
<1>4. ASSUME NEW r \in Requests, BreakOff(r) PROVE disturbed \subseteq disturbed'
  BY <1>4 DEF BreakOff
<1>5. ASSUME NEW a \in Articles, SellerStep(a) PROVE disturbed \subseteq disturbed'
  <2>1. ASSUME Edit(a) PROVE disturbed \subseteq disturbed'
    BY <2>1 DEF Edit
  <2>2. ASSUME RemoveProduct(a) PROVE disturbed \subseteq disturbed'
    BY <2>2 DEF RemoveProduct
  <2> QED
    BY <1>5, <2>1, <2>2 DEF SellerStep, UpdateArticle, OmitVariant
<1>6. CASE UNCHANGED vars
  BY <1>6 DEF vars, history
<1> QED
  BY <1>1, <1>2, <1>3, <1>4, <1>5, <1>6 DEF Next

LEMMA ArticlesStep == Base /\ ArticlesInOrder /\ [Next]_vars => ArticlesInOrder'
<1> SUFFICES ASSUME Base, ArticlesInOrder, [Next]_vars, NEW x \in Articles, x \notin disturbed'
             PROVE  ArticleInOrder(x)'
  BY DEF ArticlesInOrder
<1>1. disturbed \subseteq disturbed'
  BY DisturbedGrows
<1>2. x \notin disturbed /\ ArticleInOrder(x)
  BY <1>1 DEF ArticlesInOrder
<1>3. ASSUME NEW r \in Requests, CheckoutStep(r) PROVE ArticleInOrder(x)'
  BY <1>2, <1>3, ArticleBegin, ArticleSaveOrder, ArticleSaveItems, ArticleTakeStock,
     ArticleClearBought, ArticleSavePayment DEF CheckoutStep
<1>4. ASSUME NEW a \in Articles, SellerStep(a) PROVE ArticleInOrder(x)'
  <2>1. ASSUME NEW of \in Offers PROVE of[1] \in Nat /\ of[2] \in Nat
    BY <2>1, CheckoutAssumption
  <2>2. article[a].stock \in Nat
    BY DEF Base, StockSafe, Article, StockNeverNegative
  <2>3. ASSUME NEW n \in Nat, NEW p \in Nat, UpdateArticle(a, n, p) PROVE ArticleInOrder(x)'
    BY <1>2, <2>3, ArticleUpdate
  <2>4. ASSUME OmitVariant(a) \/ RemoveProduct(a) PROVE ArticleInOrder(x)'
    BY <1>2, <2>4, ArticleOmit, ArticleRemove
  <2>5. ASSUME NEW p \in Nat,
               UpdateArticle(a, article[a].stock, p)
        PROVE  ArticleInOrder(x)'
    <3>1. PICK n : n = article[a].stock
      OBVIOUS
    <3>2. n \in Nat /\ UpdateArticle(a, n, p)
      BY <2>2, <2>5, <3>1
    <3> QED
      BY <2>3, <3>2
  <2> QED
    BY <1>4, <2>1, <2>3, <2>4, <2>5 DEF SellerStep
<1>5. CASE UNCHANGED vars
  <2>1. Untouched(x)
    BY <1>5, OrderedStays DEF Untouched, vars, history
  <2> QED
    BY <1>2, <1>5, <2>1, ArticleSame DEF vars
<1> QED
  BY <1>2, <1>3, <1>4, <1>5, ArticleCart, ArticleSaveItem, ArticleBreakOff DEF Next

(* Of an article on which no checkout overlapped another or an edit, stock  *)
(* and orders add up to what its seller has offered, and nothing else of    *)
(* it was overwritten: the stock of an order is taken from what was on the  *)
(* shelf when the checkout read it.                                         *)
THEOREM QuietStockExact == Spec => []QuietStockIsExact
<1>1. Base /\ ArticlesInOrder => QuietStockIsExact
  <2> SUFFICES ASSUME Base, ArticlesInOrder, NEW a \in Articles, QuietArticle(a)
               PROVE  article[a] = [offer[a] EXCEPT !.stock = supplied[a] - Ordered(a)]
    BY DEF QuietStockIsExact
  <2>1. RequestsSound /\ order \in [Orders -> Order] /\ supplied \in [Articles -> Int]
    BY DEF Base, StockSafe, RestTyped
  <2>2. \A q \in Requests, i \in Rows : ~Takes(q, i, a)
    BY <2>1, TakingTakes DEF QuietArticle
  <2>3. Shelf(a, 0)
    BY <2>2 DEF ArticlesInOrder, ArticleInOrder, QuietArticle
  <2>4. Ordered(a) \in Int /\ supplied[a] \in Int
    BY <2>1, OrdersCountable, SalesOf
  <2>5. supplied[a] - Ordered(a) + 0 = supplied[a] - Ordered(a)
    BY <2>4
  <2> QED
    BY <2>3, <2>5 DEF Shelf
<1>2. Init => Base /\ ArticlesInOrder
  BY BaseInit, ArticlesInit
<1>3. (Base /\ ArticlesInOrder) /\ [Next]_vars => (Base /\ ArticlesInOrder)'
  BY BaseStep, ArticlesStep
<1> QED
  BY <1>1, <1>2, <1>3, PTL DEF Spec

------------------------------------------------------------------------------
(* The cart and the orders of a buyer whose requests never overlap.         *)

(* What does not change them.                                               *)
SameCart(b)   == InCart(b)' = InCart(b) /\ \A i \in InCart(b) : cart'[i] = cart[i]
SameOrders(b) == OrdersOf(b)' = OrdersOf(b) /\ \A o \in OrdersOf(b) : order'[o] = order[o]
SameBusy(b)   ==
  \A q \in Requests : (Busy(q, b)' <=> Busy(q, b)) /\ (Busy(q, b) => req'[q] = req[q])

LEMMA InCartSame ==
  ASSUME NEW b, SameCart(b), NEW a
  PROVE  InCartOf(b, a)' = InCartOf(b, a)
<1>1. PICK S : S = InCart(b)
  OBVIOUS
<1>2. PICK old : old = cart
  OBVIOUS
<1>3. PICK new : new = cart'
  OBVIOUS
<1>4. \A i \in S : LineUnits(old[i], a) = LineUnits(new[i], a)
  BY <1>1, <1>2, <1>3 DEF SameCart
<1>5. UnitsIn(old, S, a) = UnitsIn(new, S, a)
  BY <1>4, UnitsEqual
<1>6. InCartOf(b, a) = UnitsIn(old, S, a) /\ InCartOf(b, a)' = UnitsIn(new, S, a)
  BY <1>1, <1>2, <1>3 DEF SameCart, InCartOf
<1> QED
  BY <1>5, <1>6

LEMMA OrderedBySame ==
  ASSUME NEW b, OrdersOf(b)' = OrdersOf(b),
         \A o \in OrdersOf(b) : order'[o].items = order[o].items, NEW a
  PROVE  OrderedBy(b, a)' = OrderedBy(b, a)
<1>1. PICK S : S = OrdersOf(b)
  OBVIOUS
<1>2. PICK ord : ord = order
  OBVIOUS
<1>3. PICK more : more = order'
  OBVIOUS
<1>4. \A o \in S : UnitsIn(ord[o].items, Rows, a) = UnitsIn(more[o].items, Rows, a)
  BY <1>1, <1>2, <1>3
<1>5. Sales(ord, S, a) = Sales(more, S, a)
  BY <1>4, SalesEqual
<1>6. OrderedBy(b, a) = Sales(ord, S, a) /\ OrderedBy(b, a)' = Sales(more, S, a)
  BY <1>1, <1>2, <1>3, SalesOf
<1> QED
  BY <1>5, <1>6

LEMMA OrdersSame ==
  ASSUME NEW b, SameOrders(b), NEW a
  PROVE  OrderedBy(b, a)' = OrderedBy(b, a)
BY OrderedBySame DEF SameOrders

LEMMA RowsSame ==
  ASSUME NEW b, RowsSound(b), SameCart(b), \A i \in InCart(b) : Present(cart[i].article)'
  PROVE  RowsSound(b)'
<1>1. \A i \in InCart(b)' : Present(cart[i].article)'
  BY DEF SameCart
<1>2. \A i, j \in InCart(b)' : cart'[i].article = cart'[j].article => i = j
  BY DEF SameCart, RowsSound
<1> QED
  BY <1>1, <1>2 DEF RowsSound

(* An order that a request holds is its buyer's.                            *)
LEMMA HolderIsBusy ==
  ASSUME Kept, NEW q \in Requests, Holds(q), NEW b, req[q].order \in OrdersOf(b)
  PROVE  Busy(q, b)
BY DEF Kept, OrdersKept, OrdersOf, Busy, Holds, Holding

(* The step concerns others.                                                *)
LEMMA BuyerAside ==
  ASSUME Base, NEW b \in Buyers, BuyerInOrder(b),
         SameCart(b), SameOrders(b), SameBusy(b), asked'[b] = asked[b],
         \A i \in InCart(b) : Present(cart[i].article)',
         \A q \in Requests : Busy(q, b) /\ req[q].phase = "saveItem" => Present(req[q].article)'
  PROVE  BuyerInOrder(b)'
<1>1. \A q1, q2 \in Requests : Busy(q1, b)' /\ Busy(q2, b)' => q1 = q2
  BY DEF SameBusy, BuyerInOrder
<1>2. RowsSound(b)'
  BY RowsSame DEF BuyerInOrder, CartSound
<1>3. (\E q \in Requests : Busy(q, b) /\ Bought(q))' <=> (\E q \in Requests : Busy(q, b) /\ Bought(q))
  BY DEF SameBusy, Bought
<1>4. \A a \in Articles : Unbought(b, a)' = Unbought(b, a) /\ OrderedBy(b, a)' = OrderedBy(b, a)
  BY <1>3, InCartSame, OrdersSame DEF Unbought
<1>5. CartSound(b)'
  BY <1>2, <1>4 DEF CartSound, BuyerInOrder
<1>6. ASSUME NEW q \in Requests, Busy(q, b)'
      PROVE  (/\ req[q].phase = "saveItem" => Saving(q, b)
              /\ req[q].phase \in {"order", "items"} => Buying(q, b)
              /\ Holds(q) => OrderSound(q, req[q].order))'
  <2>1. Busy(q, b) /\ req'[q] = req[q]
    BY <1>6 DEF SameBusy
  <2>2. /\ req[q].phase = "saveItem" => Saving(q, b)
        /\ req[q].phase \in {"order", "items"} => Buying(q, b)
        /\ Holds(q) => OrderSound(q, req[q].order)
    BY <2>1 DEF BuyerInOrder
  <2>3. (req[q].phase = "saveItem" => Saving(q, b))'
    BY <2>1, <2>2 DEF Saving, SameCart
  <2>4. (req[q].phase \in {"order", "items"} => Buying(q, b))'
    BY <2>1, <2>2 DEF Buying, SameCart
  <2>5. (Holds(q) => OrderSound(q, req[q].order))'
    <3>1. SUFFICES ASSUME Holds(q) PROVE OrderSound(q, req[q].order)'
      BY <2>1 DEF Holds
    <3>2. req[q].order \in OrdersOf(b)
      BY <2>1, <3>1 DEF Base, Kept, OrdersKept, OrdersOf, Busy
    <3>3. order'[req[q].order] = order[req[q].order]
      BY <3>2 DEF SameOrders
    <3> QED
      BY <2>1, <2>2, <3>1, <3>3 DEF OrderSound, Whole
  <2> QED
    BY <2>3, <2>4, <2>5
<1>7. ASSUME NEW o \in OrdersOf(b)', Loose(o)'
      PROVE  Settled(o)'
  <2>1. o \in OrdersOf(b) /\ order'[o] = order[o]
    BY <1>7 DEF SameOrders
  <2>2. ASSUME NEW q \in Requests, Holds(q) PROVE req[q].order # o
    BY <1>7, <2>1, <2>2, HolderIsBusy DEF SameBusy, Holds, Base, Loose
  <2>3. Settled(o)
    BY <2>1, <2>2 DEF BuyerInOrder, Loose
  <2> QED
    BY <2>1, <2>3 DEF Settled, Whole
<1> QED
  BY <1>1, <1>5, <1>6, <1>7 DEF BuyerInOrder

(* Orders that no request holds stay as they are.                           *)
LEMMA SettledSame ==
  ASSUME NEW b, BuyerInOrder(b), SameOrders(b),
         \A q \in Requests : Holds(q) => Holds(q)' /\ req'[q].order = req[q].order
  PROVE  (\A o \in OrdersOf(b) : Loose(o) => Settled(o))'
<1> SUFFICES ASSUME NEW o \in OrdersOf(b)', Loose(o)' PROVE Settled(o)'
  OBVIOUS
<1>1. o \in OrdersOf(b) /\ order'[o] = order[o]
  BY DEF SameOrders
<1>2. Loose(o)
  BY DEF Loose
<1>3. Settled(o)
  BY <1>1, <1>2 DEF BuyerInOrder
<1> QED
  BY <1>1, <1>3 DEF Settled, Whole

LEMMA SameTables ==
  ASSUME UNCHANGED <<cart, order>>, NEW b
  PROVE  SameCart(b) /\ SameOrders(b)
BY DEF SameCart, SameOrders, InCart, OrdersOf

(* The buyer's only request starts.                                         *)
LEMMA BuyerStart ==
  ASSUME Base, NEW b \in Buyers, BuyerInOrder(b), \A q \in Requests : ~Busy(q, b),
         NEW r \in Requests, req[r].phase = "idle", NEW w,
         req' = [req EXCEPT ![r] = w], w.phase \in {"saveItem", "order"},
         UNCHANGED <<article, cart, order, asked>>, disturbed \subseteq disturbed',
         w.phase = "saveItem" => Saving(r, b)', w.phase = "order" => Buying(r, b)'
  PROVE  BuyerInOrder(b)'
<1>0. req \in [Requests -> Request]
  BY DEF Base, StockSafe, RequestsSound
<1>1. /\ req'[r] = w /\ w.phase \notin Holding /\ w.phase \notin {"stock", "clear"}
      /\ \A q \in Requests \ {r} : req'[q] = req[q]
  BY <1>0 DEF Holding
<1>2. \A q \in Requests : Busy(q, b)' => q = r
  BY <1>1 DEF Busy
<1>3. SameCart(b) /\ SameOrders(b)
  BY SameTables
<1>4. RowsSound(b)'
  BY <1>3, RowsSame DEF BuyerInOrder, CartSound, RowsSound, Present
<1>5. ASSUME NEW a \in Articles PROVE (OrderedBy(b, a) = asked[b][a] - Unbought(b, a))'
  <2>1. Unbought(b, a) = InCartOf(b, a)
    BY DEF Unbought
  <2>2. Unbought(b, a)' = InCartOf(b, a)'
    BY <1>1, <1>2 DEF Unbought, Bought
  <2>3. OrderedBy(b, a) = asked[b][a] - Unbought(b, a)
    BY DEF BuyerInOrder, CartSound
  <2> QED
    BY <1>3, <2>1, <2>2, <2>3, InCartSame, OrdersSame
<1>6. CartSound(b)'
  BY <1>4, <1>5 DEF CartSound
<1>7. \A q \in Requests : Holds(q) => Holds(q)' /\ req'[q].order = req[q].order
  BY <1>1 DEF Holds, Holding
<1>8. (\A o \in OrdersOf(b) : Loose(o) => Settled(o))'
  BY <1>3, <1>7, SettledSame
<1>9. ASSUME NEW q \in Requests, Busy(q, b)'
      PROVE  (/\ req[q].phase = "saveItem" => Saving(q, b)
              /\ req[q].phase \in {"order", "items"} => Buying(q, b)
              /\ Holds(q) => OrderSound(q, req[q].order))'
  BY <1>1, <1>2, <1>9 DEF Holds, Holding
<1> QED
  BY <1>2, <1>6, <1>8, <1>9 DEF BuyerInOrder

(* It ends without a write.                                                 *)
LEMMA BuyerEnd ==
  ASSUME Base, NEW b \in Buyers, BuyerInOrder(b), NEW r \in Requests, Busy(r, b),
         req[r].phase \in {"saveItem", "order"}, Finish(r),
         UNCHANGED <<article, cart, order, asked>>, disturbed \subseteq disturbed'
  PROVE  BuyerInOrder(b)'
<1>0. req \in [Requests -> Request] /\ req' = [req EXCEPT ![r] = Idle]
  BY DEF Base, StockSafe, RequestsSound, Finish
<1>1. \A q \in Requests : Busy(q, b) => q = r
  BY DEF BuyerInOrder
<1>2. \A q \in Requests : ~Busy(q, b)'
  BY <1>0, <1>1, IdleRegular DEF Busy
<1>3. SameCart(b) /\ SameOrders(b)
  BY SameTables
<1>4. RowsSound(b)'
  BY <1>3, RowsSame DEF BuyerInOrder, CartSound, RowsSound, Present
<1>5. ASSUME NEW a \in Articles PROVE (OrderedBy(b, a) = asked[b][a] - Unbought(b, a))'
  <2>1. Unbought(b, a) = InCartOf(b, a)
    BY <1>1 DEF Unbought, Bought
  <2>2. Unbought(b, a)' = InCartOf(b, a)'
    BY <1>2 DEF Unbought
  <2>3. OrderedBy(b, a) = asked[b][a] - Unbought(b, a)
    BY DEF BuyerInOrder, CartSound
  <2> QED
    BY <1>3, <2>1, <2>2, <2>3, InCartSame, OrdersSame
<1>6. CartSound(b)'
  BY <1>4, <1>5 DEF CartSound
<1>7. \A q \in Requests : Holds(q) => Holds(q)' /\ req'[q].order = req[q].order
  BY <1>0 DEF Holds, Holding
<1>8. (\A o \in OrdersOf(b) : Loose(o) => Settled(o))'
  BY <1>3, <1>7, SettledSame
<1> QED
  BY <1>2, <1>6, <1>8 DEF BuyerInOrder

LEMMA OthersBusy ==
  ASSUME req \in [Requests -> Request], NEW b, NEW r \in Requests, ~Busy(r, b), NEW w,
         req' = [req EXCEPT ![r] = w], w.phase = "idle" \/ w.buyer # b
  PROVE  SameBusy(b)
BY DEF SameBusy, Busy

LEMMA PresentStays ==
  ASSUME UNCHANGED article, disturbed \subseteq disturbed', NEW a, Present(a)
  PROVE  Present(a)'
BY DEF Present

LEMMA BuyerElse ==
  ASSUME Base, NEW b \in Buyers, BuyerInOrder(b),
         SameCart(b), SameOrders(b), SameBusy(b), asked'[b] = asked[b],
         \A a \in Articles : Present(a) => Present(a)'
  PROVE  BuyerInOrder(b)'
<1>1. /\ cart \in [Rows -> CartItem \cup Absent] /\ RequestsSound
      /\ req \in [Requests -> Request]
  BY DEF Base, StockSafe, RequestsSound
<1>2. ASSUME NEW i \in InCart(b) PROVE Present(cart[i].article)'
  <2>1. PICK a : a = cart[i].article
    OBVIOUS
  <2>2. a \in Articles /\ Present(a)
    BY <1>1, <2>1, InCartType DEF BuyerInOrder, CartSound, RowsSound
  <2>3. Present(a)' /\ cart'[i] = cart[i]
    BY <2>2 DEF SameCart
  <2> QED
    BY <2>1, <2>3 DEF Present
<1>3. ASSUME NEW q \in Requests, Busy(q, b), req[q].phase = "saveItem"
      PROVE  Present(req[q].article)'
  <2>1. PICK a : a = req[q].article
    OBVIOUS
  <2>2. a \in Articles /\ Present(a)
    BY <1>1, <1>3, <2>1 DEF RequestsSound, Sound, BuyerInOrder, Saving
  <2>3. Present(a)' /\ req'[q] = req[q]
    BY <1>3, <2>2 DEF SameBusy
  <2> QED
    BY <2>1, <2>3 DEF Present
<1> QED
  BY <1>2, <1>3, BuyerAside

(* A request of another buyer that changes no table.                        *)
LEMMA BuyerOther ==
  ASSUME Base, NEW b \in Buyers, BuyerInOrder(b), NEW r \in Requests, ~Busy(r, b), NEW w,
         req' = [req EXCEPT ![r] = w], w.phase = "idle" \/ w.buyer # b,
         UNCHANGED <<article, cart, order, asked>>, disturbed \subseteq disturbed'
  PROVE  BuyerInOrder(b)'
<1>1. req \in [Requests -> Request]
  BY DEF Base, StockSafe, RequestsSound
<1>2. SameCart(b) /\ SameOrders(b) /\ SameBusy(b)
  BY <1>1, SameTables, OthersBusy
<1>3. asked'[b] = asked[b] /\ \A a \in Articles : Present(a) => Present(a)'
  BY PresentStays
<1> QED
  BY <1>2, <1>3, BuyerElse

LEMMA BuyerAddProduct ==
  ASSUME Base, NEW b \in Buyers, b \notin disturbed', BuyerInOrder(b),
         NEW r \in Requests, NEW c \in Buyers, NEW a \in Articles, NEW n \in Quantities,
         AddProduct(r, c, a, n)
  PROVE  BuyerInOrder(b)'
<1> DEFINE job     == [Idle EXCEPT !.phase = "saveItem", !.buyer = c,
                         !.article = a, !.quantity = n, !.change = n,
                         !.price = article[a].price]
           onto(i) == [job EXCEPT !.row = i, !.quantity = cart[i].quantity + n,
                         !.price = cart[i].price]
<1>0. /\ req \in [Requests -> Request] /\ cart \in [Rows -> CartItem \cup Absent]
      /\ UNCHANGED <<article, cart, order, asked>> /\ disturbed \subseteq disturbed'
      /\ req[r].phase = "idle"
  BY DEF Base, StockSafe, RequestsSound, AddProduct, CartChange
<1>1. \/ /\ req' = [req EXCEPT ![r] = job] /\ \A i \in InCart(c) : cart[i].article # a
      \/ \E i \in InCart(c) : cart[i].article = a /\ req' = [req EXCEPT ![r] = onto(i)]
  BY DEF AddProduct
<1>2. /\ job.phase = "saveItem" /\ job.buyer = c /\ job.row = None /\ job.article = a
      /\ job.quantity = n /\ job.change = n
  BY DEF Idle
<1>3. \A i : /\ onto(i).phase = "saveItem" /\ onto(i).buyer = c /\ onto(i).row = i
             /\ onto(i).article = a /\ onto(i).quantity = cart[i].quantity + n
             /\ onto(i).change = n
  BY DEF Idle
<1> HIDE DEF job, onto
<1>4. PICK w : /\ req' = [req EXCEPT ![r] = w]
               /\ w.phase = "saveItem" /\ w.buyer = c /\ w.article = a /\ w.change = n
               /\ \/ /\ w.row = None /\ w.quantity = n
                     /\ \A i \in InCart(c) : cart[i].article # a
                  \/ /\ w.row \in InCart(c) /\ cart[w.row].article = a
                     /\ w.quantity = cart[w.row].quantity + n
  BY <1>1, <1>2, <1>3
<1>5. ~Busy(r, b)
  BY <1>0 DEF Busy
<1>6. CASE b # c
  BY <1>0, <1>4, <1>5, <1>6, BuyerOther
<1>7. CASE b = c
  <2>1. \A q \in Requests : ~Busy(q, b)
    BY <1>7 DEF AddProduct, CartChange, Contended
  <2>2. Present(a)'
    BY <1>0 DEF AddProduct, Addable, Present
  <2>3. n \in Nat /\ None \notin Rows
    BY CheckoutAssumption
  <2>4. ASSUME w.row \in InCart(b), w.quantity = cart[w.row].quantity + n
        PROVE  w.row \in Rows /\ n = w.quantity - cart[w.row].quantity
    BY <1>0, <2>3, <2>4, InCartType
  <2>5. req'[r] = w /\ InCart(b)' = InCart(b) /\ cart' = cart
    BY <1>0 , <1>4 DEF InCart
  <2>6. Saving(r, b)'
    <3>1. Present(req[r].article)'
      BY <1>4, <2>2, <2>5 DEF Present
    <3>2. CASE w.row = None
      <4>1. \A i \in InCart(b) : cart[i].article # a
        BY <1>0, <1>4, <1>7, <2>3, <3>2 DEF InCart
      <4>2. w.quantity = n
        BY <1>4, <1>7, <2>3, <2>4, <3>2
      <4> QED
        BY <1>4, <2>5, <3>1, <3>2, <4>1, <4>2 DEF Saving
    <3>3. CASE w.row # None
      BY <1>4, <1>7, <2>4, <2>5, <3>1, <3>3 DEF Saving
    <3> QED
      BY <3>2, <3>3
  <2> QED
    BY <1>0, <1>4, <2>1, <2>6, BuyerStart
<1> QED
  BY <1>6, <1>7

LEMMA BuyerUpdateQuantity ==
  ASSUME Base, NEW b \in Buyers, b \notin disturbed', BuyerInOrder(b),
         NEW r \in Requests, NEW c \in Buyers, NEW i \in Rows, NEW n \in Updates,
         UpdateQuantity(r, c, i, n)
  PROVE  BuyerInOrder(b)'
<1> DEFINE w == [Idle EXCEPT
                   !.phase = "saveItem", !.buyer = c, !.article = cart[i].article,
                   !.row = i, !.quantity = n, !.change = n - cart[i].quantity,
                   !.price = cart[i].price]
<1>0. /\ req \in [Requests -> Request] /\ cart \in [Rows -> CartItem \cup Absent]
      /\ UNCHANGED <<article, cart, order, asked>> /\ disturbed \subseteq disturbed'
      /\ req[r].phase = "idle" /\ i \in InCart(c)
  BY DEF Base, StockSafe, RequestsSound, UpdateQuantity, CartChange
<1>1. req' = [req EXCEPT ![r] = w]
  BY DEF UpdateQuantity
<1>2. /\ w.phase = "saveItem" /\ w.buyer = c /\ w.row = i /\ w.article = cart[i].article
      /\ w.quantity = n /\ w.change = n - cart[i].quantity
  BY DEF Idle
<1> HIDE DEF w
<1>3. ~Busy(r, b)
  BY <1>0 DEF Busy
<1>4. CASE b # c
  BY <1>0, <1>1, <1>2, <1>3, <1>4, BuyerOther
<1>5. CASE b = c
  <2>1. \A q \in Requests : ~Busy(q, b)
    BY <1>5 DEF UpdateQuantity, CartChange, Contended
  <2>2. Present(cart[i].article)'
    BY <1>0, <1>5 DEF BuyerInOrder, CartSound, RowsSound, Present
  <2>3. req'[r] = w /\ InCart(b)' = InCart(b) /\ cart' = cart /\ i # None
    BY <1>0, <1>1, CheckoutAssumption DEF InCart
  <2>4. Saving(r, b)'
    <3>1. Present(req[r].article)'
      BY <1>2, <2>2, <2>3 DEF Present
    <3> QED
      BY <1>0, <1>2, <1>5, <2>3, <3>1 DEF Saving
  <2> QED
    BY <1>0, <1>1, <1>2, <2>1, <2>4, BuyerStart
<1> QED
  BY <1>4, <1>5

LEMMA BuyerBegin ==
  ASSUME Base, NEW b \in Buyers, b \notin disturbed', BuyerInOrder(b),
         NEW r \in Requests, NEW c \in Buyers, NEW method \in PaymentMethod,
         CheckoutBegin(r, c, method)
  PROVE  BuyerInOrder(b)'
<1> DEFINE S    == InCart(c)
           copy == [j \in Rows |-> IF j \in S THEN Seen(j) ELSE None]
           w    == [Idle EXCEPT !.phase = "order", !.buyer = c, !.method = method,
                                !.todo = S, !.copy = copy]
<1>0. /\ req \in [Requests -> Request]
      /\ UNCHANGED <<article, cart, order, asked>> /\ disturbed \subseteq disturbed'
      /\ req[r].phase = "idle"
  BY DEF Base, StockSafe, RequestsSound, CheckoutBegin
<1>1. req' = [req EXCEPT ![r] = w]
  BY DEF CheckoutBegin
<1>2. w.phase = "order" /\ w.buyer = c /\ w.todo = S /\ w.copy = copy
  BY DEF Idle
<1>3. \A j \in S : copy[j].article = cart[j].article /\ copy[j].quantity = cart[j].quantity
  BY DEF InCart, Seen
<1> HIDE DEF w, copy
<1>4. ~Busy(r, b)
  BY <1>0 DEF Busy
<1>5. CASE b # c
  BY <1>0, <1>1, <1>2, <1>4, <1>5, BuyerOther
<1>6. CASE b = c
  <2>1. \A q \in Requests : ~Busy(q, b)
    BY <1>6 DEF CheckoutBegin, Contended
  <2>2. req'[r] = w /\ InCart(b)' = InCart(b) /\ cart' = cart
    BY <1>0, <1>1 DEF InCart
  <2>3. Buying(r, b)'
    BY <1>2, <1>3, <1>6, <2>2 DEF Buying
  <2> QED
    BY <1>0, <1>1, <1>2, <2>1, <2>3, BuyerStart
<1> QED
  BY <1>5, <1>6

LEMMA BusyUnchanged ==
  ASSUME UNCHANGED req, NEW b
  PROVE  SameBusy(b)
BY DEF SameBusy, Busy

(* Rows that are deleted leave their carts.                                 *)
LEMMA CartDeleted ==
  ASSUME cart \in [Rows -> CartItem \cup Absent], NEW S, cart' = Without(S), NEW b
  PROVE  /\ InCart(b)' = InCart(b) \ S /\ \A i \in InCart(b) \ S : cart'[i] = cart[i]
         /\ \A a : InCartOf(b, a)' = UnitsIn(cart, InCart(b) \ S, a)
<1>1. InCart(b)' = InCart(b) \ S /\ \A i \in InCart(b) \ S : cart'[i] = cart[i]
  BY DEF Without, InCart, Absent
<1>2. ASSUME NEW a PROVE InCartOf(b, a)' = UnitsIn(cart, InCart(b) \ S, a)
  <2>1. PICK T : T = InCart(b) \ S
    OBVIOUS
  <2>2. PICK old : old = cart
    OBVIOUS
  <2>3. PICK new : new = cart'
    OBVIOUS
  <2>4. \A i \in T : LineUnits(old[i], a) = LineUnits(new[i], a)
    BY <1>1, <2>1, <2>2, <2>3
  <2>5. UnitsIn(old, T, a) = UnitsIn(new, T, a)
    BY <2>4, UnitsEqual
  <2>6. InCartOf(b, a)' = UnitsIn(new, T, a)
    BY <1>1, <2>1, <2>3 DEF InCartOf
  <2> QED
    BY <2>1, <2>2, <2>5, <2>6
<1> QED
  BY <1>1, <1>2

(* A buyer takes out one row, or all.                                       *)
LEMMA BuyerDelete ==
  ASSUME Base, NEW b \in Buyers, b \notin disturbed', BuyerInOrder(b),
         NEW c \in Buyers, NEW S, DeleteItems(c, S),
         S = InCart(c) \/ \E i \in InCart(c) : S = {i}
  PROVE  BuyerInOrder(b)'
<1>0. /\ cart \in [Rows -> CartItem \cup Absent] /\ cart' = Without(S)
      /\ asked \in [Buyers -> [Articles -> Int]]
      /\ UNCHANGED <<article, order, req>> /\ disturbed \subseteq disturbed'
      /\ asked' = [asked EXCEPT ![c] = [a \in Articles |-> @[a] - UnitsIn(cart, S, a)]]
  BY DEF Base, StockSafe, RestTyped, DeleteItems, CartChange
<1>1. /\ InCart(b)' = InCart(b) \ S /\ \A i \in InCart(b) \ S : cart'[i] = cart[i]
      /\ \A a : InCartOf(b, a)' = UnitsIn(cart, InCart(b) \ S, a)
  BY <1>0, CartDeleted
<1>2. SameOrders(b)
  BY <1>0 DEF SameOrders, OrdersOf
<1>3. \A a \in Articles : Present(a) => Present(a)'
  BY <1>0, PresentStays
<1>4. SameBusy(b)
  BY <1>0, BusyUnchanged
<1>5. CASE b # c
  <2>1. InCart(b) \ S = InCart(b)
    BY <1>5 DEF InCart
  <2>2. SameCart(b) /\ asked'[b] = asked[b]
    BY <1>0, <1>1, <1>5, <2>1 DEF SameCart
  <2> QED
    BY <1>2, <1>3, <1>4, <2>2, BuyerElse
<1>6. CASE b = c
  <2>1. \A q \in Requests : ~Busy(q, b) /\ ~Busy(q, b)'
    BY <1>4, <1>6 DEF DeleteItems, CartChange, Contended, SameBusy
  <2>2. RowsSound(b)'
    <3>1. RowsSound(b)
      BY DEF BuyerInOrder, CartSound
    <3>2. \A i \in InCart(b)' : i \in InCart(b) /\ cart'[i] = cart[i]
      BY <1>1
    <3> QED
      BY <1>0, <3>1, <3>2 DEF RowsSound, Present
  <2>3. ASSUME NEW a \in Articles PROVE (OrderedBy(b, a) = asked[b][a] - Unbought(b, a))'
    <3>1. /\ InCart(b) \in SUBSET Rows /\ \A i \in InCart(b) : cart[i] \notin Absent
          /\ Countable(cart, InCart(b), a) /\ IsFiniteSet(InCart(b))
          /\ InCartOf(b, a) = UnitsIn(cart, InCart(b), a) /\ InCartOf(b, a) \in Int
      BY <1>0, OwnCountable
    <3>2. PICK T : T = InCart(b)
      OBVIOUS
    <3>3. PICK old : old = cart
      OBVIOUS
    <3>4. /\ Countable(old, T, a) /\ IsFiniteSet(T) /\ UnitsIn(old, T, a) \in Int
          /\ InCartOf(b, a) = UnitsIn(old, T, a)
      BY <3>1, <3>2, <3>3
    <3>5. /\ UnitsIn(old, S, a) \in Int
          /\ UnitsIn(old, T \ S, a) = UnitsIn(old, T, a) - UnitsIn(old, S, a)
      <4>1. CASE S = T
        <5>1. T \ S = {} /\ IsFiniteSet({})
          BY <4>1, FS_EmptySet
        <5>2. UnitsIn(old, {}, a) = 0
          BY <5>1, UnitsZero
        <5>3. UnitsIn(old, T, a) - UnitsIn(old, T, a) = 0
          BY <3>4
        <5> QED
          BY <3>4, <4>1, <5>1, <5>2, <5>3
      <4>2. CASE \E i \in T : S = {i}
        <5>1. PICK i \in T : S = {i}
          BY <4>2
        <5>2. LineUnits(old[i], a) \in Int
          BY <3>4 DEF Countable
        <5>3. UnitsIn(old, T \ {i}, a) = UnitsIn(old, T, a) - LineUnits(old[i], a)
          BY <3>4, UnitsLeave
        <5>4. IsFiniteSet({i}) /\ i \in {i} /\ \A j \in {i} \ {i} : LineUnits(old[j], a) = 0
          BY FS_Singleton
        <5>5. UnitsIn(old, {i}, a) = LineUnits(old[i], a)
          BY <5>2, <5>4, UnitsOnly
        <5> QED
          BY <5>1, <5>2, <5>3, <5>5
      <4> QED
        BY <1>6, <3>2, <4>1, <4>2
    <3>6. PICK m : m = asked[b][a]
      OBVIOUS
    <3>7. m \in Int /\ asked'[b][a] = m - UnitsIn(old, S, a)
      BY <1>0, <1>6, <3>3, <3>6
    <3>8. OrderedBy(b, a)' = m - UnitsIn(old, T, a)
      <4>1. OrderedBy(b, a) = m - InCartOf(b, a)
        BY <2>1, <3>6 DEF BuyerInOrder, CartSound, Unbought
      <4> QED
        BY <1>2, <3>4, <4>1, OrdersSame
    <3>9. Unbought(b, a)' = UnitsIn(old, T \ S, a)
      BY <1>1, <2>1, <3>2, <3>3 DEF Unbought
    <3>10. m - UnitsIn(old, T, a)
             = (m - UnitsIn(old, S, a)) - UnitsIn(old, T \ S, a)
      BY <3>4, <3>5, <3>7
    <3> QED
      BY <3>7, <3>8, <3>9, <3>10
  <2>4. CartSound(b)'
    BY <2>2, <2>3 DEF CartSound
  <2>5. \A q \in Requests : Holds(q) => Holds(q)' /\ req'[q].order = req[q].order
    BY <1>0 DEF Holds
  <2>6. (\A o \in OrdersOf(b) : Loose(o) => Settled(o))'
    BY <1>2, <2>5, SettledSame
  <2> QED
    BY <2>1, <2>4, <2>6 DEF BuyerInOrder
<1> QED
  BY <1>5, <1>6

(* A buyer's item is saved: the cart has the units it brings.               *)
LEMMA BuyerSaveItem ==
  ASSUME Base, NEW b \in Buyers, BuyerInOrder(b), NEW r \in Requests, SaveItem(r)
  PROVE  BuyerInOrder(b)'
<1> DEFINE c == req[r].buyer
           d == req[r].article
<1>0. /\ cart \in [Rows -> CartItem \cup Absent] /\ req \in [Requests -> Request]
      /\ asked \in [Buyers -> [Articles -> Int]] /\ RowsKept
      /\ UNCHANGED <<article, order, disturbed>> /\ disturbed \subseteq disturbed'
      /\ req' = [req EXCEPT ![r] = Idle] /\ Finish(r) /\ req[r].phase = "saveItem"
      /\ c \in Buyers /\ d \in Articles
  BY DEF Base, StockSafe, RequestsSound, Sound, RestTyped, Kept, SaveItem, Finish
<1>1. CASE article[d].product = "erased"
  <2>1. UNCHANGED <<cart, asked>>
    BY <1>1 DEF SaveItem
  <2>2. CASE Busy(r, b)
    BY <1>0, <2>1, <2>2, BuyerEnd
  <2>3. CASE ~Busy(r, b)
    BY <1>0, <2>1, <2>3, IdleRegular, BuyerOther
  <2> QED
    BY <2>2, <2>3
<1>2. CASE article[d].product # "erased"
  <2>1. PICK i \in Rows : /\ cart' = [cart EXCEPT ![i] = Item(r)]
                          /\ IF req[r].row = None THEN cart[i] = Unused ELSE i = req[r].row
    BY <1>2 DEF SaveItem
  <2>2. PICK m : m = req[r].change
    OBVIOUS
  <2>3. asked' = [asked EXCEPT ![c][d] = @ + m]
    BY <1>2, <2>2 DEF SaveItem
  <2>4. PICK it : it = Item(r)
    OBVIOUS
  <2>5. /\ it \in CartItem /\ it.article = d /\ it.buyer = c
        /\ it.quantity = req[r].quantity
    BY <1>0, <2>4 DEF Item, CartItem, Request
  <2>6. it \notin Absent /\ it # None
    BY <2>5, AbsentAssumption
  <2>7. cart'[i] = it /\ \A j \in Rows \ {i} : cart'[j] = cart[j]
    BY <1>0, <2>1, <2>4
  <2>8. SameOrders(b)
    BY <1>0 DEF SameOrders, OrdersOf
  <2>9. CASE b # c
    <3>1. cart[i] \in Absent \/ cart[i].buyer = c
      BY <1>0, <2>1 DEF RowsKept, Absent
    <3>2. SameCart(b)
      BY <2>5, <2>6, <2>7, <2>9, <3>1 DEF SameCart, InCart
    <3>3. SameBusy(b)
      BY <1>0, <2>9, IdleRegular, OthersBusy DEF Busy
    <3>4. asked'[b] = asked[b] /\ \A a \in Articles : Present(a) => Present(a)'
      BY <1>0, <2>3, <2>9, PresentStays
    <3> QED
      BY <2>8, <3>2, <3>3, <3>4, BuyerElse
  <2>10. CASE b = c
    <3>1. Busy(r, b) /\ \A q \in Requests : Busy(q, b) => q = r
      BY <1>0, <2>10 DEF Busy, BuyerInOrder
    <3>2. Saving(r, b) /\ RowsSound(b)
      BY <1>0, <3>1 DEF BuyerInOrder, CartSound
    <3>3. \A q \in Requests : ~Busy(q, b)'
      BY <1>0, <3>1, IdleRegular DEF Busy
    <3>4. Present(d)
      BY <3>2 DEF Saving
    <3>5. PICK T : T = InCart(b)
      OBVIOUS
    <3>6. PICK old : old = cart
      OBVIOUS
    <3>7. PICK new : new = cart'
      OBVIOUS
    <3>8. new[i] = it /\ \A j \in Rows \ {i} : new[j] = old[j]
      BY <2>7, <3>6, <3>7
    <3>9. /\ T \in SUBSET Rows /\ IsFiniteSet(T)
          /\ \A a : /\ Countable(old, T, a) /\ UnitsIn(old, T, a) \in Int
                    /\ InCartOf(b, a) = UnitsIn(old, T, a)
      BY <1>0, <3>5, <3>6, OwnCountable
    <3>10. CASE req[r].row = None
      <4>1. i \notin T /\ InCart(b)' = T \cup {i}
        <5>1. cart[i] = Unused
          BY <2>1, <3>10
        <5> QED
          BY <2>5, <2>6, <2>7, <2>10, <3>5, <5>1 DEF InCart, Absent
      <4>2. (\A j \in T : old[j].article # d) /\ m = it.quantity
        BY <2>2, <2>5, <3>2, <3>5, <3>6, <3>10 DEF Saving
      <4>3. RowsSound(b)'
        <5>1. \A j, k \in T : old[j].article = old[k].article => j = k
          BY <3>2, <3>5, <3>6 DEF RowsSound
        <5>2. \A j, k \in T \cup {i} : new[j].article = new[k].article => j = k
          BY <2>5, <3>8, <3>9, <4>1, <4>2, <5>1
        <5>3. \A j \in T : Present(old[j].article)
          BY <3>2, <3>5, <3>6 DEF RowsSound
        <5>4. \A j \in T \cup {i} : Present(new[j].article)
          BY <2>5, <3>4, <3>8, <3>9, <4>1, <5>3
        <5>5. \A j \in T \cup {i} : new[j].article \in disturbed'
                                      \/ article'[new[j].article].product = "listed"
          BY <1>0, <5>4 DEF Present
        <5> QED
          BY <3>7, <4>1, <5>2, <5>5 DEF RowsSound, Present
      <4>4. ASSUME NEW a \in Articles
            PROVE  (OrderedBy(b, a) = asked[b][a] - Unbought(b, a))'
        <5>1. \A j \in T : LineUnits(old[j], a) = LineUnits(new[j], a)
          BY <3>8, <3>9, <4>1
        <5>2. UnitsIn(old, T, a) = UnitsIn(new, T, a)
          BY <5>1, UnitsEqual
        <5>3. LineUnits(new[i], a) \in Int /\ LineUnits(new[i], a) = IF a = d THEN m ELSE 0
          BY <2>5, <2>6, <3>8, <4>2 DEF LineUnits, CartItem
        <5>4. Countable(new, T \cup {i}, a)
          BY <3>9, <5>1, <5>3 DEF Countable
        <5>5. UnitsIn(new, T \cup {i}, a) = UnitsIn(new, T, a) + LineUnits(new[i], a)
          BY <3>9, <4>1, <5>4, UnitsJoin
        <5>6. PICK k : k = asked[b][a]
          OBVIOUS
        <5>7. k \in Int /\ asked'[b][a] = k + LineUnits(new[i], a)
          BY <1>0, <2>3, <2>10, <5>3, <5>6
        <5>8. OrderedBy(b, a) = k - UnitsIn(old, T, a)
          <6>1. Unbought(b, a) = InCartOf(b, a)
            BY <1>0, <3>1 DEF Unbought, Bought
          <6> QED
            BY <3>9, <5>6, <6>1 DEF BuyerInOrder, CartSound
        <5>9. Unbought(b, a)' = UnitsIn(new, T \cup {i}, a)
          BY <3>3, <3>7, <4>1 DEF Unbought, InCartOf
        <5>10. k - UnitsIn(old, T, a)
                 = (k + LineUnits(new[i], a)) - UnitsIn(new, T \cup {i}, a)
          <6>1. UnitsIn(old, T, a) \in Int
            BY <3>9
          <6> QED
            BY <5>2, <5>3, <5>5, <5>7, <6>1
        <5> QED
          BY <2>8, <5>7, <5>8, <5>9, <5>10, OrdersSame
      <4>5. CartSound(b)'
        BY <4>3, <4>4 DEF CartSound
      <4> QED
        BY <1>0, <2>8, <3>3, <4>5, SettledSame, IdleRegular DEF BuyerInOrder, Holds, Holding
    <3>11. CASE req[r].row # None
      <4>1. i = req[r].row /\ i \in T /\ InCart(b)' = T
        <5>1. i = req[r].row /\ i \in InCart(b)
          BY <2>1, <3>2, <3>11 DEF Saving
        <5> QED
          BY <2>5, <2>6, <2>7, <2>10, <3>5, <5>1 DEF InCart
      <4>2. old[i].article = d /\ m = it.quantity - old[i].quantity
        BY <2>2, <2>5, <3>2, <3>6, <3>11, <4>1 DEF Saving
      <4>3. RowsSound(b)'
        <5>1. \A j \in T : new[j].article = old[j].article
          BY <2>5, <3>8, <3>9, <4>2
        <5> QED
          BY <1>0, <3>2, <3>5, <3>6, <3>7, <4>1, <5>1 DEF RowsSound, Present
      <4>4. ASSUME NEW a \in Articles
            PROVE  (OrderedBy(b, a) = asked[b][a] - Unbought(b, a))'
        <5>1. old[i] # None /\ old[i].quantity \in Int /\ it.quantity \in Int
          BY <1>0, <2>5, <3>5, <3>6, <4>1, AbsentAssumption DEF InCart, CartItem
        <5>2. LineUnits(old[i], a) = IF a = d THEN old[i].quantity ELSE 0
          BY <4>2, <5>1 DEF LineUnits
        <5>3. LineUnits(new[i], a) = IF a = d THEN it.quantity ELSE 0
          BY <2>5, <2>6, <3>8 DEF LineUnits
        <5>4. LineUnits(new[i], a) \in Int /\ LineUnits(old[i], a) \in Int
          BY <5>1, <5>2, <5>3
        <5>5. \A j \in T \ {i} : new[j] = old[j]
          BY <3>8, <3>9
        <5>6. UnitsIn(new, T, a)
                = UnitsIn(old, T, a) - LineUnits(old[i], a) + LineUnits(new[i], a)
          BY <3>9, <4>1, <5>4, <5>5, UnitsChange
        <5>7. PICK k : k = asked[b][a]
          OBVIOUS
        <5>8. k \in Int /\ asked'[b][a] = IF a = d THEN k + m ELSE k
          BY <1>0, <2>3, <2>10, <5>7
        <5>9. asked'[b][a] = k + (LineUnits(new[i], a) - LineUnits(old[i], a))
          BY <4>2, <5>1, <5>2, <5>3, <5>8
        <5>10. OrderedBy(b, a) = k - UnitsIn(old, T, a)
          <6>1. Unbought(b, a) = InCartOf(b, a)
            BY <1>0, <3>1 DEF Unbought, Bought
          <6> QED
            BY <3>9, <5>7, <6>1 DEF BuyerInOrder, CartSound
        <5>11. Unbought(b, a)' = UnitsIn(new, T, a)
          BY <3>3, <3>7, <4>1 DEF Unbought, InCartOf
        <5>12. k - UnitsIn(old, T, a)
                 = (k + (LineUnits(new[i], a) - LineUnits(old[i], a))) - UnitsIn(new, T, a)
          <6>1. UnitsIn(old, T, a) \in Int
            BY <3>9
          <6> QED
            BY <5>4, <5>6, <5>8, <6>1
        <5> QED
          BY <2>8, <5>9, <5>10, <5>11, <5>12, OrdersSame
      <4>5. CartSound(b)'
        BY <4>3, <4>4 DEF CartSound
      <4> QED
        BY <1>0, <2>8, <3>3, <4>5, SettledSame, IdleRegular DEF BuyerInOrder, Holds, Holding
    <3> QED
      BY <3>10, <3>11
  <2> QED
    BY <2>9, <2>10
<1> QED
  BY <1>1, <1>2

(* The order of a checkout has no item yet.                                 *)
LEMMA BuyerSaveOrder ==
  ASSUME Base, NEW b \in Buyers, BuyerInOrder(b), NEW r \in Requests, NEW o \in Orders,
         SaveOrder(r, o)
  PROVE  BuyerInOrder(b)'
<1> DEFINE c == req[r].buyer
           w == [req[r] EXCEPT !.phase = "items", !.order = o]
<1>0. /\ req \in [Requests -> Request] /\ order \in [Orders -> Order]
      /\ UNCHANGED <<article, cart, asked, disturbed>> /\ disturbed \subseteq disturbed'
      /\ req[r].phase = "order" /\ req[r] \in Request /\ ~Exists(o)
      /\ OrdersKept /\ TodoKept /\ c \in Buyers /\ None \notin Buyers
  BY CheckoutAssumption DEF Base, StockSafe, RequestsSound, RestTyped, Kept, SaveOrder,
     history, TodoKept, Regular
<1>1. req' = [req EXCEPT ![r] = w]
  BY <1>0 DEF SaveOrder
<1>2. /\ w.phase = "items" /\ w.order = o /\ w.buyer = c /\ w.method = req[r].method
      /\ w.todo = req[r].todo /\ w.copy = req[r].copy
  BY <1>0 DEF Request
<1>3. /\ order'[o].buyer = c /\ order'[o].items = NoItems /\ order'[o].paid = FALSE
      /\ order'[o].method = req[r].method
      /\ order'[o].total = SumOf(req[r].copy, req[r].todo)
      /\ \A x \in Orders \ {o} : order'[x] = order[x]
  BY <1>0 DEF SaveOrder, NoOrder
<1> HIDE DEF w
<1>4. \A x \in OrdersOf(b) : x # o
  BY <1>0 DEF OrdersOf, Exists
<1>5. SameCart(b)
  BY <1>0 DEF SameCart, InCart
<1>6. \A a : Present(a) => Present(a)'
  BY <1>0, PresentStays
<1>7. CASE b # c
  <2>1. SameOrders(b)
    BY <1>3, <1>4, <1>7 DEF SameOrders, OrdersOf
  <2>2. SameBusy(b)
    BY <1>0, <1>1, <1>2, <1>7, OthersBusy DEF Busy
  <2>3. asked'[b] = asked[b] /\ \A a \in Articles : Present(a) => Present(a)'
    BY <1>0, <1>6
  <2> QED
    BY <1>5, <2>1, <2>2, <2>3, BuyerElse
<1>8. CASE b = c
  <2>1. Busy(r, b) /\ \A q \in Requests : Busy(q, b) => q = r
    BY <1>0, <1>8 DEF Busy, BuyerInOrder
  <2>2. \A q \in Requests : Busy(q, b)' => q = r
    BY <1>0, <1>1, <2>1 DEF Busy
  <2>3. OrdersOf(b)' = OrdersOf(b) \cup {o}
    BY <1>3, <1>8 DEF OrdersOf
  <2>4. RowsSound(b)'
    BY <1>0, <1>5, <1>6, RowsSame DEF BuyerInOrder, CartSound, RowsSound, Present
  <2>5. ASSUME NEW a \in Articles PROVE (OrderedBy(b, a) = asked[b][a] - Unbought(b, a))'
    <3>1. OrderedBy(b, a)' = OrderedBy(b, a)
      <4>1. PICK S : S = OrdersOf(b)
        OBVIOUS
      <4>2. PICK ord : ord = order
        OBVIOUS
      <4>3. PICK more : more = order'
        OBVIOUS
      <4>4. S \in SUBSET Orders /\ o \notin S /\ ord \in [Orders -> Order]
        BY <1>0, <1>4, <4>1, <4>2 DEF OrdersOf
      <4>5. IsFiniteSet(S) /\ Summable(ord, S, a)
        BY <4>4, OrdersCountable
      <4>6. UnitsIn(more[o].items, Rows, a) = 0
        BY <1>3, <4>3, NoUnits
      <4>7. \A x \in S : more[x].items = ord[x].items
        BY <1>3, <4>2, <4>3, <4>4
      <4>8. Sales(more, S \cup {o}, a) = Sales(ord, S, a)
        BY <4>4, <4>5, <4>6, <4>7, SalesJoin
      <4>9. OrderedBy(b, a) = Sales(ord, S, a) /\ OrderedBy(b, a)' = Sales(more, S \cup {o}, a)
        BY <2>3, <4>1, <4>2, <4>3, SalesOf
      <4> QED
        BY <4>8, <4>9
    <3>2. Unbought(b, a) = InCartOf(b, a)
      BY <1>0, <2>1 DEF Unbought, Bought
    <3>3. Unbought(b, a)' = InCartOf(b, a)'
      BY <1>0, <1>1, <1>2, <2>2 DEF Unbought, Bought
    <3>4. OrderedBy(b, a) = asked[b][a] - Unbought(b, a)
      BY DEF BuyerInOrder, CartSound
    <3> QED
      BY <1>0, <1>5, <3>1, <3>2, <3>3, <3>4, InCartSame
  <2>6. CartSound(b)'
    BY <2>4, <2>5 DEF CartSound
  <2>7. req'[r] = w /\ \A q \in Requests \ {r} : req'[q] = req[q]
    BY <1>0, <1>1
  <2>8. Buying(r, b)'
    <3>1. Buying(r, b)
      BY <1>0, <2>1 DEF BuyerInOrder
    <3> QED
      BY <1>2, <1>5, <2>7, <3>1 DEF Buying, SameCart
  <2>9. OrderSound(r, req[r].order)'
    BY <1>2, <1>3, <2>7 DEF OrderSound
  <2>10. ASSUME NEW q \in Requests, Busy(q, b)'
         PROVE  (/\ req[q].phase = "saveItem" => Saving(q, b)
                 /\ req[q].phase \in {"order", "items"} => Buying(q, b)
                 /\ Holds(q) => OrderSound(q, req[q].order))'
    <3>1. q = r /\ req'[q].phase = "items"
      BY <1>2, <2>2, <2>7, <2>10
    <3> QED
      BY <2>8, <2>9, <3>1
  <2>11. ASSUME NEW x \in OrdersOf(b)', Loose(x)' PROVE Settled(x)'
    <3>1. x # o
      BY <1>2, <2>7, <2>11 DEF Loose, Holds, Holding
    <3>2. x \in OrdersOf(b) /\ order'[x] = order[x]
      BY <1>3, <2>3, <2>11, <3>1 DEF OrdersOf
    <3>3. Loose(x)
      BY <1>0, <2>7, <2>11 DEF Loose, Holds, Holding
    <3>4. Settled(x)
      BY <3>2, <3>3 DEF BuyerInOrder
    <3> QED
      BY <3>2, <3>4 DEF Settled, Whole
  <2> QED
    BY <2>2, <2>6, <2>10, <2>11 DEF BuyerInOrder
<1> QED
  BY <1>7, <1>8

(* The total of an order is that of its items.                              *)
LEMMA TotalOfItems ==
  ASSUME NEW copy \in [Rows -> Snapshot \cup {None}], NEW items,
         items = [i \in Rows |-> Line(copy[i])], NEW S,
         S = {i \in Rows : copy[i] # None}
  PROVE  SumOf(copy, S) = SumOf(items, Rows)
<1> DEFINE F == [i \in S |-> IF copy[i] = None THEN 0 ELSE Subtotal(copy[i])]
           G == [i \in Rows |-> IF items[i] = None THEN 0 ELSE Subtotal(items[i])]
<1>1. ASSUME NEW i \in S PROVE F[i] = G[i] /\ G[i] \in Int
  <2>1. copy[i] \in Snapshot
    OBVIOUS
  <2>2. /\ copy[i] # None /\ items[i] # None
        /\ items[i].price = copy[i].price /\ items[i].quantity = copy[i].quantity
    BY <2>1, LineType
  <2>3. copy[i].price \in Nat /\ copy[i].quantity \in Nat
    BY <2>1 DEF Snapshot
  <2>4. copy[i].price * copy[i].quantity \in Int
    BY <2>3
  <2> QED
    BY <2>2, <2>4 DEF Subtotal
<1>2. \A i \in Rows \ S : G[i] = 0
  BY DEF Line
<1>3. IsFiniteSet(Rows) /\ S \in SUBSET Rows /\ IsFiniteSet(S)
  BY CheckoutAssumption, FS_Subset
<1> HIDE DEF F, G
<1>4. \A i \in Rows : G[i] \in Int
  BY <1>1, <1>2
<1>5. SumFunctionOnSet(G, Rows) = SumFunctionOnSet(G, S)
  BY <1>2, <1>3, <1>4, SumSubset
<1>6. SumFunctionOnSet(F, S) = SumFunctionOnSet(G, S)
  BY <1>1, <1>3, SumEqual
<1> QED
  BY <1>5, <1>6 DEF SumOf, F, G

(* The items saved are what is in the cart.                                 *)
LEMMA BuyerSaveItems ==
  ASSUME Base, NEW b \in Buyers, BuyerInOrder(b), NEW r \in Requests, SaveItems(r)
  PROVE  BuyerInOrder(b)'
<1> DEFINE c == req[r].buyer
           w == [req[r] EXCEPT !.phase = "stock"]
<1>0. /\ req \in [Requests -> Request] /\ order \in [Orders -> Order]
      /\ cart \in [Rows -> CartItem \cup Absent]
      /\ UNCHANGED <<article, cart, asked, disturbed>> /\ disturbed \subseteq disturbed'
      /\ req[r].phase = "items" /\ req[r] \in Request /\ Holds(r)
      /\ OrdersKept /\ TodoKept /\ NoneErased /\ c \in Buyers
  BY DEF Base, StockSafe, RequestsSound, RestTyped, Kept, SaveItems, history, TodoKept,
     Regular, Holds, Holding
<1>1. PICK o : o = req[r].order
  OBVIOUS
<1>2. o \in Orders /\ order[o].buyer = c /\ order[o].items = NoItems
  BY <1>0, <1>1 DEF OrdersKept
<1>3. \A a : Present(a) => Present(a)'
  BY <1>0, PresentStays
<1>4. SameCart(b)
  BY <1>0 DEF SameCart, InCart
<1>5. CASE b # c
  <2>1. o \notin OrdersOf(b)
    BY <1>2, <1>5 DEF OrdersOf
  <2>2. SameOrders(b)
    <3>1. \A x \in Orders : order'[x].buyer = order[x].buyer /\ (x # o => order'[x] = order[x])
      BY <1>0, <1>1 DEF SaveItems, Order
    <3> QED
      BY <2>1, <3>1 DEF SameOrders, OrdersOf
  <2>3. \E v : req' = [req EXCEPT ![r] = v] /\ (v.phase = "idle" \/ v.buyer # b)
    <3>1. CASE Finish(r)
      BY <3>1, IdleRegular DEF Finish
    <3>2. CASE req' = [req EXCEPT ![r].phase = "stock"]
      <4>1. req' = [req EXCEPT ![r] = w] /\ w.buyer = c
        BY <1>0, <3>2 DEF Request
      <4> QED
        BY <1>5, <4>1
    <3> QED
      BY <3>1, <3>2 DEF SaveItems
  <2>4. SameBusy(b)
    BY <1>0, <1>5, <2>3, OthersBusy DEF Busy
  <2>5. asked'[b] = asked[b] /\ \A a \in Articles : Present(a) => Present(a)'
    BY <1>0, <1>3
  <2> QED
    BY <1>4, <2>2, <2>4, <2>5, BuyerElse
<1>6. CASE b = c
  <2>1. Busy(r, b) /\ \A q \in Requests : Busy(q, b) => q = r
    BY <1>0, <1>6 DEF Busy, BuyerInOrder
  <2>2. Buying(r, b) /\ OrderSound(r, o)
    BY <1>0, <1>1, <2>1 DEF BuyerInOrder
  <2>3. PICK T : T = InCart(b)
    OBVIOUS
  <2>4. PICK copy : copy = req[r].copy
    OBVIOUS
  <2>5. PICK items : items = [i \in Rows |-> Line(copy[i])]
    OBVIOUS
  <2>6. PICK now : now = cart
    OBVIOUS
  <2>7. /\ req[r].todo = T /\ T = {i \in Rows : copy[i] # None} /\ T # {}
        /\ \A i \in T : copy[i].article = now[i].article /\ copy[i].quantity = now[i].quantity
    BY <1>0, <2>2, <2>3, <2>4, <2>6 DEF Buying, TodoKept, Regular
  <2>8. /\ copy \in [Rows -> Snapshot \cup {None}] /\ now \in [Rows -> CartItem \cup Absent]
        /\ \A i \in T : now[i] \in CartItem
    BY <1>0, <2>3, <2>4, <2>6 DEF Request, InCart
  <2>9. \A i \in req[r].todo : article[req[r].copy[i].article].product # "erased"
    BY <1>0, <2>3, <2>4, <2>6, <2>7 DEF NoneErased, InCart
  <2>10. /\ order' = [order EXCEPT ![o].items = items]
         /\ req' = [req EXCEPT ![r] = w]
    BY <1>0, <1>1, <2>4, <2>5, <2>9 DEF SaveItems
  <2>11. /\ w.phase = "stock" /\ w.order = o /\ w.buyer = c /\ w.method = req[r].method
    BY <1>0, <1>1 DEF Request
  <2> HIDE DEF w
  <2>12. req'[r] = w /\ \A q \in Requests \ {r} : req'[q] = req[q]
    BY <1>0, <2>10
  <2>13. \A q \in Requests : Busy(q, b)' <=> q = r
    BY <1>6, <2>1, <2>11, <2>12 DEF Busy
  <2>14. /\ OrdersOf(b)' = OrdersOf(b) /\ o \in OrdersOf(b)
         /\ \A x \in Orders \ {o} : order'[x] = order[x]
         /\ order'[o] = [order[o] EXCEPT !.items = items] /\ order[o] \in Order
    BY <1>0, <1>2, <1>6, <2>10 DEF OrdersOf, Order
  <2>15. /\ order'[o].items = items /\ order'[o].total = order[o].total
         /\ order'[o].paid = order[o].paid /\ order'[o].method = order[o].method
    BY <2>14 DEF Order
  <2>16. RowsSound(b)'
    BY <1>0, <1>3, <1>4, RowsSame DEF BuyerInOrder, CartSound, RowsSound, Present
  <2>17. ASSUME NEW a \in Articles PROVE (OrderedBy(b, a) = asked[b][a] - Unbought(b, a))'
    <3>1. /\ \A i \in Rows : LineUnits(copy[i], a) \in Nat
          /\ UnitsIn(items, Rows, a) = UnitsIn(copy, Rows, a)
          /\ UnitsIn(items, Rows, a) \in Int /\ items \in [Rows -> OrderItem \cup {None}]
      BY <2>5, <2>8, ItemsUnits
    <3>2. T \in SUBSET Rows /\ Countable(copy, T, a)
          /\ \A i \in Rows \ T : LineUnits(copy[i], a) = 0
      BY <2>7, <3>1 DEF Countable, LineUnits
    <3>3. UnitsIn(copy, Rows, a) = UnitsIn(copy, T, a)
      BY <3>2, CheckoutAssumption, UnitsSubset
    <3>4. \A i \in T : LineUnits(copy[i], a) = LineUnits(now[i], a)
      BY <2>7, <2>8, AbsentAssumption DEF LineUnits
    <3>5. UnitsIn(copy, T, a) = UnitsIn(now, T, a)
      BY <3>4, UnitsEqual
    <3>6. InCartOf(b, a) = UnitsIn(items, Rows, a)
      BY <2>3, <2>6, <3>1, <3>3, <3>5 DEF InCartOf
    <3>7. Sales(order', OrdersOf(b), a) = Sales(order, OrdersOf(b), a) + UnitsIn(items, Rows, a)
      <4>1. PICK S : S = OrdersOf(b)
        OBVIOUS
      <4>2. S \in SUBSET Orders /\ o \in S
        BY <2>14, <4>1 DEF OrdersOf
      <4>3. Sales(order', S, a) = Sales(order, S, a) + UnitsIn(items, Rows, a)
        BY <1>0, <1>2, <2>10, <3>1, <4>2, OrderedFilled
      <4> QED
        BY <4>1, <4>3
    <3>8. OrderedBy(b, a)' = OrderedBy(b, a) + UnitsIn(items, Rows, a)
      BY <2>14, <3>7, SalesOf
    <3>9. OrderedBy(b, a) = asked[b][a] - InCartOf(b, a)
      <4>1. Unbought(b, a) = InCartOf(b, a)
        BY <1>0, <2>1 DEF Unbought, Bought
      <4> QED
        BY <4>1 DEF BuyerInOrder, CartSound
    <3>10. Unbought(b, a)' = 0
      BY <2>11, <2>12, <2>13 DEF Unbought, Bought
    <3>11. asked[b][a] \in Int /\ asked'[b][a] = asked[b][a]
      BY <1>0 DEF Base, RestTyped
    <3>12. asked[b][a] - UnitsIn(items, Rows, a) + UnitsIn(items, Rows, a) = asked[b][a] - 0
      BY <3>1, <3>11
    <3> QED
      BY <3>6, <3>8, <3>9, <3>10, <3>11, <3>12
  <2>18. CartSound(b)'
    BY <2>16, <2>17 DEF CartSound
  <2>19. Whole(o)'
    <3>1. PICK i \in T : TRUE
      BY <2>7
    <3>2. i \in Rows /\ copy[i] \in Snapshot
      BY <2>7, <2>8
    <3>3. items[i] # None
      BY <2>5, <3>2, LineType
    <3>4. items # NoItems
      BY <3>2, <3>3 DEF NoItems
    <3>5. SumOf(copy, T) = SumOf(items, Rows)
      BY <2>5, <2>7, <2>8, TotalOfItems
    <3>6. order[o].total = SumOf(copy, T)
      BY <1>0, <2>2, <2>4, <2>7 DEF OrderSound
    <3> QED
      BY <2>15, <3>4, <3>5, <3>6 DEF Whole
  <2>20. OrderSound(r, o)'
    BY <2>2, <2>11, <2>12, <2>15, <2>19 DEF OrderSound
  <2>21. ASSUME NEW q \in Requests, Busy(q, b)'
         PROVE  (/\ req[q].phase = "saveItem" => Saving(q, b)
                 /\ req[q].phase \in {"order", "items"} => Buying(q, b)
                 /\ Holds(q) => OrderSound(q, req[q].order))'
    <3>1. q = r /\ req'[q].phase = "stock" /\ req'[q].order = o
      BY <2>11, <2>12, <2>13, <2>21
    <3> QED
      BY <2>20, <3>1 DEF OrderSound
  <2>22. ASSUME NEW x \in OrdersOf(b)', Loose(x)' PROVE Settled(x)'
    <3>1. x # o
      BY <2>11, <2>12, <2>22 DEF Loose, Holds, Holding
    <3>2. x \in OrdersOf(b) /\ order'[x] = order[x]
      BY <2>14, <2>22, <3>1 DEF OrdersOf
    <3>3. Loose(x)
      BY <1>1, <2>12, <2>22, <3>1 DEF Loose, Holds
    <3>4. Settled(x)
      BY <3>2, <3>3 DEF BuyerInOrder
    <3> QED
      BY <3>2, <3>4 DEF Settled, Whole
  <2> QED
    BY <2>13, <2>18, <2>21, <2>22 DEF BuyerInOrder
<1> QED
  BY <1>5, <1>6

(* A stock that is taken does not bring back or remove an article on which  *)
(* no checkout overlapped.                                                  *)
LEMMA TakeKeepsPresent ==
  ASSUME Base, ArticlesInOrder, NEW r \in Requests, NEW i \in Rows, TakeStock(r, i),
         NEW x \in Articles, Present(x)
  PROVE  Present(x)'
<1> DEFINE s == req[r].copy[i]
           a == s.article
<1>0. /\ article \in [Articles -> Article] /\ RequestsSound /\ UNCHANGED disturbed
      /\ i \in req[r].todo
  BY DEF Base, StockSafe, TakeStock, history
<1>1. s \in Snapshot /\ a \in Articles
  BY <1>0, TakingType
<1>2. article' = [article EXCEPT ![a] =
        [stock |-> Remaining(s), price |-> s.seen.price, active |-> s.seen.active,
         product |-> IF a \in Variants THEN article[a].product ELSE s.seen.product]]
  BY DEF TakeStock
<1>3. CASE x # a \/ x \in disturbed
  BY <1>0, <1>2, <1>3 DEF Present
<1>4. CASE x = a /\ x \notin disturbed
  <2>1. ArticleInOrder(x) /\ Takes(r, i, x)
    BY <1>0, <1>4 DEF ArticlesInOrder, Takes
  <2>2. s.seen = article[x]
    BY <2>1 DEF ArticleInOrder
  <2>3. article'[x].product = article[x].product
    BY <1>0, <1>1, <1>2, <1>4, <2>2
  <2> QED
    BY <1>0, <1>4, <2>3 DEF Present
<1> QED
  BY <1>3, <1>4

LEMMA BuyerTakeStock ==
  ASSUME Base, ArticlesInOrder, NEW b \in Buyers, BuyerInOrder(b), NEW r \in Requests,
         NEW i \in Rows, TakeStock(r, i)
  PROVE  BuyerInOrder(b)'
<1> DEFINE c == req[r].buyer
           rest == req[r].todo \ {i}
           p == IF rest = {} THEN "clear" ELSE "stock"
           w == [req[r] EXCEPT !.todo = rest, !.phase = p]
<1>0. /\ req \in [Requests -> Request] /\ cart \in [Rows -> CartItem \cup Absent]
      /\ UNCHANGED <<order, cart, asked, disturbed>>
      /\ req[r].phase = "stock" /\ req[r] \in Request /\ Holds(r) /\ OrdersKept
  BY DEF Base, StockSafe, RequestsSound, Kept, TakeStock, history, Holds, Holding
<1>1. req' = [req EXCEPT ![r] = w]
  BY <1>0 DEF TakeStock
<1>2. w.phase = p /\ w.order = req[r].order /\ w.buyer = c /\ w.method = req[r].method
  BY <1>0 DEF Request
<1>3. p \in {"stock", "clear"}
  OBVIOUS
<1> HIDE DEF w, p, rest
<1>4. \A a \in Articles : Present(a) => Present(a)'
  BY TakeKeepsPresent
<1>5. SameCart(b) /\ SameOrders(b)
  BY <1>0, SameTables
<1>6. CASE b # c
  <2>1. SameBusy(b)
    BY <1>0, <1>1, <1>2, <1>6, OthersBusy DEF Busy
  <2> QED
    BY <1>0, <1>4, <1>5, <2>1, BuyerElse
<1>7. CASE b = c
  <2>1. Busy(r, b) /\ \A q \in Requests : Busy(q, b) => q = r
    BY <1>0, <1>7 DEF Busy, BuyerInOrder
  <2>2. req'[r] = w /\ \A q \in Requests \ {r} : req'[q] = req[q]
    BY <1>0, <1>1
  <2>3. \A q \in Requests : Busy(q, b)' <=> q = r
    BY <1>2, <1>3, <1>7, <2>1, <2>2 DEF Busy
  <2>4. OrderSound(r, req[r].order) /\ RowsSound(b)
    BY <1>0, <2>1 DEF BuyerInOrder, CartSound
  <2>5. RowsSound(b)'
    <3>1. \A j \in InCart(b) : Present(cart[j].article)'
      <4> SUFFICES ASSUME NEW j \in InCart(b) PROVE Present(cart[j].article)'
        OBVIOUS
      <4>1. PICK a : a = cart[j].article
        OBVIOUS
      <4>2. a \in Articles /\ Present(a)
        BY <1>0, <2>4, <4>1, InCartType DEF RowsSound
      <4> QED
        BY <1>0, <1>4, <4>1, <4>2 DEF Present
    <3> QED
      BY <1>5, <2>4, <3>1, RowsSame
  <2>6. ASSUME NEW a \in Articles PROVE (OrderedBy(b, a) = asked[b][a] - Unbought(b, a))'
    <3>1. Unbought(b, a) = 0
      BY <1>0, <2>1 DEF Unbought, Bought
    <3>2. Unbought(b, a)' = 0
      BY <1>2, <1>3, <2>2, <2>3 DEF Unbought, Bought
    <3>3. OrderedBy(b, a) = asked[b][a] - Unbought(b, a)
      BY DEF BuyerInOrder, CartSound
    <3> QED
      BY <1>0, <1>5, <3>1, <3>2, <3>3, OrdersSame
  <2>7. CartSound(b)'
    BY <2>5, <2>6 DEF CartSound
  <2>8. OrderSound(r, req[r].order)'
    BY <1>0, <1>2, <1>3, <2>2, <2>4 DEF OrderSound, Whole
  <2>9. ASSUME NEW q \in Requests, Busy(q, b)'
        PROVE  (/\ req[q].phase = "saveItem" => Saving(q, b)
                /\ req[q].phase \in {"order", "items"} => Buying(q, b)
                /\ Holds(q) => OrderSound(q, req[q].order))'
    <3>1. q = r /\ req'[q].phase \in {"stock", "clear"}
      BY <1>2, <1>3, <2>2, <2>3, <2>9
    <3> QED
      BY <2>8, <3>1
  <2>10. \A q \in Requests : Holds(q) => Holds(q)' /\ req'[q].order = req[q].order
    BY <1>2, <1>3, <2>2 DEF Holds, Holding
  <2>11. (\A o \in OrdersOf(b) : Loose(o) => Settled(o))'
    BY <1>5, <2>10, SettledSame
  <2> QED
    BY <2>3, <2>7, <2>9, <2>11 DEF BuyerInOrder
<1> QED
  BY <1>6, <1>7

(* The cart is emptied once everything in it is in the order.               *)
LEMMA BuyerClearBought ==
  ASSUME Base, NEW b \in Buyers, BuyerInOrder(b), NEW r \in Requests, ClearBought(r)
  PROVE  BuyerInOrder(b)'
<1> DEFINE c == req[r].buyer
<1>0. /\ req \in [Requests -> Request] /\ cart \in [Rows -> CartItem \cup Absent]
      /\ order \in [Orders -> Order]
      /\ UNCHANGED <<article, order, asked, disturbed>> /\ disturbed \subseteq disturbed'
      /\ cart' = Without(InCart(c)) /\ OrdersKept /\ Kept
      /\ req[r].phase = "clear" /\ req[r] \in Request /\ Holds(r)
  BY DEF Base, StockSafe, RequestsSound, RestTyped, Kept, ClearBought, Cleared, history,
     Holds, Holding
<1>1. PICK w : /\ req' = [req EXCEPT ![r] = w]
               /\ \/ w.phase = "idle" /\ req[r].method # "TRANSFER"
                  \/ /\ w.phase = "payment" /\ w.order = req[r].order /\ w.buyer = c
                     /\ w.method = req[r].method /\ w.method = "TRANSFER"
  <2>1. CASE Prepaid(req[r].method)
    <3> DEFINE w == [req[r] EXCEPT !.phase = "payment"]
    <3>1. req' = [req EXCEPT ![r] = w]
      BY <1>0, <2>1 DEF ClearBought
    <3>2. /\ w.phase = "payment" /\ w.order = req[r].order /\ w.buyer = c
          /\ w.method = req[r].method
      BY <1>0 DEF Request
    <3> HIDE DEF w
    <3> QED
      BY <2>1, <3>1, <3>2 DEF Prepaid
  <2>2. CASE ~Prepaid(req[r].method)
    BY <2>2, IdleRegular DEF ClearBought, Finish, Prepaid
  <2> QED
    BY <2>1, <2>2
<1>2. req'[r] = w /\ \A q \in Requests \ {r} : req'[q] = req[q]
  BY <1>0, <1>1
<1>3. /\ InCart(b)' = InCart(b) \ InCart(c)
      /\ \A i \in InCart(b) \ InCart(c) : cart'[i] = cart[i]
      /\ \A a : InCartOf(b, a)' = UnitsIn(cart, InCart(b) \ InCart(c), a)
  BY <1>0, CartDeleted
<1>4. SameOrders(b)
  BY <1>0 DEF SameOrders, OrdersOf
<1>5. CASE b # c
  <2>1. InCart(b) \ InCart(c) = InCart(b)
    BY <1>5 DEF InCart
  <2>2. SameCart(b)
    BY <1>3, <2>1 DEF SameCart
  <2>3. SameBusy(b)
    BY <1>0, <1>1, <1>5, OthersBusy DEF Busy
  <2>4. asked'[b] = asked[b] /\ \A a \in Articles : Present(a) => Present(a)'
    BY <1>0, PresentStays
  <2> QED
    BY <1>4, <2>2, <2>3, <2>4, BuyerElse
<1>6. CASE b = c
  <2>1. Busy(r, b) /\ \A q \in Requests : Busy(q, b) => q = r
    BY <1>0, <1>6 DEF Busy, BuyerInOrder
  <2>2. OrderSound(r, req[r].order)
    BY <1>0, <2>1 DEF BuyerInOrder
  <2>3. InCart(b)' = {}
    BY <1>3, <1>6
  <2>4. RowsSound(b)'
    BY <2>3 DEF RowsSound
  <2>5. \A q \in Requests : Busy(q, b)' => q = r /\ w.phase = "payment"
    BY <1>1, <1>2, <2>1 DEF Busy
  <2>6. ASSUME NEW a \in Articles PROVE (OrderedBy(b, a) = asked[b][a] - Unbought(b, a))'
    <3>1. Unbought(b, a) = 0
      BY <1>0, <2>1 DEF Unbought, Bought
    <3>2. InCartOf(b, a)' = 0
      <4>1. InCart(b) \ InCart(c) = {} /\ IsFiniteSet({})
        BY <1>6, FS_EmptySet
      <4>2. UnitsIn(cart, {}, a) = 0
        <5>1. PICK now : now = cart
          OBVIOUS
        <5>2. UnitsIn(now, {}, a) = 0
          BY <4>1, UnitsZero
        <5> QED
          BY <5>1, <5>2
      <4> QED
        BY <1>3, <4>1, <4>2
    <3>3. Unbought(b, a)' = 0
      BY <3>2 DEF Unbought
    <3>4. OrderedBy(b, a) = asked[b][a] - Unbought(b, a)
      BY DEF BuyerInOrder, CartSound
    <3> QED
      BY <1>0, <1>4, <3>1, <3>3, <3>4, OrdersSame
  <2>7. CartSound(b)'
    BY <2>4, <2>6 DEF CartSound
  <2>8. ASSUME NEW q \in Requests, Busy(q, b)'
        PROVE  (/\ req[q].phase = "saveItem" => Saving(q, b)
                /\ req[q].phase \in {"order", "items"} => Buying(q, b)
                /\ Holds(q) => OrderSound(q, req[q].order))'
    <3>1. /\ q = r /\ req'[q].phase = "payment" /\ req'[q].order = req[r].order
          /\ req'[q].method = req[r].method /\ req'[q].method = "TRANSFER"
      BY <1>1, <1>2, <2>5, <2>8
    <3>2. OrderSound(r, req[r].order)'
      BY <1>0, <2>2, <3>1 DEF OrderSound, Whole
    <3> QED
      BY <3>1, <3>2
  <2>9. ASSUME NEW x \in OrdersOf(b)', Loose(x)' PROVE Settled(x)'
    <3>1. x \in OrdersOf(b) /\ order'[x] = order[x] /\ x \in Orders
      BY <1>4, <2>9 DEF SameOrders, OrdersOf
    <3>2. CASE x = req[r].order
      <4>1. w.phase = "idle"
        BY <1>1, <1>2, <2>9, <3>2 DEF Loose, Holds, Holding
      <4>2. req[r].method # "TRANSFER"
        BY <1>1, <4>1
      <4>3. order[x].paid = FALSE
        BY <1>0, <2>2, <3>1, <3>2 DEF OrderSound, Order
      <4>4. Whole(x) /\ order[x].method # "TRANSFER"
        BY <1>0, <2>2, <3>2, <4>2 DEF OrderSound
      <4> QED
        BY <3>1, <4>3, <4>4 DEF Settled, Whole
    <3>3. CASE x # req[r].order
      <4>1. Loose(x)
        BY <1>2, <2>9, <3>3 DEF Loose, Holds
      <4>2. Settled(x)
        BY <3>1, <4>1 DEF BuyerInOrder
      <4> QED
        BY <3>1, <4>2 DEF Settled, Whole
    <3> QED
      BY <3>2, <3>3
  <2> QED
    BY <2>5, <2>7, <2>8, <2>9 DEF BuyerInOrder
<1> QED
  BY <1>5, <1>6

(* The pending payment completes an order paid by transfer.                 *)
LEMMA BuyerSavePayment ==
  ASSUME Base, NEW b \in Buyers, BuyerInOrder(b), NEW r \in Requests, SavePayment(r)
  PROVE  BuyerInOrder(b)'
<1> DEFINE c == req[r].buyer
<1>0. /\ req \in [Requests -> Request] /\ cart \in [Rows -> CartItem \cup Absent]
      /\ order \in [Orders -> Order] /\ req' = [req EXCEPT ![r] = Idle]
      /\ UNCHANGED <<article, cart, asked, disturbed>> /\ disturbed \subseteq disturbed'
      /\ OrdersKept /\ Kept /\ req[r].phase = "payment" /\ req[r] \in Request /\ Holds(r)
  BY DEF Base, StockSafe, RequestsSound, RestTyped, Kept, SavePayment, history, Finish,
     Holds, Holding
<1>1. PICK o : o = req[r].order
  OBVIOUS
<1>2. o \in Orders /\ order[o].buyer = c /\ order[o] \in Order
  BY <1>0, <1>1 DEF OrdersKept
<1>3. /\ order'[o].buyer = c /\ order'[o].items = order[o].items
      /\ order'[o].total = order[o].total /\ order'[o].method = order[o].method
      /\ order'[o].paid = TRUE
      /\ \A x \in Orders \ {o} : order'[x] = order[x]
  BY <1>0, <1>1, <1>2 DEF SavePayment, Order
<1>4. \A q \in Requests \ {r} : req'[q] = req[q]
  BY <1>0
<1>5. SameCart(b)
  BY <1>0 DEF SameCart, InCart
<1>6. OrdersOf(b)' = OrdersOf(b) /\ \A x \in OrdersOf(b) : order'[x].items = order[x].items
  BY <1>2, <1>3 DEF OrdersOf
<1>7. CASE b # c
  <2>1. SameOrders(b)
    BY <1>2, <1>3, <1>6, <1>7 DEF SameOrders, OrdersOf
  <2>2. SameBusy(b)
    BY <1>0, <1>7, IdleRegular, OthersBusy DEF Busy
  <2>3. asked'[b] = asked[b] /\ \A a \in Articles : Present(a) => Present(a)'
    BY <1>0, PresentStays
  <2> QED
    BY <1>5, <2>1, <2>2, <2>3, BuyerElse
<1>8. CASE b = c
  <2>1. Busy(r, b) /\ \A q \in Requests : Busy(q, b) => q = r
    BY <1>0, <1>8 DEF Busy, BuyerInOrder
  <2>2. OrderSound(r, o)
    BY <1>0, <1>1, <2>1 DEF BuyerInOrder
  <2>3. \A q \in Requests : ~Busy(q, b)'
    BY <1>0, <2>1, IdleRegular DEF Busy
  <2>4. RowsSound(b)'
    BY <1>0, <1>5, RowsSame DEF BuyerInOrder, CartSound, RowsSound, Present
  <2>5. ASSUME NEW a \in Articles PROVE (OrderedBy(b, a) = asked[b][a] - Unbought(b, a))'
    <3>1. Unbought(b, a) = InCartOf(b, a)
      BY <1>0, <2>1 DEF Unbought, Bought
    <3>2. Unbought(b, a)' = InCartOf(b, a)'
      BY <2>3 DEF Unbought
    <3>3. OrderedBy(b, a) = asked[b][a] - Unbought(b, a)
      BY DEF BuyerInOrder, CartSound
    <3>4. OrderedBy(b, a)' = OrderedBy(b, a) /\ InCartOf(b, a)' = InCartOf(b, a)
      BY <1>5, <1>6, OrderedBySame, InCartSame
    <3> QED
      BY <1>0, <3>1, <3>2, <3>3, <3>4
  <2>6. CartSound(b)'
    BY <2>4, <2>5 DEF CartSound
  <2>7. ASSUME NEW x \in OrdersOf(b)', Loose(x)' PROVE Settled(x)'
    <3>1. CASE x = o
      <4>1. Whole(o) /\ order[o].method = "TRANSFER"
        BY <1>0, <2>2 DEF OrderSound
      <4> QED
        BY <1>3, <3>1, <4>1 DEF Settled, Whole
    <3>2. CASE x # o
      <4>1. x \in OrdersOf(b) /\ order'[x] = order[x]
        BY <1>3, <1>6, <2>7, <3>2 DEF OrdersOf
      <4>2. Loose(x)
        BY <1>1, <1>4, <2>7, <3>2 DEF Loose, Holds
      <4>3. Settled(x)
        BY <4>1, <4>2 DEF BuyerInOrder
      <4> QED
        BY <4>1, <4>3 DEF Settled, Whole
    <3> QED
      BY <3>1, <3>2
  <2> QED
    BY <2>3, <2>6, <2>7 DEF BuyerInOrder
<1> QED
  BY <1>7, <1>8

(* Breaking off after the first write disturbs the buyer.                   *)
LEMMA BuyerBreakOff ==
  ASSUME Base, NEW b \in Buyers, b \notin disturbed', BuyerInOrder(b),
         NEW r \in Requests, BreakOff(r)
  PROVE  BuyerInOrder(b)'
<1>1. /\ Finish(r) /\ UNCHANGED <<article, cart, order, asked>>
      /\ disturbed \subseteq disturbed' /\ req[r] \in Request
  BY DEF BreakOff, Base, StockSafe, RequestsSound
<1>2. CASE Busy(r, b)
  <2>1. req[r].phase \in {"saveItem", "order"}
    BY <1>1, <1>2 DEF BreakOff, Busy, Request, Phases
  <2> QED
    BY <1>1, <1>2, <2>1, BuyerEnd
<1>3. CASE ~Busy(r, b)
  BY <1>1, <1>3, IdleRegular, BuyerOther DEF Finish
<1> QED
  BY <1>2, <1>3

(* An edit keeps the product listed.                                        *)
LEMMA BuyerEdit ==
  ASSUME Base, NEW b \in Buyers, BuyerInOrder(b), NEW a \in Articles,
         (\E n, p : UpdateArticle(a, n, p)) \/ OmitVariant(a)
  PROVE  BuyerInOrder(b)'
<1>1. /\ article \in [Articles -> Article]
      /\ UNCHANGED <<cart, order, req, asked>> /\ disturbed \subseteq disturbed'
  BY DEF Base, StockSafe, UpdateArticle, OmitVariant, Edit
<1>2. \A x \in Articles : article'[x].product = article[x].product
  <2>1. ASSUME NEW n, NEW p, UpdateArticle(a, n, p)
        PROVE  \A x \in Articles : article'[x].product = article[x].product
    BY <1>1, <2>1 DEF UpdateArticle, SetArticle, Article
  <2>2. ASSUME OmitVariant(a)
        PROVE  \A x \in Articles : article'[x].product = article[x].product
    BY <1>1, <2>2 DEF OmitVariant, SetArticle, Article
  <2> QED
    BY <2>1, <2>2
<1>3. \A x \in Articles : Present(x) => Present(x)'
  BY <1>1, <1>2 DEF Present
<1>4. SameCart(b) /\ SameOrders(b) /\ SameBusy(b)
  BY <1>1, SameTables, BusyUnchanged
<1>5. asked'[b] = asked[b]
  BY <1>1
<1> QED
  BY <1>3, <1>4, <1>5, BuyerElse

(* Removing a product takes it out of the carts of buyers who are not at    *)
(* work on it.                                                              *)
LEMMA BuyerRemove ==
  ASSUME Base, NEW b \in Buyers, b \notin disturbed', BuyerInOrder(b),
         NEW a \in Articles, RemoveProduct(a)
  PROVE  BuyerInOrder(b)'
<1> DEFINE S == {i \in Rows : cart[i] \notin Absent /\ cart[i].article = a}
<1>0. /\ article \in [Articles -> Article] /\ cart \in [Rows -> CartItem \cup Absent]
      /\ req \in [Requests -> Request] /\ asked \in [Buyers -> [Articles -> Int]]
      /\ cart' = Without(S) /\ UNCHANGED <<order, req>> /\ disturbed \subseteq disturbed'
      /\ RequestsSound
  BY DEF Base, StockSafe, RequestsSound, RestTyped, RemoveProduct
<1>1. /\ InCart(b)' = InCart(b) \ S /\ \A i \in InCart(b) \ S : cart'[i] = cart[i]
      /\ \A x : InCartOf(b, x)' = UnitsIn(cart, InCart(b) \ S, x)
  BY <1>0, CartDeleted
<1>2. \A x \in Articles \ {a} : Present(x) => Present(x)'
  BY <1>0 DEF RemoveProduct, Present
<1>3. \A i \in InCart(b) \ S : cart[i].article \in Articles \ {a}
  BY <1>0, InCartType DEF InCart
<1>4. SameOrders(b) /\ SameBusy(b)
  BY <1>0, BusyUnchanged DEF SameOrders, OrdersOf
<1>5. /\ asked'[b][a] = asked[b][a] - InCartOf(b, a)
      /\ \A x \in Articles \ {a} : asked'[b][x] = asked[b][x]
  BY <1>0 DEF RemoveProduct
<1>6. \A i \in InCart(b) \ S : Present(cart[i].article)'
  <2> SUFFICES ASSUME NEW i \in InCart(b) \ S PROVE Present(cart[i].article)'
    OBVIOUS
  <2>1. PICK x : x = cart[i].article
    OBVIOUS
  <2>2. x \in Articles \ {a} /\ Present(x)
    BY <1>3, <2>1 DEF BuyerInOrder, CartSound, RowsSound
  <2>3. cart'[i] = cart[i]
    BY <1>1
  <2> QED
    BY <1>2, <2>1, <2>2, <2>3 DEF Present
<1>7. CASE \E q \in Requests : Busy(q, b)
  <2>1. PICK q \in Requests : Busy(q, b)
    BY <1>7
  <2>2. \A i \in S : cart[i].buyer # b
    BY <2>1 DEF RemoveProduct, Busy
  <2>3. InCart(b) \ S = InCart(b)
    BY <2>2 DEF InCart
  <2>4. SameCart(b)
    BY <1>1, <2>3 DEF SameCart
  <2>5. \A p \in Requests : Busy(p, b) => ~Using(p, a)
    BY DEF RemoveProduct, Busy
  <2>6. ASSUME NEW p \in Requests, Busy(p, b), req[p].phase = "saveItem"
        PROVE  Present(req[p].article)'
    <3>1. PICK x : x = req[p].article
      OBVIOUS
    <3>2. x \in Articles \ {a} /\ Present(x)
      BY <1>0, <2>5, <2>6, <3>1 DEF Using, RequestsSound, Sound, BuyerInOrder, Saving
    <3> QED
      BY <1>0, <1>2, <3>1, <3>2 DEF Present
  <2>7. asked'[b] = asked[b]
    <3>1. InCartOf(b, a) = 0
      <4>1. /\ IsFiniteSet(InCart(b)) /\ InCartOf(b, a) = UnitsIn(cart, InCart(b), a)
        BY <1>0, OwnCountable
      <4>2. PICK T : T = InCart(b)
        OBVIOUS
      <4>3. PICK now : now = cart
        OBVIOUS
      <4>4. \A i \in T : LineUnits(now[i], a) = 0
        BY <1>3, <2>3, <4>2, <4>3 DEF LineUnits
      <4>5. UnitsIn(now, T, a) = 0
        BY <4>1, <4>2, <4>4, UnitsZero
      <4> QED
        BY <4>1, <4>2, <4>3, <4>5
    <3>2. asked'[b][a] = asked[b][a]
      BY <1>0, <1>5, <3>1
    <3>3. asked' \in [Buyers -> [Articles -> Int]]
      BY RestStep DEF Base, Next, SellerStep, RestTyped
    <3> QED
      BY <1>0, <1>5, <3>2, <3>3
  <2> QED
    BY <1>4, <1>6, <2>3, <2>4, <2>6, <2>7, BuyerAside
<1>8. CASE \A q \in Requests : ~Busy(q, b)
  <2>1. \A q \in Requests : ~Busy(q, b)'
    BY <1>4, <1>8 DEF SameBusy
  <2>2. RowsSound(b)'
    <3>1. RowsSound(b)
      BY DEF BuyerInOrder, CartSound
    <3>2. \A i, j \in InCart(b)' : cart'[i].article = cart'[j].article => i = j
      BY <1>1, <3>1 DEF RowsSound
    <3>3. \A i \in InCart(b)' : Present(cart[i].article)'
      BY <1>1, <1>6
    <3> QED
      BY <3>2, <3>3 DEF RowsSound
  <2>3. ASSUME NEW x \in Articles PROVE (OrderedBy(b, x) = asked[b][x] - Unbought(b, x))'
    <3>1. PICK T : T = InCart(b)
      OBVIOUS
    <3>2. PICK now : now = cart
      OBVIOUS
    <3>3. /\ Countable(now, T, x) /\ IsFiniteSet(T) /\ UnitsIn(now, T, x) \in Int
          /\ InCartOf(b, x) = UnitsIn(now, T, x)
      BY <1>0, <3>1, <3>2, OwnCountable
    <3>4. T \ S \in SUBSET T /\ Countable(now, T \ S, x) /\ IsFiniteSet(T \ S)
      BY <3>3, FS_Subset DEF Countable
    <3>5. OrderedBy(b, x) = asked[b][x] - InCartOf(b, x)
      BY <1>8 DEF BuyerInOrder, CartSound, Unbought
    <3>6. Unbought(b, x)' = UnitsIn(now, T \ S, x)
      BY <1>1, <2>1, <3>1, <3>2 DEF Unbought
    <3>7. OrderedBy(b, x)' = OrderedBy(b, x)
      BY <1>4, OrdersSame
    <3>8. asked[b][x] \in Int
      BY <1>0
    <3>9. CASE x = a
      <4>1. \A i \in T \ S : LineUnits(now[i], x) = 0
        BY <1>3, <3>1, <3>2, <3>9 DEF LineUnits
      <4>2. UnitsIn(now, T \ S, x) = 0
        <5> HIDE DEF S
        <5>1. PICK U : U = T \ S
          OBVIOUS
        <5>2. IsFiniteSet(U) /\ \A i \in U : LineUnits(now[i], x) = 0
          BY <3>4, <4>1, <5>1
        <5>3. UnitsIn(now, U, x) = 0
          BY <5>2, UnitsZero
        <5> QED
          BY <5>1, <5>3
      <4>3. asked'[b][x] = asked[b][x] - InCartOf(b, x)
        BY <1>5, <3>9
      <4>4. asked[b][x] - InCartOf(b, x) = asked[b][x] - InCartOf(b, x) - 0
        BY <3>3, <3>8
      <4> QED
        BY <3>5, <3>6, <3>7, <4>2, <4>3, <4>4
    <3>10. CASE x # a
      <4>1. \A i \in T \ (T \ S) : LineUnits(now[i], x) = 0
        BY <3>2, <3>10 DEF LineUnits
      <4>2. UnitsIn(now, T, x) = UnitsIn(now, T \ S, x)
        <5> HIDE DEF S
        <5>1. PICK U : U = T \ S
          OBVIOUS
        <5>2. U \in SUBSET T /\ Countable(now, U, x) /\ \A i \in T \ U : LineUnits(now[i], x) = 0
          BY <3>4, <4>1, <5>1
        <5>3. UnitsIn(now, T, x) = UnitsIn(now, U, x)
          BY <3>3, <5>2, UnitsSubset
        <5> QED
          BY <5>1, <5>3
      <4>3. asked'[b][x] = asked[b][x]
        BY <1>5, <3>10
      <4> QED
        BY <3>3, <3>5, <3>6, <3>7, <4>2, <4>3
    <3> QED
      BY <3>9, <3>10
  <2>4. CartSound(b)'
    BY <2>2, <2>3 DEF CartSound
  <2>5. \A q \in Requests : Holds(q) => Holds(q)' /\ req'[q].order = req[q].order
    BY <1>0 DEF Holds
  <2>6. (\A o \in OrdersOf(b) : Loose(o) => Settled(o))'
    BY <1>4, <2>5, SettledSame
  <2> QED
    BY <2>1, <2>4, <2>6 DEF BuyerInOrder
<1> QED
  BY <1>7, <1>8

LEMMA BuyersInit == Init => BuyersInOrder
<1> SUFFICES ASSUME Init, NEW b \in Buyers PROVE BuyerInOrder(b)
  BY DEF BuyersInOrder
<1>1. \A q \in Requests : ~Busy(q, b)
  BY IdleRegular DEF Init, Busy
<1>2. InCart(b) = {} /\ OrdersOf(b) = {}
  BY CheckoutAssumption DEF Init, InCart, Absent, OrdersOf, NoOrder
<1>3. ASSUME NEW a \in Articles PROVE OrderedBy(b, a) = asked[b][a] - Unbought(b, a)
  <2>1. PICK now : now = cart
    OBVIOUS
  <2>2. UnitsIn(now, {}, a) = 0
    BY FS_EmptySet, UnitsZero
  <2>3. Unbought(b, a) = 0
    BY <1>1, <1>2, <2>1, <2>2 DEF Unbought, InCartOf
  <2>4. PICK ord : ord = order
    OBVIOUS
  <2> DEFINE F == [o \in {} |-> UnitsIn(ord[o].items, Rows, a)]
  <2>5. \A o \in {} : F[o] = 0
    OBVIOUS
  <2> HIDE DEF F
  <2>6. SumFunctionOnSet(F, {}) = 0
    BY <2>5, FS_EmptySet, SumZero
  <2>7. Sales(ord, {}, a) = 0
    BY <2>6 DEF Sales, F
  <2>8. OrderedBy(b, a) = 0
    BY <1>2, <2>4, <2>7, SalesOf
  <2>9. asked[b][a] = 0
    BY DEF Init
  <2> QED
    BY <2>3, <2>8, <2>9
<1>4. CartSound(b)
  BY <1>2, <1>3 DEF CartSound, RowsSound
<1> QED
  BY <1>1, <1>2, <1>4 DEF BuyerInOrder

LEMMA BuyersStep ==
  Base /\ ArticlesInOrder /\ BuyersInOrder /\ [Next]_vars => BuyersInOrder'
<1> SUFFICES ASSUME Base, ArticlesInOrder, BuyersInOrder, [Next]_vars,
                    NEW b \in Buyers, b \notin disturbed'
             PROVE  BuyerInOrder(b)'
  BY DEF BuyersInOrder
<1>1. BuyerInOrder(b)
  BY DisturbedGrows DEF BuyersInOrder
<1>2. ASSUME NEW r \in Requests, CartStep(r) PROVE BuyerInOrder(b)'
  <2>1. ASSUME NEW c \in Buyers, NEW i \in Rows, RemoveItem(c, i) PROVE BuyerInOrder(b)'
    BY <1>1, <2>1, BuyerDelete DEF RemoveItem
  <2>2. ASSUME NEW c \in Buyers, ClearCart(c) PROVE BuyerInOrder(b)'
    <3>1. PICK S : S = InCart(c)
      OBVIOUS
    <3>2. DeleteItems(c, S)
      BY <2>2, <3>1 DEF ClearCart
    <3> QED
      BY <1>1, <3>1, <3>2, BuyerDelete
  <2> QED
    BY <1>1, <1>2, <2>1, <2>2, BuyerAddProduct, BuyerUpdateQuantity DEF CartStep
<1>3. ASSUME NEW r \in Requests, CheckoutStep(r) PROVE BuyerInOrder(b)'
  BY <1>1, <1>3, BuyerBegin, BuyerSaveOrder, BuyerSaveItems, BuyerTakeStock,
     BuyerClearBought, BuyerSavePayment DEF CheckoutStep
<1>4. ASSUME NEW a \in Articles, SellerStep(a) PROVE BuyerInOrder(b)'
  BY <1>1, <1>4, BuyerEdit, BuyerRemove DEF SellerStep
<1>5. CASE UNCHANGED vars
  <2>1. UNCHANGED <<article, cart, order, req, asked, disturbed>>
    BY <1>5 DEF vars, history
  <2>2. SameCart(b) /\ SameOrders(b) /\ SameBusy(b)
    BY <2>1, SameTables, BusyUnchanged
  <2>3. asked'[b] = asked[b] /\ \A a \in Articles : Present(a) => Present(a)'
    BY <2>1 DEF Present
  <2> QED
    BY <1>1, <2>2, <2>3, BuyerElse
<1> QED
  BY <1>1, <1>2, <1>3, <1>4, <1>5, BuyerSaveItem, BuyerBreakOff DEF Next

(* The invariant holds: whatever overlaps elsewhere, a buyer whose requests *)
(* do not is served as if they were transactions.                           *)
THEOREM AlwaysInOrder == Spec => [](Base /\ ArticlesInOrder /\ BuyersInOrder)
<1>1. Init => Base /\ ArticlesInOrder /\ BuyersInOrder
  BY BaseInit, ArticlesInit, BuyersInit
<1>2. (Base /\ ArticlesInOrder /\ BuyersInOrder) /\ [Next]_vars
        => (Base /\ ArticlesInOrder /\ BuyersInOrder)'
  BY BaseStep, ArticlesStep, BuyersStep
<1> QED
  BY <1>1, <1>2, PTL DEF Spec

(* Of a buyer whose requests never overlapped every unit asked for is in    *)
(* the cart or in an order, once, in one row for an article, and none of    *)
(* those articles is gone: no other buyer, checkout or edit takes from this *)
(* cart or adds to it.                                                      *)
THEOREM QuietCartExact == Spec => []QuietCartIsExact
<1>1. Base /\ ArticlesInOrder /\ BuyersInOrder => QuietCartIsExact
  <2> SUFFICES ASSUME Base, BuyersInOrder, NEW b \in Buyers, QuietBuyer(b)
               PROVE  /\ \A a \in Articles : InCartOf(b, a) + OrderedBy(b, a) = asked[b][a]
                      /\ Doubled(InCart(b)) = {}
                      /\ \A i \in InCart(b) : cart[i].article \in disturbed
                           \/ article[cart[i].article].product = "listed"
    BY DEF QuietCartIsExact
  <2>1. CartSound(b) /\ \A q \in Requests : ~Busy(q, b)
    BY DEF QuietBuyer, BuyersInOrder, BuyerInOrder
  <2>2. ASSUME NEW a \in Articles PROVE InCartOf(b, a) + OrderedBy(b, a) = asked[b][a]
    <3>1. OrderedBy(b, a) = asked[b][a] - InCartOf(b, a)
      BY <2>1 DEF CartSound, Unbought
    <3>2. InCartOf(b, a) \in Int
      BY OwnCountable DEF Base, StockSafe
    <3>3. asked[b][a] \in Int
      BY DEF Base, RestTyped
    <3> QED
      BY <3>1, <3>2, <3>3
  <2>3. Doubled(InCart(b)) = {}
    BY <2>1 DEF CartSound, RowsSound, Doubled
  <2>4. \A i \in InCart(b) : cart[i].article \in disturbed
          \/ article[cart[i].article].product = "listed"
    BY <2>1 DEF CartSound, RowsSound, Present
  <2> QED
    BY <2>2, <2>3, <2>4
<1> QED
  BY <1>1, AlwaysInOrder, PTL

(* Every order of such a buyer has its items, the total they add up to and, *)
(* if it is paid by transfer, its pending payment: a checkout that writes   *)
(* them one by one, without a transaction, is not seen half done.           *)
THEOREM QuietOrderWhole == Spec => []QuietOrderIsWhole
<1>1. Base /\ ArticlesInOrder /\ BuyersInOrder => QuietOrderIsWhole
  <2> SUFFICES ASSUME Base, BuyersInOrder, NEW o \in Orders, Exists(o),
                      QuietBuyer(order[o].buyer)
               PROVE  /\ order[o].items # NoItems
                      /\ order[o].total = SumOf(order[o].items, Rows)
                      /\ order[o].paid = (order[o].method = "TRANSFER")
    BY DEF QuietOrderIsWhole
  <2>1. PICK b : b = order[o].buyer
    OBVIOUS
  <2>2. b \in Buyers /\ o \in OrdersOf(b)
    BY <2>1 DEF Base, RestTyped, Order, Exists, OrdersOf
  <2>3. BuyerInOrder(b) /\ \A q \in Requests : ~Busy(q, b)
    BY <2>1, <2>2 DEF QuietBuyer, BuyersInOrder
  <2>4. Loose(o)
    BY <2>2, <2>3, HolderIsBusy DEF Loose, Base
  <2>5. Settled(o)
    BY <2>2, <2>3, <2>4 DEF BuyerInOrder
  <2> QED
    BY <2>5 DEF Settled, Whole
<1> QED
  BY <1>1, AlwaysInOrder, PTL
==============================================================================
