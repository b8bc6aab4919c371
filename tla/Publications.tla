---------------------------- MODULE Publications ----------------------------
(***************************************************************************)
(* Products (ProductsService, ProductMediaService, FavoritesService) over  *)
(* the catalogue they are filed in.  create saves product, variants, media *)
(* and attribute values one after the other, outside any transaction, and  *)
(* rejects some of them between two saves; update reads, then writes in a  *)
(* transaction without locks; approve and reject save the row they read,   *)
(* and so does checkout (OrdersService), of the variant or of the product. *)
(***************************************************************************)
EXTENDS Catalogue, FiniteSets, Functions

CONSTANTS
  Products,     \* ids of products
  Variants,     \* ids of product_variants
  Media,        \* ids of product_media
  Buyers,       \* users with favourites
  Forms         \* what sellers send

(* What a seller sends: variants that exist, new variants, which of them    *)
(* are switched off, a stock of the product, media, values.                 *)
Form == [sub : SubCategories \cup {None}, brand : Brands \cup {None},
         keep : SUBSET Variants, new : SUBSET Variants, off : SUBSET Variants,
         stock : Nat \cup {None},
         media : SUBSET Media, values : SUBSET Attributes]

ASSUME PublicationsAssumption ==
  /\ None \notin Products \cup SubCategories \cup Variants
  /\ IsFiniteSet(Variants)
  /\ Forms \subseteq Form /\ None \notin Forms

VARIABLES
  product,    \* rows of products
  variant,    \* rows of product_variants
  media,      \* the product of each row of product_media, or "loose"
  favorite,   \* pairs <<buyer, product>> in favorites
  sold,       \* products some order_items refer to
  job,        \* the requests in progress and what they have read
  cleared,    \* history: products that may be listed where they are filed
  disturbed,  \* history: products on which requests overlapped or broke off
  adrift      \* history: products whose stock, or a variant's, was written
              \* since their variants were last sent

shelf  == <<product, variant, media, favorite, sold>>
shown  == <<cleared, disturbed, adrift>>
own    == <<shelf, job, shown>>
vars   == <<catalogue, own>>
filing == <<catalogueRows, req, faults, clashed>>

Product == [sub : SubCategories, brand : Brands \cup {None}, active : BOOLEAN,
            approval : Status, deleted : BOOLEAN, stock : Nat,
            values : SUBSET Attributes]

Variant == [product : Products, active : BOOLEAN, stock : {0, 1}]

ASSUME PublicationRowAssumption == None \notin Product \cup Variant

Job == [phase : {"idle", "product", "variants", "media", "values", "begin", "commit",
                 "verdict", "favorite", "sale", "stock"},
        product : Products \cup {None}, form : Forms \cup {None},
        row : Product \cup Variant \cup {None}, sensitive : BOOLEAN,
        lacking : BOOLEAN, incomplete : BOOLEAN,
        found : SUBSET Variants, moves : BOOLEAN,
        buyer : Buyers \cup {None}]

Rest == [phase |-> "idle", product |-> None, form |-> None, row |-> None,
         sensitive |-> FALSE, lacking |-> FALSE, incomplete |-> FALSE,
         found |-> {}, moves |-> FALSE, buyer |-> None]

TypeOK ==
  /\ CatalogueTypeOK
  /\ product \in [Products -> Product \cup {None}]
  /\ variant \in [Variants -> Variant \cup {None}]
  /\ media \in [Media -> Products \cup {None, "loose"}]
  /\ favorite \subseteq Buyers \X Products
  /\ sold \subseteq Products
  /\ job \in [Requests -> Job]
  /\ cleared \subseteq Products /\ disturbed \subseteq Products /\ adrift \subseteq Products

Init ==
  /\ CatalogueInit
  /\ product = [p \in Products |-> None] /\ variant = [v \in Variants |-> None]
  /\ media = [m \in Media |-> None] /\ favorite = {} /\ sold = {}
  /\ job = [j \in Requests |-> Rest]
  /\ cleared = {} /\ disturbed = {} /\ adrift = {}

------------------------------------------------------------------------------
Exists(p)   == product[p] # None
Live(p)     == Exists(p) /\ ~product[p].deleted
Listed(p)   == Exists(p) /\ product[p].active /\ product[p].approval = "approved"
VariantsOf(p) == {v \in Variants : variant[v] # None /\ variant[v].product = p}

At(k, p) == job[k].phase # "idle" /\ job[k].product = p

Overlap(p) == disturbed \cup (IF \E k \in Requests : At(k, p) THEN {p} ELSE {})

Begin(j, p, w) ==
  /\ job[j].phase = "idle"
  /\ edits < MaxEdits /\ edits' = edits + 1
  /\ job' = [job EXCEPT ![j] = [w EXCEPT !.product = p]]
  /\ disturbed' = Overlap(p)
  /\ UNCHANGED <<filing, shelf, cleared, adrift>>

End(j) == job' = [job EXCEPT ![j] = Rest]

Goes(j, phase) == job' = [job EXCEPT ![j].phase = phase]

(* variant: every publication is listed at once                             *)
ApprovalStateAny(sensitive) == [approval |-> "approved", active |-> TRUE]

ApprovalStateFor(sensitive) ==
  [approval |-> IF sensitive THEN "pending" ELSE "approved", active |-> ~sensitive]

Sent(form) == form.keep \cup form.new

(* variant: variants switched off are counted                               *)
StockOfAll(form) ==
  IF Sent(form) = {} THEN form.stock ELSE Cardinality(Sent(form))

(* resolveProductPriceAndStock: one piece of each variant sent active, or   *)
(* the stock sent for a product without variants.                           *)
TotalStock(form) ==
  IF Sent(form) = {} THEN form.stock ELSE Cardinality(Sent(form) \ form.off)

(* The attributes of a subcategory that a product, or each variant other    *)
(* than by size and colour, has to have.                                    *)
RequiredOf(s, appliesTo) ==
  {a \in Attributes :
     /\ SubOf[a] = s /\ attribute[a] # None /\ attribute[a].required
     /\ attribute[a].appliesTo = appliesTo
     /\ attribute[a].usage \notin {"variant_size", "variant_color"}}

Incomplete(form, s) == ~RequiredOf(s, "PRODUCT") \subseteq form.values

(* validateRequiredVariantAttributes                                        *)
Lacking(form, s) == Sent(form) # {} /\ ~RequiredOf(s, "VARIANT") \subseteq form.values

BrandIsGone(form) == form.brand # None /\ brand[form.brand] = None

(* Variants sent are not all off; new ones get ids of their own.            *)
Acceptable(form) ==
  /\ form.off \subseteq Sent(form)
  /\ Sent(form) # {} => form.off # Sent(form)
  /\ ~BrandIsGone(form)
  /\ \A v \in form.new : variant[v] = None
  /\ \A k \in Requests : job[k].form # None => job[k].form.new \cap form.new = {}

(* create up to its first save.                                             *)
Create(j, p, form) ==
  LET s == form.sub IN
  /\ product[p] = None /\ p \notin disturbed \cup sold
  /\ \A k \in Requests : ~At(k, p)
  /\ s # None /\ form.keep = {} /\ Acceptable(form)
  /\ form.new = {} => form.stock # None
  /\ Begin(j, p, [Rest EXCEPT !.phase = "product", !.form = form,
                    !.lacking = Lacking(form, s), !.incomplete = Incomplete(form, s),
                    !.sensitive = Sensitive(s)])

InsertProduct(j) ==
  LET p == job[j].product
      form == job[j].form
      state == ApprovalStateFor(job[j].sensitive)
  IN
  /\ job[j].phase = "product"
  /\ IF BrandIsGone(form)
     THEN End(j) /\ UNCHANGED <<product, cleared, adrift>>
     ELSE /\ product' = [product EXCEPT ![p] =
               [sub |-> form.sub, brand |-> form.brand, active |-> state.active,
                approval |-> state.approval, deleted |-> FALSE,
                stock |-> TotalStock(form), values |-> {}]]
          /\ cleared' = IF job[j].sensitive THEN cleared \ {p} ELSE cleared \cup {p}
          /\ adrift' = adrift \ {p}
          /\ Goes(j, IF form.new = {} THEN "media" ELSE "variants")
  /\ UNCHANGED <<catalogue, variant, media, favorite, sold, disturbed>>

AsSent(p, form, v) == [product |-> p, active |-> v \notin form.off, stock |-> 1]

(* One variant at a time.  A variant without a required attribute, or a     *)
(* product removed meanwhile, ends the request half done.                   *)
InsertVariant(j) ==
  LET p == job[j].product
      todo == {v \in job[j].form.new : variant[v] = None}
  IN
  /\ job[j].phase = "variants"
  /\ IF job[j].lacking \/ ~Exists(p)
     THEN End(j) /\ disturbed' = disturbed \cup {p} /\ UNCHANGED variant
     ELSE /\ IF todo = {} THEN Goes(j, "media") /\ UNCHANGED variant
             ELSE UNCHANGED job /\ \E v \in todo :
                    variant' = [variant EXCEPT ![v] = AsSent(p, job[j].form, v)]
          /\ UNCHANGED disturbed
  /\ UNCHANGED <<catalogue, product, media, favorite, sold, cleared, adrift>>

LinkMedia(j) ==
  LET p == job[j].product
      linked == {m \in job[j].form.media : media[m] # None}
  IN
  /\ job[j].phase = "media"
  /\ IF Exists(p)
     THEN /\ media' = [m \in Media |-> IF m \in linked THEN p ELSE media[m]]
          /\ Goes(j, "values")
     ELSE End(j) /\ UNCHANGED media
  /\ UNCHANGED <<catalogue, product, variant, favorite, sold, shown>>

(* The values are looked at last: one that is missing ends the request, and *)
(* what was saved stays.                                                    *)
SaveValues(j) ==
  LET p == job[j].product
      values == job[j].form.values
  IN
  /\ job[j].phase = "values"
  /\ product' = IF Exists(p) /\ ~job[j].incomplete
                THEN [product EXCEPT ![p].values = {a \in values : attribute[a] # None}]
                ELSE product
  /\ End(j)
  /\ UNCHANGED <<catalogue, variant, media, favorite, sold, shown>>

------------------------------------------------------------------------------
(* update up to its transaction: the target subcategory and brand are read  *)
(* here.                                                                    *)
Update(j, p, form) ==
  /\ Live(p)
  /\ form.media = {} /\ Acceptable(form)
  /\ Begin(j, p, [Rest EXCEPT !.phase = "begin", !.form = form,
                    !.lacking = form.sub # None /\ Lacking(form, form.sub),
                    !.sensitive = form.sub # None /\ Sensitive(form.sub)])

(* Inside it the product is read with its variants; ids that are not among  *)
(* them, or an attribute that is lacking, end the request.                  *)
ReadVariants(j) ==
  LET p == job[j].product
      form == job[j].form
  IN
  /\ job[j].phase = "begin"
  /\ IF \/ ~Exists(p) \/ ~(form.keep \subseteq VariantsOf(p))
        \/ IF form.sub # None THEN job[j].lacking ELSE Lacking(form, product[p].sub)
     THEN End(j)
     ELSE job' = [job EXCEPT ![j].phase = "commit", ![j].found = VariantsOf(p),
                    ![j].moves = form.sub # None /\ form.sub # product[p].sub]
  /\ UNCHANGED <<catalogue, shelf, shown>>

(* syncProductVariants: what was not sent is switched off, what was sent is *)
(* written or inserted.                                                     *)
Synced(p, form, found) ==
  [v \in Variants |->
    IF v \in (form.keep \cap VariantsOf(p)) \cup form.new
      THEN AsSent(p, form, v)
    ELSE IF v \in (found \cap VariantsOf(p)) \ form.keep
      THEN [variant[v] EXCEPT !.active = FALSE, !.stock = 0]
    ELSE variant[v]]

(* The commit of update: the stock of the variants sent, or the one sent    *)
(* without variants, also of a product that has some.                       *)
CommitUpdate(j) ==
  LET p == job[j].product
      form == job[j].form
      synced == Sent(form) # {}
      state == ApprovalStateFor(job[j].sensitive)
      row == [product[p] EXCEPT
        !.stock = IF synced \/ form.stock # None THEN TotalStock(form) ELSE @,
        !.brand = IF form.brand # None THEN form.brand ELSE @]
  IN
  /\ job[j].phase = "commit"
  /\ IF ~Exists(p) \/ BrandIsGone(form)
     THEN UNCHANGED <<product, variant, cleared, adrift>>
     ELSE /\ variant' = IF synced THEN Synced(p, form, job[j].found) ELSE variant
          /\ product' = [product EXCEPT ![p] =
               IF job[j].moves THEN [row EXCEPT !.sub = form.sub, !.active = state.active,
                                                !.approval = state.approval]
               ELSE row]
          /\ cleared' = IF ~job[j].moves THEN cleared
                        ELSE IF job[j].sensitive THEN cleared \ {p} ELSE cleared \cup {p}
          /\ adrift' = IF synced THEN adrift \ {p}
                       ELSE IF form.stock # None THEN adrift \cup {p} ELSE adrift
  /\ End(j)
  /\ UNCHANGED <<catalogue, media, favorite, sold, disturbed>>

(* variant: a favourite outlives a product that was sold                    *)
KeptOfSold(p) == IF p \in sold THEN favorite ELSE {f \in favorite : f[2] # p}

(* What remove leaves of the favourites.                                    *)
KeptFavorites(p) == {f \in favorite : f[2] # p}

(* remove: an order that refers to the product keeps its row.               *)
RemoveProduct(p) ==
  /\ Live(p)
  /\ favorite' = KeptFavorites(p)
  /\ IF p \in sold
     THEN /\ product' = [product EXCEPT ![p].active = FALSE, ![p].deleted = TRUE]
          /\ UNCHANGED <<variant, media>>
     ELSE /\ product' = [product EXCEPT ![p] = None]
          /\ variant' = [v \in Variants |-> IF v \in VariantsOf(p) THEN None ELSE variant[v]]
          /\ media' = [m \in Media |-> IF media[m] = p THEN None ELSE media[m]]
  /\ cleared' = cleared \ {p}
  /\ disturbed' = Overlap(p)
  /\ UNCHANGED <<catalogue, sold, job, adrift>>

(* approve and reject: the row as it was read.                              *)
Judge(j, p, approval) ==
  /\ Live(p)
  /\ Begin(j, p, [Rest EXCEPT !.phase = "verdict",
       !.row = [product[p] EXCEPT !.approval = approval, !.active = approval = "approved"]])

(* A row saved as it was read.  Relations that were not loaded,             *)
(* subcategory, brand and values, are left; a row that is gone is not       *)
(* inserted, for want of a seller.                                          *)
SaveOver(p, row) ==
  product' = IF Exists(p)
             THEN [product EXCEPT ![p] = [row EXCEPT !.sub = product[p].sub,
                     !.brand = product[p].brand, !.values = product[p].values]]
             ELSE product

SaveVerdict(j) ==
  LET p == job[j].product
      row == job[j].row
  IN
  /\ job[j].phase = "verdict"
  /\ SaveOver(p, row)
  /\ cleared' = IF ~Exists(p) THEN cleared
                ELSE IF row.active THEN cleared \cup {p} ELSE cleared \ {p}
  /\ End(j)
  /\ UNCHANGED <<catalogue, variant, media, favorite, sold, disturbed, adrift>>

------------------------------------------------------------------------------
(* uploadMedia; with a product, uploadProductMedia.                         *)
UploadMedia(m, p) ==
  /\ media[m] = None
  /\ p # None => Live(p)
  /\ edits < MaxEdits /\ edits' = edits + 1
  /\ media' = [media EXCEPT ![m] = IF p = None THEN "loose" ELSE p]
  /\ UNCHANGED <<filing, product, variant, favorite, sold, job, shown>>

(* assignToProduct: also of media another product has.                      *)
AssignMedia(m, p) ==
  /\ Exists(p) /\ media[m] # None
  /\ edits < MaxEdits /\ edits' = edits + 1
  /\ media' = [media EXCEPT ![m] = p]
  /\ UNCHANGED <<filing, product, variant, favorite, sold, job, shown>>

RemoveMedia(m) ==
  /\ media[m] # None /\ media' = [media EXCEPT ![m] = None]
  /\ UNCHANGED <<catalogue, product, variant, favorite, sold, job, shown>>

(* addFavorite up to its insertion, of a pair that is unique.               *)
AddFavorite(j, b, p) ==
  /\ Live(p) /\ <<b, p>> \notin favorite
  /\ Begin(j, p, [Rest EXCEPT !.phase = "favorite", !.buyer = b])

InsertFavorite(j) ==
  LET p == job[j].product IN
  /\ job[j].phase = "favorite"
  /\ favorite' = IF Exists(p) THEN favorite \cup {<<job[j].buyer, p>>} ELSE favorite
  /\ End(j)
  /\ UNCHANGED <<catalogue, product, variant, media, sold, shown>>

RemoveFavorite(b, p) ==
  /\ <<b, p>> \in favorite /\ favorite' = favorite \ {<<b, p>>}
  /\ UNCHANGED <<catalogue, product, variant, media, sold, job, shown>>

HasProducts(b) == \E p \in Products : Exists(p) /\ product[p].brand = b

(* BrandsService.remove: products are counted, the row is deleted unless a  *)
(* product refers to it by now, then the file it named when it was read.    *)
RemoveBrand(r, b) ==
  /\ brand[b] # None /\ ~HasProducts(b)
  /\ Open(r, "brand", b, [Idle EXCEPT !.phase = "erase", !.file = brand[b].publicId])
  /\ UNCHANGED <<catalogueRows, own>>

EraseBrand(r) ==
  LET b == req[r].id IN
  /\ req[r].phase = "erase"
  /\ brand' = IF HasProducts(b) THEN brand ELSE [brand EXCEPT ![b] = None]
  /\ IF HasProducts(b) \/ req[r].file = None
     THEN Close(r) ELSE req' = [req EXCEPT ![r].phase = "drop"]
  /\ UNCHANGED <<suggestion, suggested, filed, attribute, stored, shade, bounds,
                 clashed, own>>

------------------------------------------------------------------------------
(* checkout of one piece, of a variant or of the product, up to its order   *)
(* items: the cart is read with products and variants.  An item put there   *)
(* before may name no variant, or one that is off, but no product that was  *)
(* removed.                                                                 *)
Checkout(j, p, item) ==
  LET piece == IF item = None THEN product[p] ELSE variant[item] IN
  /\ Live(p) /\ item \in VariantsOf(p) \cup {None}
  /\ piece.stock >= 1
  /\ Begin(j, p, [Rest EXCEPT !.phase = "sale",
                    !.found = IF item = None THEN {} ELSE {item},
                    !.row = [piece EXCEPT !.stock = @ - 1]])

(* The order items refer to the product, which has to be there.             *)
SellItem(j) ==
  LET p == job[j].product IN
  /\ job[j].phase = "sale"
  /\ IF Exists(p) THEN sold' = sold \cup {p} /\ Goes(j, "stock")
     ELSE End(j) /\ UNCHANGED sold
  /\ UNCHANGED <<catalogue, product, variant, media, favorite, shown>>

(* Then the variant, or the product, is saved as it was read, less what is  *)
(* sold; the stock of a product with variants is not written.               *)
SaveStock(j) ==
  LET p == job[j].product
      found == job[j].found
      row == job[j].row
  IN
  /\ job[j].phase = "stock"
  /\ variant' = [v \in Variants |-> IF v \in found \cap VariantsOf(p) THEN row
                                    ELSE variant[v]]
  /\ IF found = {} THEN SaveOver(p, row) ELSE UNCHANGED product
  /\ adrift' = adrift \cup {p}
  /\ End(j)
  /\ UNCHANGED <<catalogue, media, favorite, sold, cleared, disturbed>>

BreakOffJob(j) ==
  /\ job[j].phase # "idle"
  /\ faults < MaxFaults /\ faults' = faults + 1
  /\ disturbed' = disturbed \cup {job[j].product}
  /\ End(j)
  /\ UNCHANGED <<catalogueRows, req, edits, clashed, shelf, cleared, adrift>>

JobStep(j) ==
  \/ \E p \in Products :
       \/ \E form \in Forms : Create(j, p, form) \/ Update(j, p, form)
       \/ \E approval \in {"approved", "rejected"} : Judge(j, p, approval)
       \/ \E b \in Buyers : AddFavorite(j, b, p)
       \/ \E item \in Variants \cup {None} : Checkout(j, p, item)
  \/ InsertProduct(j) \/ InsertVariant(j) \/ LinkMedia(j) \/ SaveValues(j)
  \/ ReadVariants(j) \/ CommitUpdate(j) \/ SaveVerdict(j) \/ InsertFavorite(j)
  \/ SellItem(j) \/ SaveStock(j)
  \/ BreakOffJob(j)

Next ==
  \/ CatalogueNext /\ UNCHANGED own
  \/ \E j \in Requests : JobStep(j)
  \/ \E p \in Products : RemoveProduct(p)
  \/ \E m \in Media :
       \/ \E p \in Products \cup {None} : UploadMedia(m, p)
       \/ \E p \in Products : AssignMedia(m, p)
       \/ RemoveMedia(m)
  \/ \E b \in Buyers, p \in Products : RemoveFavorite(b, p)
  \/ \E r \in Requests : EraseBrand(r) \/ \E b \in Brands : RemoveBrand(r, b)

Spec == Init /\ [][Next]_vars

------------------------------------------------------------------------------
(* Safety.                                                                  *)

Quiet(p) == p \notin disturbed /\ \A k \in Requests : ~At(k, p)

(* Where requests about a product did not overlap: it is listed when the    *)
(* rules or an administrator cleared it for the subcategory it was put in,  *)
(* and it was not removed since; nothing else lists it, and nothing else    *)
(* takes it off (products.service.ts:938, 1028).                            *)
QuietListing ==
  \A p \in Products : Quiet(p) /\ Exists(p) =>
    (Listed(p) <=> p \in cleared /\ ~product[p].deleted)

(* And from the time its variants were sent until one of them is sold or a  *)
(* stock is sent without them, its stock is that of the variants that are   *)
(* active, through edits, verdicts and sales before (products.service.ts:   *)
(* 462).                                                                    *)
QuietStockAddsUp ==
  \A p \in Products : Quiet(p) /\ Live(p) /\ p \notin adrift =>
    LET active == {v \in VariantsOf(p) : variant[v].active} IN
    active # {} => product[p].stock =
      SumFunctionOnSet([v \in active |-> variant[v].stock], active)

(* And nobody keeps a product that was removed among the favourites.        *)
QuietFavoritesAreLive ==
  \A f \in favorite : Quiet(f[2]) => Live(f[2])

------------------------------------------------------------------------------
(* What the code says and does not keep.                                    *)

(* "Una publicacion debe tener todos los campos obligatorios completos"     *)
(* (README.md:850): a request to publish, when it ends, has not left a      *)
(* listed product without the attributes its subcategory required.  create  *)
(* saves the product first and looks at its attributes last.                *)
ListedIsComplete ==
  [][\A j \in Requests, p \in Products :
       /\ job[j].phase = "values" /\ job[j].product = p
       /\ job'[j].phase = "idle" /\ job[j].incomplete
       /\ faults' = faults
       => ~Listed(p)']_vars
==============================================================================
