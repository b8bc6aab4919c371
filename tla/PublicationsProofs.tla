------------------------- MODULE PublicationsProofs -------------------------
(***************************************************************************)
(* Proofs about products and the catalogue they are filed in, for any      *)
(* products, variants, forms, brands, files and requests.                  *)
(***************************************************************************)
EXTENDS Publications, SumLemmas, TLAPS

USE CatalogueAssumption, CatalogueRowAssumption, PublicationsAssumption,
    PublicationRowAssumption

------------------------------------------------------------------------------
(* The invariants.                                                          *)

(* What a request on the catalogue carries in each phase.                   *)
Saves(x, t) == x.phase = "save" /\ x.table = t

ReqShape(x) ==
  /\ x.phase \in {"idle", "category", "save", "rename", "drop", "erase"}
  /\ (x.phase = "category" \/ Saves(x, "suggestion")) =>
       x.table = "suggestion" /\ x.id \in Suggestions /\ x.row.status \in Status
  /\ Saves(x, "sub") =>
       x.id \in SubCategories /\ x.row.names \in CategoryName \X SubCategoryName
  /\ Saves(x, "attribute") => x.id \in Attributes /\ x.row \in Attribute
  /\ Saves(x, "brand") => x.id \in Brands /\ x.row \in Brand
  /\ Saves(x, "color") => x.id \in Colors /\ x.row.hex \in Shades
  /\ x.phase \in {"rename", "erase"} => x.table = "brand" /\ x.id \in Brands
  /\ x.phase = "rename" => x.row \in Brand

(* What a request about a product carries.                                  *)
Creating == {"product", "variants", "media", "values"}

JobShape(x) ==
  /\ x.phase # "idle" => x.product \in Products
  /\ x.phase \in Creating \cup {"begin", "commit"} => x.form \in Forms
  /\ x.phase \in Creating => x.form.sub # None /\ x.form.keep = {}
  /\ x.phase = "product" /\ x.form.new = {} => x.form.stock # None
  /\ x.phase = "commit" /\ x.moves => x.form.sub # None
  /\ x.phase = "verdict" => x.row \in Product
  /\ x.phase = "favorite" => x.buyer \in Buyers
  /\ x.phase \in {"sale", "stock"} =>
       IF x.found = {} THEN x.row \in Product
       ELSE x.row \in Variant /\ x.row.product = x.product

Requesting ==
  /\ req = [r \in Requests |-> req[r]]
  /\ \A r \in Requests : ReqShape(req[r])

Typed ==
  /\ TypeOK /\ Requesting
  /\ \A j \in Requests : JobShape(job[j])

(* The files of logos: each is stored and of one brand only.                *)
LogosKept ==
  \A b \in Brands : brand[b] # None => brand[b].publicId \in stored \cup {None}

LogosApart ==
  \A b, c \in Brands :
    /\ brand[b] # None /\ brand[c] # None /\ b # c
    /\ brand[b].publicId = brand[c].publicId
    => brand[b].publicId = None

(* A file that was uploaded for a brand is nobody else's, and is not about  *)
(* to be deleted.                                                           *)
NewLogo(r) == req[r].row.publicId

NewLogosKept ==
  \A r \in Requests : AtSave(r, "brand") =>
    /\ NewLogo(r) \in stored /\ NewLogo(r) # None /\ req[r].row.logo = NewLogo(r)
    /\ \A b \in Brands : brand[b] # None => brand[b].publicId # NewLogo(r)
    /\ \A q \in Requests : req[q].file # NewLogo(r)
    /\ \A q \in Requests : AtSave(q, "brand") /\ q # r => NewLogo(q) # NewLogo(r)

(* A file that will be deleted is no brand's, or that of the brand whose    *)
(* row is to be replaced or erased first.                                   *)
OldLogosFree ==
  \A r \in Requests : \A b \in Brands :
    /\ req[r].file # None /\ brand[b] # None /\ brand[b].publicId = req[r].file
    => /\ req[r].phase = "erase" \/ AtSave(r, "brand")
       /\ req[r].id = b

(* A brand that comes back when it is renamed has no file to delete.        *)
RenamesKeepFile == \A r \in Requests : req[r].phase = "rename" => NewLogo(r) = None

(* A brand whose changes did not overlap.                                   *)
BrandCurrent ==
  \A b \in Brands : <<"brand", b>> \notin clashed =>
    /\ brand[b] # None => brand[b].logo = brand[b].publicId
    /\ \A r, q \in Requests : Uses(r, "brand", b) /\ Uses(q, "brand", b) => r = q
    /\ \A r \in Requests : Uses(r, "brand", b) /\ req[r].phase = "rename" =>
         brand[b] # None /\ req[r].row.logo = brand[b].logo

LogoInv ==
  /\ LogosKept /\ LogosApart
  /\ NewLogosKept /\ OldLogosFree /\ RenamesKeepFile
  /\ BrandCurrent

(* Ids of new variants are one request's own, and nobody inserted them      *)
(* before it does.                                                          *)
FormsApart ==
  \A j, k \in Requests :
    job[j].form # None /\ job[k].form # None /\ j # k =>
      job[j].form.new \cap job[k].form.new = {}

NewVariantsFree ==
  \A j \in Requests : \A v \in Variants :
    /\ job[j].phase \in {"product", "begin", "commit"} /\ v \in job[j].form.new =>
         variant[v] = None
    /\ job[j].phase = "variants" /\ v \in job[j].form.new /\ variant[v] # None =>
         variant[v].product = job[j].product

(* A variant is of a product there is.                                      *)
VariantsWhole ==
  \A v \in Variants : variant[v] # None => Exists(variant[v].product)

ActiveOf(p) == {v \in VariantsOf(p) : variant[v].active}

(* What a request x about a product is still right about.                   *)
Sees(x, p) ==
  /\ x.phase = "product" => ~Exists(p)
  /\ x.phase # "product" => Live(p)
  /\ x.phase = "variants" =>
       /\ VariantsOf(p) \subseteq x.form.new
       /\ \A v \in VariantsOf(p) :
            (variant[v].active <=> v \notin x.form.off) /\ variant[v].stock = 1
       /\ x.form.new # {}
       /\ product[p].stock = TotalStock(x.form)
  /\ x.phase = "commit" => x.found = VariantsOf(p) /\ x.form.keep \subseteq VariantsOf(p)
  /\ x.phase = "verdict" =>
       /\ x.row.stock = product[p].stock /\ ~x.row.deleted
       /\ x.row.active <=> x.row.approval = "approved"
  /\ x.phase \in {"sale", "stock"} /\ x.found = {} =>
       /\ ~x.row.deleted
       /\ x.row.active = product[p].active /\ x.row.approval = product[p].approval

(* A product on which requests did not overlap and none broke off.          *)
Alone(p) == \A j, k \in Requests : At(j, p) /\ At(k, p) => j = k

ListedAs(p) == Exists(p) => (Listed(p) <=> (p \in cleared /\ ~product[p].deleted))

(* The stock of a product is one piece of each variant that is active.      *)
Counted(p) ==
  /\ product[p].stock = Cardinality(ActiveOf(p))
  /\ \A v \in ActiveOf(p) : variant[v].stock = 1

StockAs(p) ==
  /\ Exists(p) /\ ActiveOf(p) # {} /\ p \notin adrift
  /\ \A j \in Requests : At(j, p) => job[j].phase # "variants"
  => Counted(p)

Kept(p) ==
  /\ Alone(p) /\ \A j \in Requests : At(j, p) => Sees(job[j], p)
  /\ ListedAs(p) /\ StockAs(p)

AllKept == \A p \in Products : p \notin disturbed => Kept(p)

FavoritesLive == \A f \in favorite : f[2] \notin disturbed => Live(f[2])

ShelfInv ==
  /\ FormsApart /\ NewVariantsFree /\ VariantsWhole
  /\ AllKept /\ FavoritesLive

------------------------------------------------------------------------------
(* Types.                                                                   *)

(* One request changes.                                                     *)
LEMMA ReqSet ==
  ASSUME Requesting, NEW r \in Requests, NEW x, ReqShape(x), req' = [req EXCEPT ![r] = x]
  PROVE  Requesting'
BY DEF Requesting

LEMMA IdleShape == ReqShape(Idle)
BY DEF ReqShape, Idle, Saves

LEMMA CloseShape ==
  ASSUME Requesting, NEW r \in Requests, Close(r)
  PROVE  Requesting'
BY ReqSet, IdleShape DEF Close

LEMMA OpenShape ==
  ASSUME Requesting, NEW r \in Requests, NEW t, NEW i, NEW w, Open(r, t, i, w),
         NEW x, x = [w EXCEPT !.table = t, !.id = i], ReqShape(x)
  PROVE  Requesting'
BY ReqSet DEF Open

(* Requests only count.                                                     *)
LEMMA OpenCounts ==
  ASSUME edits \in 0..MaxEdits, faults \in 0..MaxFaults,
         NEW r \in Requests, NEW t, NEW i, NEW w, Open(r, t, i, w)
  PROVE  edits' \in 0..MaxEdits /\ faults' \in 0..MaxFaults
BY DEF Open

(* What Saving leaves in a request.                                         *)
LEMMA SavingIs ==
  \A row, t, i :
    LET x == [Saving(row) EXCEPT !.table = t, !.id = i] IN
    x.phase = "save" /\ x.table = t /\ x.id = i /\ x.row = row /\ x.file = None
BY DEF Saving, Idle

LEMMA SavingWith ==
  \A row, t, i, p :
    LET x == [[Saving(row) EXCEPT !.phase = p] EXCEPT !.table = t, !.id = i] IN
    x.phase = p /\ x.table = t /\ x.id = i /\ x.row = row /\ x.file = None
BY DEF Saving, Idle

LEMMA SavingFile ==
  \A row, t, i, f :
    LET x == [[Saving(row) EXCEPT !.file = f] EXCEPT !.table = t, !.id = i] IN
    x.phase = "save" /\ x.table = t /\ x.id = i /\ x.row = row /\ x.file = f
BY DEF Saving, Idle

LEMMA ErasingIs ==
  \A t, i, f :
    LET x == [[Idle EXCEPT !.phase = "erase", !.file = f] EXCEPT !.table = t, !.id = i] IN
    x.phase = "erase" /\ x.table = t /\ x.id = i /\ x.file = f
BY DEF Idle

LEMMA CatalogueStepShape ==
  ASSUME CatalogueTypeOK, Requesting, NEW r \in Requests, CatalogueStep(r)
  PROVE  CatalogueTypeOK' /\ Requesting'
<1> USE DEF catalogueRows, bounds
<1>1. ReqShape(req[r])
  BY DEF Requesting
<1>2. ASSUME NEW t, NEW i, NEW w, Open(r, t, i, w), UNCHANGED catalogueRows
      PROVE  CatalogueTypeOK'
  BY <1>2, OpenCounts DEF CatalogueTypeOK
<1>3. ASSUME NEW s \in Suggestions, Approve(r, s)
      PROVE  CatalogueTypeOK' /\ Requesting'
  <2> DEFINE row == [status |-> "approved"]
             w == [Saving(row) EXCEPT !.phase = "category"]
             x == [w EXCEPT !.table = "suggestion", !.id = s]
  <2>1. row.status = "approved"
    OBVIOUS
  <2>2. Open(r, "suggestion", s, w) /\ UNCHANGED catalogueRows
    BY <1>3 DEF Approve
  <2> HIDE DEF row
  <2>3. x.phase = "category" /\ x.table = "suggestion" /\ x.id = s /\ x.row = row
    BY SavingWith
  <2> HIDE DEF x
  <2>4. ReqShape(x)
    BY <2>1, <2>3 DEF ReqShape, Saves, Status
  <2> QED
    BY <1>2, <2>2, <2>4, OpenShape DEF x
<1>4. ASSUME NEW t, NEW i, NEW row, Open(r, t, i, Saving(row)), UNCHANGED catalogueRows,
             \/ t = "suggestion" /\ i \in Suggestions /\ row.status \in Status
             \/ t = "sub" /\ i \in SubCategories
                  /\ row.names \in CategoryName \X SubCategoryName
             \/ t = "attribute" /\ i \in Attributes /\ row \in Attribute
             \/ t = "color" /\ i \in Colors /\ row.hex \in Shades
      PROVE  CatalogueTypeOK' /\ Requesting'
  <2> DEFINE x == [Saving(row) EXCEPT !.table = t, !.id = i]
  <2>1. x.phase = "save" /\ x.table = t /\ x.id = i /\ x.row = row
    BY SavingIs
  <2> HIDE DEF x
  <2>2. ReqShape(x)
    BY <1>4, <2>1 DEF ReqShape, Saves
  <2> QED
    BY <1>2, <1>4, <2>2, OpenShape DEF x
<1>5. ASSUME NEW s \in Suggestions, Reject(r, s)
      PROVE  CatalogueTypeOK' /\ Requesting'
  <2>1. [status |-> "rejected"].status \in Status
    BY DEF Status
  <2> QED
    BY <1>4, <1>5, <2>1 DEF Reject
<1>6. CASE SaveSuggestedCategory(r)
  <2>1. CatalogueTypeOK'
    BY <1>6 DEF SaveSuggestedCategory, CatalogueTypeOK
  <2> DEFINE x == [req[r] EXCEPT !.phase = "save"]
  <2>2. x.phase = "save" /\ x.table = req[r].table /\ x.id = req[r].id /\ x.row = req[r].row
    BY <1>1, <1>6 DEF SaveSuggestedCategory
  <2> HIDE DEF x
  <2>3. ReqShape(x)
    BY <1>1, <1>6, <2>2 DEF SaveSuggestedCategory, ReqShape, Saves
  <2> QED
    BY <1>6, <2>1, <2>3, ReqSet, CloseShape DEF SaveSuggestedCategory, x
<1>7. CASE SaveSuggestion(r)
  <2>1. req[r].id \in Suggestions /\ req[r].row.status \in Status
    BY <1>1, <1>7 DEF SaveSuggestion, AtSave, ReqShape, Saves
  <2> QED
    BY <1>7, <2>1, CloseShape DEF SaveSuggestion, CatalogueTypeOK
<1>8. ASSUME NEW s \in SubCategories, NEW names \in CategoryName \X SubCategoryName,
             UpdateSubCategory(r, s, names)
      PROVE  CatalogueTypeOK' /\ Requesting'
  <2>1. [names |-> names].names = names
    OBVIOUS
  <2> QED
    BY <1>4, <1>8, <2>1 DEF UpdateSubCategory
<1>9. CASE SaveSubCategory(r)
  <2>1. req[r].id \in SubCategories /\ req[r].row.names \in CategoryName \X SubCategoryName
    BY <1>1, <1>9 DEF SaveSubCategory, AtSave, ReqShape, Saves
  <2> QED
    BY <1>9, <2>1, CloseShape DEF SaveSubCategory, CatalogueTypeOK
<1>10. ASSUME NEW a \in Attributes, NEW required \in BOOLEAN, NEW appliesTo \in AppliesTo,
              NEW sent \in {None, "variant_size"},
              EditAttribute(r, a, required, appliesTo, sent)
       PROVE  CatalogueTypeOK' /\ Requesting'
  <2> DEFINE u == UsageOf(appliesTo, sent)
             row == [required |-> required, appliesTo |-> appliesTo, usage |-> u]
  <2>1. u \in Usage /\ (appliesTo = "PRODUCT" <=> u = "product_attribute")
    BY <1>10 DEF EditAttribute, Matches, UsageOf, DefaultUsage, Usage
  <2>2. Open(r, "attribute", a, Saving(row)) /\ UNCHANGED catalogueRows
    BY <1>10 DEF EditAttribute
  <2> HIDE DEF u
  <2>3. row \in Attribute
    BY <2>1 DEF Attribute
  <2> HIDE DEF row
  <2> QED
    BY <1>4, <2>2, <2>3
<1>11. CASE SaveAttribute(r)
  <2>1. req[r].id \in Attributes /\ req[r].row \in Attribute
    BY <1>1, <1>11 DEF SaveAttribute, AtSave, ReqShape, Saves
  <2> QED
    BY <1>11, <2>1, CloseShape DEF SaveAttribute, CatalogueTypeOK
<1>12. ASSUME NEW b \in Brands, UpdateBrand(r, b)
       PROVE  CatalogueTypeOK' /\ Requesting'
  <2> DEFINE row == [logo |-> brand[b].logo, publicId |-> None]
             w == [Saving(row) EXCEPT !.phase = "rename"]
             x == [w EXCEPT !.table = "brand", !.id = b]
  <2>1. row \in Brand
    BY <1>12 DEF UpdateBrand, CatalogueTypeOK, Brand
  <2>2. Open(r, "brand", b, w) /\ UNCHANGED catalogueRows
    BY <1>12 DEF UpdateBrand
  <2> HIDE DEF row
  <2>3. x.phase = "rename" /\ x.table = "brand" /\ x.id = b /\ x.row = row
    BY SavingWith
  <2> HIDE DEF x
  <2>4. ReqShape(x)
    BY <2>1, <2>3 DEF ReqShape, Saves
  <2> QED
    BY <1>2, <2>2, <2>4, OpenShape DEF x
<1>13. ASSUME NEW b \in Brands, NEW f \in Files, UploadLogo(r, b, f)
       PROVE  CatalogueTypeOK' /\ Requesting'
  <2> DEFINE row == [logo |-> f, publicId |-> f]
             w == [Saving(row) EXCEPT !.file = brand[b].publicId]
             x == [w EXCEPT !.table = "brand", !.id = b]
  <2>1. row \in Brand
    BY DEF Brand
  <2>2. /\ Open(r, "brand", b, w) /\ stored' = stored \cup {f}
        /\ UNCHANGED <<suggestion, suggested, filed, attribute, brand, shade>>
    BY <1>13 DEF UploadLogo, OpenUpload
  <2> HIDE DEF row
  <2>3. x.phase = "save" /\ x.table = "brand" /\ x.id = b /\ x.row = row
    BY SavingFile
  <2> HIDE DEF x
  <2>4. ReqShape(x)
    BY <2>1, <2>3 DEF ReqShape, Saves
  <2>5. Requesting'
    BY <2>2, <2>4, OpenShape DEF x
  <2> HIDE DEF w
  <2>6. CatalogueTypeOK'
    BY <2>2, OpenCounts DEF CatalogueTypeOK
  <2> QED
    BY <2>5, <2>6
<1>14. CASE SaveBrandName(r)
  <2>1. req[r].id \in Brands /\ req[r].row \in Brand
    BY <1>1, <1>14 DEF SaveBrandName, ReqShape
  <2>2. brand' \in [Brands -> Brand \cup {None}]
    BY <1>14, <2>1 DEF SaveBrandName, CatalogueTypeOK, Brand
  <2> QED
    BY <1>14, <2>2, CloseShape DEF SaveBrandName, CatalogueTypeOK
<1>15. CASE SaveBrand(r)
  <2>1. req[r].id \in Brands /\ req[r].row \in Brand
    BY <1>1, <1>15 DEF SaveBrand, AtSave, ReqShape, Saves
  <2>2. CatalogueTypeOK'
    BY <1>15, <2>1 DEF SaveBrand, CatalogueTypeOK
  <2> DEFINE x == [req[r] EXCEPT !.phase = "drop"]
  <2>3. x.phase = "drop"
    BY <1>15 DEF SaveBrand, AtSave
  <2> HIDE DEF x
  <2>4. ReqShape(x)
    BY <2>3 DEF ReqShape, Saves
  <2> QED
    BY <1>15, <2>2, <2>4, ReqSet, CloseShape DEF SaveBrand, x
<1>16. CASE DropFile(r)
  BY <1>16, CloseShape DEF DropFile, CatalogueTypeOK
<1>17. ASSUME NEW c \in Colors, NEW h \in Shades, EditColor(r, c, h)
       PROVE  CatalogueTypeOK' /\ Requesting'
  <2>1. [hex |-> h].hex = h
    OBVIOUS
  <2> QED
    BY <1>4, <1>17, <2>1 DEF EditColor
<1>18. CASE SaveColor(r)
  <2>1. req[r].id \in Colors /\ req[r].row.hex \in Shades
    BY <1>1, <1>18 DEF SaveColor, AtSave, ReqShape, Saves
  <2>2. shade' \in [Colors -> Shades \cup {None}]
    BY <1>18, <2>1 DEF SaveColor, CatalogueTypeOK
  <2> QED
    BY <1>18, <2>2, CloseShape DEF SaveColor, CatalogueTypeOK
<1>19. CASE BreakOff(r)
  BY <1>19, CloseShape DEF BreakOff, CatalogueTypeOK
<1> QED
  BY <1>3, <1>5, <1>6, <1>7, <1>8, <1>9, <1>10, <1>11, <1>12, <1>13, <1>14, <1>15, <1>16,
     <1>17, <1>18, <1>19 DEF CatalogueStep

LEMMA CatalogueShape ==
  ASSUME CatalogueTypeOK, Requesting,
         \/ CatalogueNext
         \/ \E r \in Requests : EraseBrand(r) \/ \E b \in Brands : RemoveBrand(r, b)
  PROVE  CatalogueTypeOK' /\ Requesting'
<1>1. CASE \E r \in Requests : CatalogueStep(r)
  BY <1>1, CatalogueStepShape
<1>2. CASE RemoveCategory
  <2>1. edits' \in 0..MaxEdits
    BY <1>2 DEF RemoveCategory, CatalogueTypeOK
  <2>2. suggested' \in BOOLEAN
    BY <1>2 DEF RemoveCategory
  <2>3. UNCHANGED <<suggestion, filed, attribute, brand, stored, shade, req, faults>>
    BY <1>2 DEF RemoveCategory
  <2> QED
    BY <2>1, <2>2, <2>3 DEF CatalogueTypeOK, Requesting
<1>3. ASSUME NEW a \in Attributes, RemoveAttribute(a)
      PROVE  CatalogueTypeOK' /\ Requesting'
  BY <1>3 DEF RemoveAttribute, CatalogueTypeOK, Requesting
<1>4. ASSUME NEW c \in Colors, RemoveColor(c)
      PROVE  CatalogueTypeOK' /\ Requesting'
  BY <1>4 DEF RemoveColor, CatalogueTypeOK, Requesting
<1>5. ASSUME NEW r \in Requests, EraseBrand(r)
      PROVE  CatalogueTypeOK' /\ Requesting'
  <2>1. ReqShape(req[r]) /\ req[r].phase = "erase"
    BY <1>5 DEF Requesting, EraseBrand
  <2>2. CatalogueTypeOK'
    BY <1>5, <2>1 DEF EraseBrand, CatalogueTypeOK, bounds, ReqShape
  <2> DEFINE x == [req[r] EXCEPT !.phase = "drop"]
  <2>3. x.phase = "drop"
    BY <2>1
  <2> HIDE DEF x
  <2>4. ReqShape(x)
    BY <2>3 DEF ReqShape, Saves
  <2> QED
    BY <1>5, <2>2, <2>4, ReqSet, CloseShape DEF EraseBrand, x
<1>6. ASSUME NEW r \in Requests, NEW b \in Brands, RemoveBrand(r, b)
      PROVE  CatalogueTypeOK' /\ Requesting'
  <2> DEFINE w == [Idle EXCEPT !.phase = "erase", !.file = brand[b].publicId]
             x == [w EXCEPT !.table = "brand", !.id = b]
  <2>1. x.phase = "erase" /\ x.table = "brand" /\ x.id = b
    BY ErasingIs
  <2>2. Open(r, "brand", b, w) /\ UNCHANGED catalogueRows
    BY <1>6 DEF RemoveBrand
  <2> HIDE DEF x
  <2>3. ReqShape(x)
    BY <2>1 DEF ReqShape, Saves
  <2>4. Requesting'
    BY <2>2, <2>3, OpenShape DEF x
  <2> HIDE DEF w
  <2>5. CatalogueTypeOK'
    BY <2>2, OpenCounts DEF CatalogueTypeOK, catalogueRows
  <2> QED
    BY <2>4, <2>5
<1> QED
  BY <1>1, <1>2, <1>3, <1>4, <1>5, <1>6 DEF CatalogueNext

(* Counting another edit or fault changes no row of the catalogue.          *)
LEMMA CatalogueCounts ==
  ASSUME CatalogueTypeOK, Requesting,
         edits' \in 0..MaxEdits, faults' \in 0..MaxFaults,
         UNCHANGED <<catalogueRows, req>>
  PROVE  CatalogueTypeOK' /\ Requesting'
BY DEF CatalogueTypeOK, Requesting, catalogueRows

(* The rows about products.                                                 *)
Shelved ==
  /\ product \in [Products -> Product \cup {None}]
  /\ variant \in [Variants -> Variant \cup {None}]
  /\ media \in [Media -> Products \cup {None, "loose"}]
  /\ favorite \subseteq Buyers \X Products
  /\ sold \subseteq Products
  /\ cleared \subseteq Products /\ disturbed \subseteq Products
  /\ adrift \subseteq Products

Working ==
  /\ job \in [Requests -> Job]
  /\ \A j \in Requests : JobShape(job[j])

LEMMA TypedParts == Typed <=> CatalogueTypeOK /\ Requesting /\ Shelved /\ Working
BY DEF Typed, TypeOK, Shelved, Working

LEMMA RestShape == Rest \in Job /\ JobShape(Rest)
BY DEF Rest, Job, JobShape, Creating

LEMMA JobSet ==
  ASSUME Working, NEW j \in Requests, NEW x, x \in Job, JobShape(x),
         job' = [job EXCEPT ![j] = x]
  PROVE  Working'
BY DEF Working

LEMMA EndShape ==
  ASSUME Working, NEW j \in Requests, End(j)
  PROVE  Working'
BY JobSet, RestShape DEF End

LEMMA GoesShape ==
  ASSUME Working, NEW j \in Requests, NEW p \in {"variants", "media", "values"},
         job[j].phase \in Creating, Goes(j, p)
  PROVE  Working'
<1>1. job[j] \in Job /\ JobShape(job[j])
  BY DEF Working
<1> DEFINE x == [job[j] EXCEPT !.phase = p]
<1>2. x \in Job
  BY <1>1 DEF Job
<1>3. /\ x.phase = p /\ x.product = job[j].product /\ x.form = job[j].form
      /\ x.moves = job[j].moves
  BY <1>1 DEF Job
<1> HIDE DEF x
<1>4. JobShape(x)
  BY <1>1, <1>3 DEF JobShape, Creating
<1>5. job' = [job EXCEPT ![j] = x]
  BY DEF Goes, x
<1> QED
  BY <1>2, <1>4, <1>5, JobSet

LEMMA OverlapType ==
  ASSUME disturbed \subseteq Products, NEW p \in Products
  PROVE  Overlap(p) \subseteq Products
BY DEF Overlap

LEMMA BeginShape ==
  ASSUME Typed, NEW j \in Requests, NEW p \in Products, NEW w, Begin(j, p, w),
         NEW x, x = [w EXCEPT !.product = p], x \in Job, JobShape(x)
  PROVE  Typed'
<1>1. Working'
  BY JobSet, TypedParts DEF Begin
<1>2. Shelved'
  BY OverlapType, TypedParts DEF Begin, Shelved, shelf
<1>3. CatalogueTypeOK' /\ Requesting'
  <2>1. edits' \in 0..MaxEdits /\ UNCHANGED <<catalogueRows, req, faults>>
    BY TypedParts DEF Begin, filing, CatalogueTypeOK
  <2> QED
    BY <2>1, CatalogueCounts, TypedParts DEF CatalogueTypeOK
<1> QED
  BY <1>1, <1>2, <1>3 DEF Typed, TypeOK, Shelved, Working

(* The stock of a product that is sent is a number.                         *)
LEMMA TotalStockType ==
  ASSUME NEW form \in Forms, Sent(form) # {} \/ form.stock # None
  PROVE  /\ IsFiniteSet(Sent(form))
         /\ TotalStock(form) \in Nat
<1>1. Sent(form) \subseteq Variants
  BY DEF Sent, Form
<1>2. IsFiniteSet(Sent(form)) /\ IsFiniteSet(Sent(form) \ form.off)
  BY <1>1, FS_Subset
<1>3. form.stock \in Nat \cup {None}
  BY DEF Form
<1> QED
  BY <1>2, <1>3, FS_CardinalityType DEF TotalStock

LEMMA AsSentType ==
  ASSUME NEW p \in Products, NEW form, NEW v
  PROVE  AsSent(p, form, v) \in Variant
BY DEF AsSent, Variant

LEMMA ApprovalType ==
  ASSUME NEW s \in BOOLEAN
  PROVE  ApprovalStateFor(s).active \in BOOLEAN /\ ApprovalStateFor(s).approval \in Status
BY DEF ApprovalStateFor, Status

(* A step that leaves the catalogue as it is keeps the types of the rest.   *)
LEMMA TypedRest ==
  ASSUME Typed, edits' \in 0..MaxEdits, faults' \in 0..MaxFaults,
         UNCHANGED <<catalogueRows, req>>, Shelved', Working'
  PROVE  Typed'
<1>1. CatalogueTypeOK' /\ Requesting'
  BY CatalogueCounts DEF Typed, TypeOK
<1> QED
  BY <1>1 DEF Typed, TypeOK, Shelved, Working

LEMMA TypedSame ==
  ASSUME Typed, UNCHANGED catalogue, Shelved', Working'
  PROVE  Typed'
<1>1. edits' \in 0..MaxEdits /\ faults' \in 0..MaxFaults /\ UNCHANGED <<catalogueRows, req>>
  BY DEF catalogue, bounds, Typed, TypeOK, CatalogueTypeOK
<1> QED
  BY <1>1, TypedRest

LEMMA TypedCounted ==
  ASSUME Typed, edits < MaxEdits, edits' = edits + 1,
         UNCHANGED <<catalogueRows, req, faults>>, Shelved', Working'
  PROVE  Typed'
<1>1. edits' \in 0..MaxEdits /\ faults' \in 0..MaxFaults
  BY DEF Typed, TypeOK, CatalogueTypeOK
<1> QED
  BY <1>1, TypedRest

LEMMA FormIs ==
  ASSUME NEW form \in Forms
  PROVE  /\ form # None
         /\ form.sub \in SubCategories \cup {None} /\ form.brand \in Brands \cup {None}
         /\ form.keep \subseteq Variants /\ form.new \subseteq Variants
         /\ form.off \subseteq Variants
         /\ form.media \subseteq Media /\ form.values \subseteq Attributes
BY DEF Form

LEMMA JobIs ==
  ASSUME Typed, NEW j \in Requests
  PROVE  job[j] \in Job /\ JobShape(job[j])
BY DEF Typed, TypeOK

LEMMA SensitiveType ==
  ASSUME NEW s
  PROVE  Sensitive(s) \in BOOLEAN
BY DEF Sensitive, RequiresManualApproval

(* What a request carries after it has begun.                               *)
LEMMA CreateShape ==
  ASSUME Typed, NEW j \in Requests, NEW p \in Products, NEW form \in Forms,
         Create(j, p, form)
  PROVE  Typed'
<1> DEFINE lacking == Lacking(form, form.sub)
           incomplete == Incomplete(form, form.sub)
           sensitive == Sensitive(form.sub)
           w == [Rest EXCEPT !.phase = "product", !.form = form, !.lacking = lacking,
                   !.incomplete = incomplete, !.sensitive = sensitive]
           x == [w EXCEPT !.product = p]
<1>1. lacking \in BOOLEAN /\ incomplete \in BOOLEAN /\ sensitive \in BOOLEAN
  BY SensitiveType DEF Lacking, Incomplete
<1>2. Begin(j, p, w) /\ form.sub # None /\ form.keep = {}
      /\ (form.new = {} => form.stock # None)
  BY DEF Create
<1> HIDE DEF lacking, incomplete, sensitive
<1>3. /\ x \in Job
      /\ x.phase = "product" /\ x.product = p /\ x.form = form /\ x.moves = FALSE
  BY <1>1 DEF Rest, Job
<1> HIDE DEF x
<1>4. JobShape(x)
  BY <1>2, <1>3 DEF JobShape, Creating
<1> QED
  BY <1>2, <1>3, <1>4, BeginShape DEF x

LEMMA UpdateShape ==
  ASSUME Typed, NEW j \in Requests, NEW p \in Products, NEW form \in Forms,
         Update(j, p, form)
  PROVE  Typed'
<1> DEFINE lacking == form.sub # None /\ Lacking(form, form.sub)
           sensitive == form.sub # None /\ Sensitive(form.sub)
           w == [Rest EXCEPT !.phase = "begin", !.form = form, !.lacking = lacking,
                   !.sensitive = sensitive]
           x == [w EXCEPT !.product = p]
<1>1. lacking \in BOOLEAN /\ sensitive \in BOOLEAN
  OBVIOUS
<1>2. Begin(j, p, w)
  BY DEF Update
<1> HIDE DEF lacking, sensitive
<1>3. /\ x \in Job
      /\ x.phase = "begin" /\ x.product = p /\ x.form = form /\ x.moves = FALSE
  BY <1>1 DEF Rest, Job
<1> HIDE DEF x
<1>4. JobShape(x)
  BY <1>3 DEF JobShape, Creating
<1> QED
  BY <1>2, <1>3, <1>4, BeginShape DEF x

(* The row an administrator saves.                                          *)
Judged(p, approval) ==
  [product[p] EXCEPT !.approval = approval, !.active = approval = "approved"]

LEMMA JudgedIs ==
  ASSUME Typed, NEW p \in Products, product[p] # None, NEW approval \in Status
  PROVE  LET row == Judged(p, approval) IN
         /\ row \in Product
         /\ row.approval = approval /\ row.active = (approval = "approved")
         /\ row.stock = product[p].stock /\ row.deleted = product[p].deleted
<1>1. product[p] \in Product
  BY DEF Typed, TypeOK
<1>2. (approval = "approved") \in BOOLEAN
  OBVIOUS
<1> QED
  BY <1>1, <1>2 DEF Judged, Product

LEMMA JudgeShape ==
  ASSUME Typed, NEW j \in Requests, NEW p \in Products, NEW approval \in Status,
         Judge(j, p, approval)
  PROVE  Typed'
<1> DEFINE row == Judged(p, approval)
           w == [Rest EXCEPT !.phase = "verdict", !.row = row]
           x == [w EXCEPT !.product = p]
<1>1. Begin(j, p, w)
  BY DEF Judge, Judged
<1>2. row \in Product
  BY JudgedIs DEF Judge, Live, Exists
<1> HIDE DEF row
<1>3. /\ x \in Job
      /\ x.phase = "verdict" /\ x.product = p /\ x.row = row
  BY <1>2 DEF Rest, Job
<1> HIDE DEF x
<1>4. JobShape(x)
  BY <1>2, <1>3 DEF JobShape, Creating
<1> QED
  BY <1>1, <1>3, <1>4, BeginShape DEF x

LEMMA AddFavoriteShape ==
  ASSUME Typed, NEW j \in Requests, NEW p \in Products, NEW b \in Buyers,
         AddFavorite(j, b, p)
  PROVE  Typed'
<1> DEFINE w == [Rest EXCEPT !.phase = "favorite", !.buyer = b]
           x == [w EXCEPT !.product = p]
<1>1. Begin(j, p, w)
  BY DEF AddFavorite
<1>2. /\ x \in Job
      /\ x.phase = "favorite" /\ x.product = p /\ x.buyer = b
  BY DEF Rest, Job
<1> HIDE DEF x
<1>3. JobShape(x)
  BY <1>2 DEF JobShape, Creating
<1> QED
  BY <1>1, <1>2, <1>3, BeginShape DEF x

(* The row a new product gets.                                              *)
Inserted(form, sensitive) ==
  [sub |-> form.sub, brand |-> form.brand, active |-> ApprovalStateFor(sensitive).active,
   approval |-> ApprovalStateFor(sensitive).approval, deleted |-> FALSE,
   stock |-> TotalStock(form), values |-> {}]

LEMMA InsertedType ==
  ASSUME NEW form \in Forms, form.sub # None, NEW s \in BOOLEAN,
         form.new = {} => form.stock # None
  PROVE  Inserted(form, s) \in Product
<1>1. TotalStock(form) \in Nat
  BY TotalStockType DEF Sent
<1> QED
  BY <1>1, FormIs, ApprovalType DEF Inserted, Product

LEMMA InsertProductShape ==
  ASSUME Typed, NEW j \in Requests, InsertProduct(j)
  PROVE  Typed'
<1> DEFINE p == job[j].product
           form == job[j].form
           s == job[j].sensitive
<1>1. /\ job[j].phase = "product" /\ p \in Products /\ form \in Forms /\ form.sub # None
      /\ s \in BOOLEAN /\ (form.new = {} => form.stock # None)
  BY JobIs DEF InsertProduct, JobShape, Creating, Job
<1>2. UNCHANGED <<catalogue, variant, media, favorite, sold, disturbed>>
  BY DEF InsertProduct
<1>3. Shelved /\ Working
  BY TypedParts
<1>4. CASE BrandIsGone(form)
  <2>1. End(j) /\ UNCHANGED <<product, cleared, adrift>>
    BY <1>4 DEF InsertProduct
  <2>2. Shelved'
    BY <1>2, <1>3, <2>1 DEF Shelved
  <2> QED
    BY <1>2, <1>3, <2>1, <2>2, EndShape, TypedSame
<1>5. CASE ~BrandIsGone(form)
  <2>1. /\ product' = [product EXCEPT ![p] = Inserted(form, s)]
        /\ cleared' = IF s THEN cleared \ {p} ELSE cleared \cup {p}
        /\ adrift' = adrift \ {p}
        /\ Goes(j, IF form.new = {} THEN "media" ELSE "variants")
    BY <1>5 DEF InsertProduct, Inserted
  <2>2. Inserted(form, s) \in Product
    BY <1>1, InsertedType
  <2>3. Shelved'
    BY <1>1, <1>2, <1>3, <2>1, <2>2 DEF Shelved
  <2>4. Working'
    BY <1>1, <1>3, <2>1, GoesShape DEF Creating
  <2> QED
    BY <1>2, <2>3, <2>4, TypedSame
<1> QED
  BY <1>4, <1>5

LEMMA InsertVariantShape ==
  ASSUME Typed, NEW j \in Requests, InsertVariant(j)
  PROVE  Typed'
<1> DEFINE p == job[j].product
           form == job[j].form
           todo == {v \in form.new : variant[v] = None}
<1>1. /\ job[j].phase = "variants" /\ p \in Products /\ form \in Forms
  BY JobIs DEF InsertVariant, JobShape, Creating
<1>2. UNCHANGED <<catalogue, product, media, favorite, sold, cleared, adrift>>
  BY DEF InsertVariant
<1>3. Shelved /\ Working
  BY TypedParts
<1>4. CASE End(j) /\ disturbed' = disturbed \cup {p} /\ UNCHANGED variant
  <2>1. Shelved'
    BY <1>1, <1>2, <1>3, <1>4 DEF Shelved
  <2> QED
    BY <1>2, <1>3, <1>4, <2>1, EndShape, TypedSame
<1>5. CASE Goes(j, "media") /\ UNCHANGED <<variant, disturbed>>
  <2>1. Shelved'
    BY <1>2, <1>3, <1>5 DEF Shelved
  <2>2. Working'
    BY <1>1, <1>3, <1>5, GoesShape DEF Creating
  <2> QED
    BY <1>2, <2>1, <2>2, TypedSame
<1>6. ASSUME UNCHANGED <<job, disturbed>>, NEW v \in todo,
             variant' = [variant EXCEPT ![v] = AsSent(p, form, v)]
      PROVE  Typed'
  <2>1. AsSent(p, form, v) \in Variant
    BY <1>1, AsSentType
  <2>2. Shelved'
    BY <1>2, <1>3, <1>6, <2>1 DEF Shelved
  <2>3. Working'
    BY <1>3, <1>6 DEF Working
  <2> QED
    BY <1>2, <2>2, <2>3, TypedSame
<1> QED
  BY <1>4, <1>5, <1>6 DEF InsertVariant

LEMMA LinkMediaShape ==
  ASSUME Typed, NEW j \in Requests, LinkMedia(j)
  PROVE  Typed'
<1> DEFINE p == job[j].product
<1>1. job[j].phase = "media" /\ p \in Products
  BY JobIs DEF LinkMedia, JobShape
<1>2. UNCHANGED <<catalogue, product, variant, favorite, sold, cleared, disturbed, adrift>>
  BY DEF LinkMedia, shown
<1>3. Shelved /\ Working
  BY TypedParts
<1>4. media' \in [Media -> Products \cup {None, "loose"}]
  BY <1>1, <1>3 DEF LinkMedia, Shelved
<1>5. Shelved'
  BY <1>2, <1>3, <1>4 DEF Shelved
<1>6. Working'
  BY <1>1, <1>3, GoesShape, EndShape DEF Creating, LinkMedia
<1> QED
  BY <1>2, <1>5, <1>6, TypedSame

(* What a new product becomes with its values.                              *)
Valued(p, values) == [product[p] EXCEPT !.values = values]

LEMMA ValuedIs ==
  ASSUME NEW p, product[p] \in Product, NEW values \in SUBSET Attributes
  PROVE  LET row == Valued(p, values) IN
         /\ row \in Product /\ row.active = product[p].active
         /\ row.approval = product[p].approval /\ row.deleted = product[p].deleted
         /\ row.stock = product[p].stock
BY DEF Valued, Product

LEMMA SaveValuesShape ==
  ASSUME Typed, NEW j \in Requests, SaveValues(j)
  PROVE  Typed'
<1> DEFINE p == job[j].product
           values == {a \in job[j].form.values : attribute[a] # None}
<1>1. /\ job[j].phase = "values" /\ p \in Products /\ job[j].form \in Forms
  BY JobIs DEF SaveValues, JobShape, Creating
<1>2. UNCHANGED <<catalogue, variant, media, favorite, sold, cleared, disturbed, adrift>>
  BY DEF SaveValues, shown
<1>3. Shelved /\ Working /\ End(j)
  BY TypedParts DEF SaveValues
<1>4. product' \in [Products -> Product \cup {None}]
  <2>1. values \in SUBSET Attributes
    BY <1>1, FormIs
  <2>2. CASE Exists(p) /\ ~job[j].incomplete
    <3>1. product' = [product EXCEPT ![p] = Valued(p, values)]
      BY <2>2 DEF SaveValues, Valued
    <3>2. product[p] \in Product
      BY <1>1, <1>3, <2>2 DEF Exists, Shelved
    <3> HIDE DEF values
    <3> QED
      BY <1>3, <2>1, <3>1, <3>2, ValuedIs DEF Shelved
  <2>3. CASE ~(Exists(p) /\ ~job[j].incomplete)
    BY <1>3, <2>3 DEF SaveValues, Shelved
  <2> QED
    BY <2>2, <2>3
<1>5. Shelved'
  BY <1>2, <1>3, <1>4 DEF Shelved
<1> QED
  BY <1>2, <1>3, <1>5, EndShape, TypedSame

LEMMA ReadVariantsShape ==
  ASSUME Typed, NEW j \in Requests, ReadVariants(j)
  PROVE  Typed'
<1> DEFINE p == job[j].product
           form == job[j].form
           moves == form.sub # None /\ form.sub # product[p].sub
<1>1. job[j] \in Job /\ JobShape(job[j]) /\ job[j].phase = "begin"
  BY JobIs DEF ReadVariants
<1>2. UNCHANGED catalogue /\ UNCHANGED shelf /\ UNCHANGED shown
  BY DEF ReadVariants
<1>3. Shelved /\ Working
  BY TypedParts
<1>4. Shelved'
  BY <1>2, <1>3 DEF Shelved, shelf, shown
<1>5. CASE End(j)
  BY <1>2, <1>3, <1>4, <1>5, EndShape, TypedSame
<1>6. CASE job' = [job EXCEPT ![j].phase = "commit", ![j].found = VariantsOf(p),
                     ![j].moves = moves]
  <2> DEFINE x == [job[j] EXCEPT !.phase = "commit", !.found = VariantsOf(p),
                     !.moves = moves]
  <2>1. moves \in BOOLEAN /\ (moves => form.sub # None)
    OBVIOUS
  <2>2. VariantsOf(p) \in SUBSET Variants
    BY DEF VariantsOf
  <2> HIDE DEF moves
  <2>3. /\ x \in Job
        /\ x.phase = "commit" /\ x.product = p /\ x.form = form /\ x.moves = moves
    BY <1>1, <2>1, <2>2 DEF Job
  <2>4. job' = [job EXCEPT ![j] = x]
    BY <1>6
  <2> HIDE DEF x
  <2>5. JobShape(x)
    BY <1>1, <2>1, <2>3 DEF JobShape, Creating
  <2> QED
    BY <1>2, <1>3, <1>4, <2>3, <2>4, <2>5, JobSet, TypedSame
<1> QED
  BY <1>5, <1>6 DEF ReadVariants

(* The row the commit of update writes.                                     *)
Edited(p, form) ==
  [product[p] EXCEPT
     !.stock = IF Sent(form) # {} \/ form.stock # None THEN TotalStock(form) ELSE @,
     !.brand = IF form.brand # None THEN form.brand ELSE @]

Moved(row, form, sensitive) ==
  [row EXCEPT !.sub = form.sub, !.active = ApprovalStateFor(sensitive).active,
              !.approval = ApprovalStateFor(sensitive).approval]

LEMMA EditedIs ==
  ASSUME NEW p, product[p] \in Product, NEW form \in Forms
  PROVE  LET row == Edited(p, form) IN
         /\ row \in Product
         /\ row.active = product[p].active /\ row.approval = product[p].approval
         /\ row.deleted = product[p].deleted
         /\ row.stock = IF Sent(form) # {} \/ form.stock # None
                        THEN TotalStock(form) ELSE product[p].stock
<1> DEFINE n == IF Sent(form) # {} \/ form.stock # None
                THEN TotalStock(form) ELSE product[p].stock
           b == IF form.brand # None THEN form.brand ELSE product[p].brand
<1>1. n \in Nat /\ b \in Brands \cup {None}
  BY TotalStockType, FormIs DEF Product
<1>2. Edited(p, form) = [product[p] EXCEPT !.stock = n, !.brand = b]
  BY DEF Edited
<1> HIDE DEF n, b
<1>3. /\ Edited(p, form) \in Product
      /\ Edited(p, form).active = product[p].active
      /\ Edited(p, form).approval = product[p].approval
      /\ Edited(p, form).deleted = product[p].deleted
      /\ Edited(p, form).stock = n
  BY <1>1, <1>2 DEF Product
<1> QED
  BY <1>3 DEF n

LEMMA MovedIs ==
  ASSUME NEW r \in Product, NEW form \in Forms, form.sub # None, NEW s \in BOOLEAN
  PROVE  LET row == Moved(r, form, s) IN
         /\ row \in Product
         /\ row.active = ~s /\ row.approval = (IF s THEN "pending" ELSE "approved")
         /\ row.deleted = r.deleted /\ row.stock = r.stock
<1> DEFINE state == ApprovalStateFor(s)
<1>1. state.active = ~s /\ state.approval = IF s THEN "pending" ELSE "approved"
  BY DEF ApprovalStateFor
<1>2. state.active \in BOOLEAN /\ state.approval \in Status
  BY ApprovalType
<1>3. Moved(r, form, s) = [r EXCEPT !.sub = form.sub, !.active = state.active,
                                    !.approval = state.approval]
  BY DEF Moved
<1> HIDE DEF state
<1>4. /\ Moved(r, form, s) \in Product
      /\ Moved(r, form, s).active = state.active
      /\ Moved(r, form, s).approval = state.approval
      /\ Moved(r, form, s).deleted = r.deleted
      /\ Moved(r, form, s).stock = r.stock
  BY <1>2, <1>3, FormIs DEF Product
<1> QED
  BY <1>1, <1>4

(* A variant that is switched off.                                          *)
Off(row) == [row EXCEPT !.active = FALSE, !.stock = 0]

LEMMA OffIs ==
  ASSUME NEW row \in Variant
  PROVE  /\ Off(row) \in Variant
         /\ Off(row).product = row.product /\ Off(row).active = FALSE
BY DEF Off, Variant

LEMMA SyncedIs ==
  ASSUME NEW p, NEW form, NEW found, NEW v \in Variants
  PROVE  Synced(p, form, found)[v] =
           IF v \in (form.keep \cap VariantsOf(p)) \cup form.new THEN AsSent(p, form, v)
           ELSE IF v \in (found \cap VariantsOf(p)) \ form.keep THEN Off(variant[v])
           ELSE variant[v]
BY DEF Synced, Off

LEMMA SyncedType ==
  ASSUME Shelved, NEW p \in Products, NEW form, NEW found
  PROVE  Synced(p, form, found) \in [Variants -> Variant \cup {None}]
<1>1. ASSUME NEW v \in Variants
      PROVE  Synced(p, form, found)[v] \in Variant \cup {None}
  <2>1. v \in VariantsOf(p) => variant[v] \in Variant
    BY DEF VariantsOf, Shelved
  <2>2. variant[v] \in Variant \cup {None}
    BY DEF Shelved
  <2>3. v \in VariantsOf(p) => Off(variant[v]) \in Variant
    BY <2>1, OffIs
  <2> QED
    BY <2>2, <2>3, SyncedIs, AsSentType
<1>2. DOMAIN Synced(p, form, found) = Variants
  BY DEF Synced
<1>3. Synced(p, form, found) = [v \in Variants |-> Synced(p, form, found)[v]]
  BY DEF Synced
<1> QED
  BY <1>1, <1>3

(* What the commit does when it is not turned away.                         *)
Committed(j) ==
  LET p == job[j].product
      form == job[j].form
  IN
  IF job[j].moves THEN Moved(Edited(p, form), form, job[j].sensitive) ELSE Edited(p, form)

LEMMA CommitIs ==
  ASSUME NEW j \in Requests, CommitUpdate(j)
  PROVE  LET p == job[j].product
             form == job[j].form
         IN
         /\ job[j].phase = "commit" /\ End(j)
         /\ UNCHANGED <<catalogue, media, favorite, sold, disturbed>>
         /\ \/ UNCHANGED <<product, variant, cleared, adrift>>
            \/ /\ Exists(p)
               /\ adrift' = IF Sent(form) # {} THEN adrift \ {p}
                            ELSE IF form.stock # None THEN adrift \cup {p} ELSE adrift
               /\ variant' = IF Sent(form) # {} THEN Synced(p, form, job[j].found)
                             ELSE variant
               /\ product' = [product EXCEPT ![p] = Committed(j)]
               /\ cleared' = IF ~job[j].moves THEN cleared
                             ELSE IF job[j].sensitive THEN cleared \ {p}
                             ELSE cleared \cup {p}
<1>1. /\ job[j].phase = "commit" /\ End(j)
      /\ UNCHANGED <<catalogue, media, favorite, sold, disturbed>>
  BY DEF CommitUpdate
<1>2. CASE ~Exists(job[j].product) \/ BrandIsGone(job[j].form)
  BY <1>1, <1>2 DEF CommitUpdate
<1>3. CASE ~(~Exists(job[j].product) \/ BrandIsGone(job[j].form))
  <2>1. Exists(job[j].product)
    BY <1>3
  <2>2. /\ variant' = IF Sent(job[j].form) # {}
                      THEN Synced(job[j].product, job[j].form, job[j].found) ELSE variant
        /\ cleared' = IF ~job[j].moves THEN cleared
                      ELSE IF job[j].sensitive THEN cleared \ {job[j].product}
                      ELSE cleared \cup {job[j].product}
        /\ adrift' = IF Sent(job[j].form) # {} THEN adrift \ {job[j].product}
                     ELSE IF job[j].form.stock # None THEN adrift \cup {job[j].product}
                     ELSE adrift
    BY <1>3 DEF CommitUpdate
  <2>3. product' = [product EXCEPT ![job[j].product] = Committed(j)]
    BY <1>3 DEF CommitUpdate, Committed, Moved, Edited
  <2> QED
    BY <1>1, <2>1, <2>2, <2>3
<1> QED
  BY <1>2, <1>3

LEMMA CommittedIs ==
  ASSUME Typed, NEW j \in Requests, job[j].phase = "commit", Exists(job[j].product)
  PROVE  LET p == job[j].product
             form == job[j].form
             s == job[j].sensitive
             row == Committed(j)
         IN
         /\ p \in Products /\ form \in Forms /\ s \in BOOLEAN
         /\ job[j].moves \in BOOLEAN
         /\ row \in Product
         /\ row.deleted = product[p].deleted
         /\ row.stock = IF Sent(form) # {} \/ form.stock # None
                        THEN TotalStock(form) ELSE product[p].stock
         /\ row.active = IF job[j].moves THEN ~s ELSE product[p].active
         /\ row.approval = IF job[j].moves THEN (IF s THEN "pending" ELSE "approved")
                           ELSE product[p].approval
<1> DEFINE p == job[j].product
           form == job[j].form
           s == job[j].sensitive
<1>1. /\ p \in Products /\ form \in Forms /\ s \in BOOLEAN /\ job[j].moves \in BOOLEAN
      /\ job[j].moves => form.sub # None
  BY JobIs DEF Job, JobShape, Creating
<1>2. product[p] \in Product
  BY <1>1 DEF Exists, Typed, TypeOK
<1> HIDE DEF p, form, s
<1>3. /\ Edited(p, form) \in Product
      /\ Edited(p, form).active = product[p].active
      /\ Edited(p, form).approval = product[p].approval
      /\ Edited(p, form).deleted = product[p].deleted
      /\ Edited(p, form).stock = IF Sent(form) # {} \/ form.stock # None
                                 THEN TotalStock(form) ELSE product[p].stock
  BY <1>1, <1>2, EditedIs
<1>4. CASE job[j].moves
  <2>1. Committed(j) = Moved(Edited(p, form), form, s)
    BY <1>4 DEF Committed, p, form, s
  <2>2. /\ Committed(j) \in Product /\ Committed(j).active = ~s
        /\ Committed(j).approval = IF s THEN "pending" ELSE "approved"
        /\ Committed(j).deleted = Edited(p, form).deleted
        /\ Committed(j).stock = Edited(p, form).stock
    BY <1>1, <1>3, <1>4, <2>1, MovedIs
  <2> QED
    BY <1>1, <1>3, <1>4, <2>2 DEF p, form, s
<1>5. CASE ~job[j].moves
  <2>1. Committed(j) = Edited(p, form)
    BY <1>5 DEF Committed, p, form
  <2> QED
    BY <1>1, <1>3, <1>5, <2>1 DEF p, form, s
<1> QED
  BY <1>4, <1>5

LEMMA CommitUpdateShape ==
  ASSUME Typed, NEW j \in Requests, CommitUpdate(j)
  PROVE  Typed'
<1> DEFINE p == job[j].product
           form == job[j].form
<1>1. /\ job[j].phase = "commit" /\ End(j)
      /\ UNCHANGED <<catalogue, media, favorite, sold, disturbed>>
  BY CommitIs
<1>2. Shelved /\ Working
  BY TypedParts
<1>3. CASE UNCHANGED <<product, variant, cleared, adrift>>
  <2>1. Shelved'
    BY <1>1, <1>2, <1>3 DEF Shelved
  <2> QED
    BY <1>1, <1>2, <2>1, EndShape, TypedSame
<1>4. CASE ~UNCHANGED <<product, variant, cleared, adrift>>
  <2>1. /\ Exists(p)
        /\ variant' = IF Sent(form) # {} THEN Synced(p, form, job[j].found) ELSE variant
        /\ product' = [product EXCEPT ![p] = Committed(j)]
        /\ cleared' = IF ~job[j].moves THEN cleared
                      ELSE IF job[j].sensitive THEN cleared \ {p} ELSE cleared \cup {p}
        /\ adrift' \subseteq adrift \cup {p}
    BY <1>4, CommitIs
  <2>2. p \in Products /\ Committed(j) \in Product
    BY <1>1, <2>1, CommittedIs
  <2>3. variant' \in [Variants -> Variant \cup {None}]
    BY <1>2, <2>1, <2>2, SyncedType DEF Shelved
  <2>4. product' \in [Products -> Product \cup {None}] /\ cleared' \subseteq Products
      /\ adrift' \subseteq Products
    BY <1>2, <2>1, <2>2 DEF Shelved
  <2>5. Shelved'
    BY <1>1, <1>2, <2>3, <2>4 DEF Shelved
  <2> QED
    BY <1>1, <1>2, <2>5, EndShape, TypedSame
<1> QED
  BY <1>3, <1>4

(* What remove leaves: the row of a product that was sold, or nothing.      *)
Removed(p) == [product[p] EXCEPT !.active = FALSE, !.deleted = TRUE]

LEMMA RemovedIs ==
  ASSUME NEW p, product[p] \in Product
  PROVE  Removed(p) \in Product /\ Removed(p).active = FALSE /\ Removed(p).deleted = TRUE
BY DEF Removed, Product

LEMMA RemoveIs ==
  ASSUME NEW p \in Products, RemoveProduct(p)
  PROVE  /\ Live(p) /\ favorite' = KeptFavorites(p)
         /\ cleared' = cleared \ {p} /\ disturbed' = Overlap(p)
         /\ UNCHANGED <<catalogue, sold, job, adrift>>
         /\ \/ /\ product' = [product EXCEPT ![p] = Removed(p)]
               /\ UNCHANGED <<variant, media>>
            \/ /\ product' = [product EXCEPT ![p] = None]
               /\ variant' = [v \in Variants |-> IF v \in VariantsOf(p) THEN None ELSE variant[v]]
               /\ media' = [m \in Media |-> IF media[m] = p THEN None ELSE media[m]]
<1>1. CASE p \in sold
  BY <1>1 DEF RemoveProduct, Removed
<1>2. CASE p \notin sold
  BY <1>2 DEF RemoveProduct
<1> QED
  BY <1>1, <1>2

LEMMA RemoveShape ==
  ASSUME Typed, NEW p \in Products, RemoveProduct(p)
  PROVE  Typed'
<1>1. /\ Live(p) /\ favorite' = KeptFavorites(p)
      /\ cleared' = cleared \ {p} /\ disturbed' = Overlap(p)
      /\ UNCHANGED <<catalogue, sold, job, adrift>>
  BY RemoveIs
<1>2. Shelved /\ Working
  BY TypedParts
<1>3. product[p] \in Product
  BY <1>1, <1>2 DEF Live, Exists, Shelved
<1>4. favorite' \subseteq Buyers \X Products /\ disturbed' \subseteq Products
  BY <1>1, <1>2, OverlapType DEF KeptFavorites, Shelved
<1>5. Shelved'
  <2>1. CASE product' = [product EXCEPT ![p] = Removed(p)] /\ UNCHANGED <<variant, media>>
    BY <1>1, <1>2, <1>3, <1>4, <2>1, RemovedIs DEF Shelved
  <2>2. CASE /\ product' = [product EXCEPT ![p] = None]
             /\ variant' = [v \in Variants |-> IF v \in VariantsOf(p) THEN None ELSE variant[v]]
             /\ media' = [m \in Media |-> IF media[m] = p THEN None ELSE media[m]]
    BY <1>1, <1>2, <1>4, <2>2 DEF Shelved
  <2> QED
    BY <2>1, <2>2, RemoveIs
<1>6. Working'
  BY <1>1, <1>2 DEF Working
<1> QED
  BY <1>1, <1>5, <1>6, TypedSame

(* What saving a verdict, or a product that was sold, writes.               *)
Saved(j) ==
  LET p == job[j].product IN
  [job[j].row EXCEPT !.sub = product[p].sub, !.brand = product[p].brand,
                     !.values = product[p].values]

(* A request that saves the row of a product.                               *)
SavesRow(x) == x.phase = "verdict" \/ (x.phase = "stock" /\ x.found = {})

LEMMA SavedIs ==
  ASSUME Typed, NEW j \in Requests, SavesRow(job[j]), Exists(job[j].product)
  PROVE  LET row == Saved(j) IN
         /\ job[j].product \in Products /\ row \in Product
         /\ row.active = job[j].row.active /\ row.approval = job[j].row.approval
         /\ row.deleted = job[j].row.deleted /\ row.stock = job[j].row.stock
<1>1. job[j].product \in Products /\ job[j].row \in Product
  BY JobIs DEF JobShape, SavesRow
<1>2. product[job[j].product] \in Product
  BY <1>1 DEF Typed, TypeOK, Exists
<1> QED
  BY <1>1, <1>2 DEF Saved, Product

LEMMA SaveVerdictIs ==
  ASSUME NEW j \in Requests, SaveVerdict(j)
  PROVE  LET p == job[j].product IN
         /\ job[j].phase = "verdict" /\ End(j)
         /\ UNCHANGED <<catalogue, variant, media, favorite, sold, disturbed, adrift>>
         /\ \/ ~Exists(p) /\ UNCHANGED <<product, cleared>>
            \/ /\ Exists(p)
               /\ product' = [product EXCEPT ![p] = Saved(j)]
               /\ cleared' = IF job[j].row.active THEN cleared \cup {p} ELSE cleared \ {p}
<1>1. CASE Exists(job[j].product)
  BY <1>1 DEF SaveVerdict, SaveOver, Saved
<1>2. CASE ~Exists(job[j].product)
  BY <1>2 DEF SaveVerdict, SaveOver
<1> QED
  BY <1>1, <1>2

LEMMA SaveVerdictShape ==
  ASSUME Typed, NEW j \in Requests, SaveVerdict(j)
  PROVE  Typed'
<1> DEFINE p == job[j].product
<1>1. /\ job[j].phase = "verdict" /\ End(j)
      /\ UNCHANGED <<catalogue, variant, media, favorite, sold, disturbed, adrift>>
  BY SaveVerdictIs
<1>2. Shelved /\ Working
  BY TypedParts
<1>3. Shelved'
  <2>1. CASE UNCHANGED <<product, cleared>>
    BY <1>1, <1>2, <2>1 DEF Shelved
  <2>2. CASE ~UNCHANGED <<product, cleared>>
    <3>1. /\ Exists(p)
          /\ product' = [product EXCEPT ![p] = Saved(j)]
          /\ cleared' = IF job[j].row.active THEN cleared \cup {p} ELSE cleared \ {p}
      BY <2>2, SaveVerdictIs
    <3>2. p \in Products /\ Saved(j) \in Product
      BY <1>1, <3>1, SavedIs DEF SavesRow
    <3> QED
      BY <1>1, <1>2, <3>1, <3>2 DEF Shelved
  <2> QED
    BY <2>1, <2>2
<1> QED
  BY <1>1, <1>2, <1>3, EndShape, TypedSame

(* The row checkout saves: that of the variant, or of the product.          *)
Sold(piece) == [piece EXCEPT !.stock = @ - 1]

LEMMA SoldIs ==
  ASSUME Typed, NEW p \in Products, NEW item \in VariantsOf(p) \cup {None},
         Live(p),
         NEW piece, piece = IF item = None THEN product[p] ELSE variant[item],
         piece.stock >= 1
  PROVE  IF item = None
         THEN /\ Sold(piece) \in Product
              /\ Sold(piece).active = product[p].active
              /\ Sold(piece).approval = product[p].approval
              /\ Sold(piece).deleted = product[p].deleted
         ELSE Sold(piece) \in Variant /\ Sold(piece).product = p
<1>1. product[p] \in Product
  BY DEF Live, Exists, Typed, TypeOK
<1>2. CASE item = None
  <2>1. piece \in Product /\ piece = product[p]
    BY <1>1, <1>2
  <2>2. piece.stock - 1 \in Nat
    BY <2>1 DEF Product
  <2> QED
    BY <1>2, <2>1, <2>2 DEF Sold, Product
<1>3. CASE item # None
  <2>1. piece \in Variant /\ piece.product = p
    BY <1>3 DEF VariantsOf, Typed, TypeOK
  <2>2. piece.stock - 1 \in {0, 1}
    BY <2>1 DEF Variant
  <2> QED
    BY <1>3, <2>1, <2>2 DEF Sold, Variant
<1> QED
  BY <1>2, <1>3

LEMMA SoldProduct ==
  ASSUME Typed, NEW j \in Requests, NEW p \in Products, Checkout(j, p, None)
  PROVE  /\ Sold(product[p]).active = product[p].active
         /\ Sold(product[p]).approval = product[p].approval
         /\ Sold(product[p]).deleted = product[p].deleted
<1>1. product[p] \in Product
  BY DEF Checkout, Live, Exists, Typed, TypeOK
<1> QED
  BY <1>1 DEF Sold, Product

LEMMA CheckoutShape ==
  ASSUME Typed, NEW j \in Requests, NEW p \in Products, NEW item \in Variants \cup {None},
         Checkout(j, p, item)
  PROVE  Typed'
<1> DEFINE piece == IF item = None THEN product[p] ELSE variant[item]
           row == Sold(piece)
           found == IF item = None THEN {} ELSE {item}
           w == [Rest EXCEPT !.phase = "sale", !.found = found, !.row = row]
           x == [w EXCEPT !.product = p]
<1>1. Begin(j, p, w)
  BY DEF Checkout, Sold
<1>2. IF found = {} THEN row \in Product ELSE row \in Variant /\ row.product = p
  BY SoldIs DEF Checkout
<1>3. found \in SUBSET Variants
  OBVIOUS
<1> HIDE DEF row, found
<1>4. /\ x \in Job
      /\ x.phase = "sale" /\ x.product = p /\ x.row = row /\ x.found = found
  BY <1>2, <1>3 DEF Rest, Job
<1> HIDE DEF x
<1>5. JobShape(x)
  BY <1>2, <1>4 DEF JobShape, Creating
<1> QED
  BY <1>1, <1>4, <1>5, BeginShape DEF x

LEMMA SellItemShape ==
  ASSUME Typed, NEW j \in Requests, SellItem(j)
  PROVE  Typed'
<1> DEFINE p == job[j].product
           x == [job[j] EXCEPT !.phase = "stock"]
<1>1. /\ job[j] \in Job /\ JobShape(job[j]) /\ job[j].phase = "sale" /\ p \in Products
  BY JobIs DEF SellItem, JobShape
<1>2. UNCHANGED <<catalogue, product, variant, media, favorite, cleared, disturbed, adrift>>
  BY DEF SellItem, shown
<1>3. Shelved /\ Working
  BY TypedParts
<1>4. sold' \subseteq Products
  BY <1>1, <1>3 DEF SellItem, Shelved
<1>5. Shelved'
  BY <1>2, <1>3, <1>4 DEF Shelved
<1>6. /\ x \in Job
      /\ x.phase = "stock" /\ x.product = p /\ x.row = job[j].row /\ x.found = job[j].found
  BY <1>1 DEF Job
<1>7. Goes(j, "stock") => job' = [job EXCEPT ![j] = x]
  BY DEF Goes
<1> HIDE DEF x
<1>8. JobShape(x)
  BY <1>1, <1>6 DEF JobShape, Creating
<1>9. Working'
  <2>1. CASE Goes(j, "stock")
    BY <1>3, <1>6, <1>7, <1>8, <2>1, JobSet
  <2>2. CASE End(j)
    BY <1>3, <2>2, EndShape
  <2> QED
    BY <2>1, <2>2 DEF SellItem
<1> QED
  BY <1>2, <1>5, <1>9, TypedSame

(* The rows of variants, when what was sold of one is saved.                *)
SoldVariants(j) ==
  [v \in Variants |-> IF v \in job[j].found \cap VariantsOf(job[j].product)
                      THEN job[j].row ELSE variant[v]]

LEMMA SaveStockIs ==
  ASSUME NEW j \in Requests, SaveStock(j)
  PROVE  LET p == job[j].product IN
         /\ job[j].phase = "stock" /\ End(j)
         /\ UNCHANGED <<catalogue, media, favorite, sold, cleared, disturbed>>
         /\ adrift' = adrift \cup {p}
         /\ variant' = SoldVariants(j)
         /\ \/ UNCHANGED product
            \/ /\ Exists(p) /\ SavesRow(job[j])
               /\ product' = [product EXCEPT ![p] = Saved(j)]
BY DEF SaveStock, SaveOver, Saved, SavesRow, SoldVariants

LEMMA SaveStockShape ==
  ASSUME Typed, NEW j \in Requests, SaveStock(j)
  PROVE  Typed'
<1> DEFINE p == job[j].product
<1>1. /\ job[j].phase = "stock" /\ End(j)
      /\ UNCHANGED <<catalogue, media, favorite, sold, cleared, disturbed>>
      /\ adrift' = adrift \cup {p}
      /\ variant' = SoldVariants(j)
      /\ \/ UNCHANGED product
         \/ /\ Exists(p) /\ SavesRow(job[j])
            /\ product' = [product EXCEPT ![p] = Saved(j)]
  BY SaveStockIs
<1>2. Shelved /\ Working
  BY TypedParts
<1>3. /\ JobShape(job[j]) /\ p \in Products
      /\ job[j].found # {} => job[j].row \in Variant
  BY <1>1, JobIs DEF JobShape
<1>4. SoldVariants(j) \in [Variants -> Variant \cup {None}]
  BY <1>2, <1>3 DEF SoldVariants, Shelved
<1>5. product' \in [Products -> Product \cup {None}]
  BY <1>1, <1>2, SavedIs DEF Shelved
<1>6. Shelved'
  BY <1>1, <1>2, <1>3, <1>4, <1>5 DEF Shelved
<1> QED
  BY <1>1, <1>2, <1>6, EndShape, TypedSame

LEMMA MediaShape ==
  ASSUME Typed, NEW m \in Media,
         \/ \E p \in Products \cup {None} : UploadMedia(m, p)
         \/ \E p \in Products : AssignMedia(m, p)
         \/ RemoveMedia(m)
  PROVE  Typed'
<1>1. Shelved /\ Working
  BY TypedParts
<1>2. UNCHANGED <<product, variant, favorite, sold, job, cleared, disturbed, adrift>>
  BY DEF UploadMedia, AssignMedia, RemoveMedia, shown
<1>3. media' \in [Media -> Products \cup {None, "loose"}]
  BY <1>1 DEF UploadMedia, AssignMedia, RemoveMedia, Shelved
<1>4. Shelved' /\ Working'
  BY <1>1, <1>2, <1>3 DEF Shelved, Working
<1>5. CASE RemoveMedia(m)
  BY <1>4, <1>5, TypedSame DEF RemoveMedia
<1>6. CASE ~RemoveMedia(m)
  <2>1. edits < MaxEdits /\ edits' = edits + 1 /\ UNCHANGED filing
    BY <1>6 DEF UploadMedia, AssignMedia
  <2> QED
    BY <1>4, <2>1, TypedCounted DEF filing
<1> QED
  BY <1>5, <1>6

LEMMA FavoriteShape ==
  ASSUME Typed,
         \/ \E j \in Requests : InsertFavorite(j)
         \/ \E b \in Buyers, p \in Products : RemoveFavorite(b, p)
  PROVE  Typed'
<1>1. Shelved /\ Working
  BY TypedParts
<1>2. ASSUME NEW j \in Requests, InsertFavorite(j)
      PROVE  Typed'
  <2>1. job[j].buyer \in Buyers /\ job[j].product \in Products
    BY <1>2, JobIs DEF InsertFavorite, JobShape
  <2>2. favorite' \subseteq Buyers \X Products
    BY <1>1, <1>2, <2>1 DEF InsertFavorite, Shelved
  <2>3. End(j) /\ UNCHANGED <<catalogue, product, variant, media, sold, cleared, disturbed, adrift>>
    BY <1>2 DEF InsertFavorite, shown
  <2>4. Shelved'
    BY <1>1, <2>2, <2>3 DEF Shelved
  <2> QED
    BY <1>1, <2>3, <2>4, EndShape, TypedSame
<1>3. ASSUME NEW b \in Buyers, NEW p \in Products, RemoveFavorite(b, p)
      PROVE  Typed'
  <2>1. /\ favorite' \subseteq favorite
        /\ UNCHANGED <<catalogue, product, variant, media, sold, job, cleared, disturbed, adrift>>
    BY <1>3 DEF RemoveFavorite, shown
  <2>2. Shelved' /\ Working'
    BY <1>1, <2>1 DEF Shelved, Working
  <2> QED
    BY <2>1, <2>2, TypedSame
<1> QED
  BY <1>2, <1>3

LEMMA BreakOffShape ==
  ASSUME Typed, NEW j \in Requests, BreakOffJob(j)
  PROVE  Typed'
<1>1. Shelved /\ Working
  BY TypedParts
<1>2. job[j].product \in Products /\ End(j) /\ disturbed' = disturbed \cup {job[j].product}
  BY JobIs DEF BreakOffJob, JobShape
<1>3. Shelved'
  BY <1>1, <1>2 DEF Shelved, shelf, BreakOffJob
<1>4. edits' \in 0..MaxEdits /\ faults' \in 0..MaxFaults /\ UNCHANGED <<catalogueRows, req>>
  BY DEF BreakOffJob, Typed, TypeOK, CatalogueTypeOK
<1> QED
  BY <1>1, <1>2, <1>3, <1>4, EndShape, TypedRest

LEMMA TypedStep ==
  ASSUME Typed, [Next]_vars
  PROVE  Typed'
<1>1. ASSUME \/ CatalogueNext
             \/ \E r \in Requests : EraseBrand(r) \/ \E b \in Brands : RemoveBrand(r, b),
             UNCHANGED own
      PROVE  Typed'
  <2>1. CatalogueTypeOK' /\ Requesting'
    BY <1>1, CatalogueShape DEF Typed, TypeOK
  <2>2. Shelved' /\ Working'
    BY <1>1, TypedParts DEF own, shelf, shown, Shelved, Working
  <2> QED
    BY <2>1, <2>2 DEF Typed, TypeOK, Shelved, Working
<1>2. ASSUME NEW j \in Requests, JobStep(j)
      PROVE  Typed'
  <2>1. {"approved", "rejected"} \subseteq Status
    BY DEF Status
  <2> QED
    BY <1>2, <2>1, CreateShape, UpdateShape, JudgeShape, AddFavoriteShape,
       InsertProductShape, InsertVariantShape, LinkMediaShape, SaveValuesShape,
       ReadVariantsShape, CommitUpdateShape, SaveVerdictShape, FavoriteShape,
       BreakOffShape, CheckoutShape, SellItemShape, SaveStockShape DEF JobStep
<1>3. ASSUME NEW r \in Requests, EraseBrand(r) \/ \E b \in Brands : RemoveBrand(r, b)
      PROVE  Typed'
  BY <1>1, <1>3 DEF EraseBrand, RemoveBrand
<1>4. CASE UNCHANGED vars
  <2>1. UNCHANGED catalogue /\ UNCHANGED own
    BY <1>4 DEF vars
  <2>2. Shelved' /\ Working'
    BY <2>1, TypedParts DEF own, shelf, shown, Shelved, Working
  <2> QED
    BY <2>1, <2>2, TypedSame
<1> QED
  BY <1>1, <1>2, <1>3, <1>4, RemoveShape, MediaShape, FavoriteShape DEF Next

LEMMA TypedInit ==
  ASSUME Init
  PROVE  Typed
<1>1. CatalogueTypeOK
  <2> DEFINE first == [required |-> TRUE, appliesTo |-> "PRODUCT",
                       usage |-> "product_attribute"]
  <2>1. attribute \in [Attributes -> Attribute \cup {None}]
    <3>1. first \in Attribute
      BY DEF Attribute, AppliesTo, Usage
    <3>2. attribute \in [Attributes -> {None, first}]
      BY DEF Init, CatalogueInit
    <3> HIDE DEF first
    <3> QED
      BY <3>1, <3>2
  <2>2. brand \in [Brands -> Brand \cup {None}]
    BY DEF Init, CatalogueInit, Brand
  <2>3. shade \in [Colors -> Shades \cup {None}]
    BY DEF Init, CatalogueInit, Colors
  <2>4. suggestion \in [Suggestions -> Status] /\ suggested \in BOOLEAN /\ stored \subseteq Files
    BY DEF Init, CatalogueInit, Status
  <2>5. filed \in [SubCategories -> CategoryName \X SubCategoryName]
    BY DEF Init, CatalogueInit
  <2>6. edits \in 0..MaxEdits /\ faults \in 0..MaxFaults
    BY DEF Init, CatalogueInit
  <2> QED
    BY <2>1, <2>2, <2>3, <2>4, <2>5, <2>6 DEF CatalogueTypeOK
<1>2. Requesting
  <2>1. req = [r \in Requests |-> Idle]
    BY DEF Init, CatalogueInit
  <2> QED
    BY <2>1, IdleShape DEF Requesting
<1>3. Shelved
  BY DEF Init, Shelved
<1>4. Working
  BY RestShape DEF Init, Working
<1> QED
  BY <1>1, <1>2, <1>3, <1>4, TypedParts

(* Every row of the catalogue, and every product, variant, file and request *)
(* about them, keeps its form; in particular no stock is ever negative or   *)
(* missing and no verdict is saved without the row it was read from.        *)
THEOREM TypeCorrect == Spec => []TypeOK
<1>1. Init => Typed
  BY TypedInit
<1>2. Typed /\ [Next]_vars => Typed'
  BY TypedStep
<1>3. Typed => TypeOK
  BY DEF Typed
<1> QED
  BY <1>1, <1>2, <1>3, PTL DEF Spec

------------------------------------------------------------------------------
(* Logos.                                                                   *)

LEMMA ReqIs ==
  ASSUME Requesting, NEW r \in Requests, NEW x, req' = [req EXCEPT ![r] = x]
  PROVE  /\ req'[r] = x
         /\ \A q \in Requests : q # r => req'[q] = req[q]
BY DEF Requesting

LEMMA LogoSame ==
  ASSUME LogoInv, UNCHANGED <<brand, stored, req>>, clashed \subseteq clashed'
  PROVE  LogoInv'
<1>1. LogosKept' /\ LogosApart'
  BY DEF LogoInv, LogosKept, LogosApart
<1>2. NewLogosKept' /\ OldLogosFree' /\ RenamesKeepFile'
  BY DEF LogoInv, NewLogosKept, OldLogosFree, RenamesKeepFile, NewLogo, AtSave
<1>3. BrandCurrent'
  BY DEF LogoInv, BrandCurrent, Uses
<1> QED
  BY <1>1, <1>2, <1>3 DEF LogoInv

(* A request that ends leaves the logos as they are.                        *)
LEMMA LogoClose ==
  ASSUME Requesting, LogoInv, NEW r \in Requests, Close(r), UNCHANGED <<brand, stored>>,
         clashed \subseteq clashed'
  PROVE  LogoInv'
<1>1. /\ req'[r].phase = "idle" /\ req'[r].file = None
      /\ \A q \in Requests : q # r => req'[q] = req[q]
  <2>1. Idle.phase = "idle" /\ Idle.file = None
    BY DEF Idle
  <2> QED
    BY <2>1, ReqIs DEF Close
<1>2. LogosKept' /\ LogosApart'
  BY DEF LogoInv, LogosKept, LogosApart
<1>3. NewLogosKept'
  BY <1>1 DEF LogoInv, NewLogosKept, NewLogo, AtSave
<1>4. OldLogosFree'
  BY <1>1 DEF LogoInv, OldLogosFree, AtSave
<1>5. RenamesKeepFile'
  BY <1>1 DEF LogoInv, RenamesKeepFile, NewLogo
<1>6. BrandCurrent'
  BY <1>1 DEF LogoInv, BrandCurrent, Uses
<1> QED
  BY <1>2, <1>3, <1>4, <1>5, <1>6 DEF LogoInv

(* A request that begins: it may have uploaded a new file, and it may be    *)
(* about to delete the one the brand it read has.                           *)
LEMMA LogoBegin ==
  ASSUME LogoInv, NEW r \in Requests, NEW t, NEW i, NEW x,
         req[r].phase = "idle", req'[r] = x,
         \A q \in Requests : q # r => req'[q] = req[q],
         clashed \subseteq clashed',
         <<t, i>> \notin clashed' => \A q \in Requests : ~Uses(q, t, i),
         UNCHANGED brand, stored \subseteq stored',
         x.table = t, x.id = i,
         \/ x.file = None
         \/ /\ t = "brand" /\ i \in Brands /\ brand[i] # None
            /\ x.file = brand[i].publicId /\ x.phase \in {"save", "erase"},
         x.phase = "save" /\ t = "brand" =>
           /\ x.row.logo = x.row.publicId /\ x.row.publicId \in Files
           /\ Fresh(x.row.publicId) /\ x.row.publicId \in stored',
         x.phase = "rename" =>
           /\ t = "brand" /\ brand[i] # None
           /\ x.row.logo = brand[i].logo /\ x.row.publicId = None
  PROVE  LogoInv'
<1>1. /\ req'[r] = x
      /\ \A q \in Requests : q # r => req'[q] = req[q]
  OBVIOUS
<1>3. LogosKept' /\ LogosApart'
  BY DEF LogoInv, LogosKept, LogosApart
<1>4. NewLogosKept'
  <2>1. ASSUME NEW q \in Requests, q # r, AtSave(q, "brand")
        PROVE  NewLogo(q) # x.file
    BY <2>1 DEF LogoInv, NewLogosKept
  <2>2. ASSUME NEW q \in Requests, q # r, AtSave(q, "brand"), x.phase = "save", t = "brand"
        PROVE  NewLogo(q) # x.row.publicId
    BY <2>2 DEF LogoInv, NewLogosKept, Fresh
  <2>3. ASSUME NEW q \in Requests, q # r, AtSave(q, "brand")'
        PROVE  /\ NewLogo(q)' \in stored' /\ NewLogo(q)' # None
               /\ req'[q].row.logo = NewLogo(q)'
               /\ \A b \in Brands : brand'[b] # None => brand'[b].publicId # NewLogo(q)'
               /\ \A k \in Requests : req'[k].file # NewLogo(q)'
               /\ \A k \in Requests : AtSave(k, "brand")' /\ k # q => NewLogo(k)' # NewLogo(q)'
    <3>1. AtSave(q, "brand") /\ NewLogo(q)' = NewLogo(q) /\ req'[q] = req[q]
      BY <1>1, <2>3 DEF AtSave, NewLogo
    <3>2. \A k \in Requests : req'[k].file # NewLogo(q)
      BY <1>1, <2>1, <2>3, <3>1 DEF LogoInv, NewLogosKept
    <3>3. \A k \in Requests : AtSave(k, "brand")' /\ k # q => NewLogo(k)' # NewLogo(q)
      <4>1. ASSUME NEW k \in Requests, AtSave(k, "brand")', k # q, k # r
            PROVE  NewLogo(k)' # NewLogo(q)
        <5>1. AtSave(k, "brand") /\ NewLogo(k)' = NewLogo(k)
          BY <4>1 DEF AtSave, NewLogo
        <5> QED
          BY <3>1, <4>1, <5>1 DEF LogoInv, NewLogosKept
      <4>2. AtSave(r, "brand")' => NewLogo(r)' # NewLogo(q)
        <5>1. AtSave(r, "brand")' => x.phase = "save" /\ t = "brand"
          BY DEF AtSave
        <5>2. NewLogo(r)' = x.row.publicId
          BY DEF NewLogo
        <5> QED
          BY <2>2, <2>3, <3>1, <5>1, <5>2
      <4> QED
        BY <4>1, <4>2
    <3> QED
      BY <3>1, <3>2, <3>3 DEF LogoInv, NewLogosKept
  <2>4. ASSUME AtSave(r, "brand")'
        PROVE  /\ NewLogo(r)' \in stored' /\ NewLogo(r)' # None
               /\ req'[r].row.logo = NewLogo(r)'
               /\ \A b \in Brands : brand'[b] # None => brand'[b].publicId # NewLogo(r)'
               /\ \A k \in Requests : req'[k].file # NewLogo(r)'
               /\ \A k \in Requests : AtSave(k, "brand")' /\ k # r => NewLogo(k)' # NewLogo(r)'
    <3>1. NewLogo(r)' = x.row.publicId /\ x.phase = "save" /\ t = "brand"
      BY <1>1, <2>4 DEF AtSave, NewLogo
    <3>2. \A b \in Brands : brand[b] # None => brand[b].publicId # x.row.publicId
      BY <3>1 DEF Fresh
    <3>3. x.row.publicId # None
      BY <3>1
    <3>4. \A k \in Requests : req'[k].file # x.row.publicId
      <4>1. x.file # x.row.publicId
        BY <3>2, <3>3
      <4>2. \A k \in Requests : req[k].file # x.row.publicId
        BY <3>1 DEF Fresh
      <4> QED
        BY <1>1, <4>1, <4>2
    <3>5. \A k \in Requests : AtSave(k, "brand")' /\ k # r => NewLogo(k)' # x.row.publicId
      BY <1>1, <2>2, <3>1 DEF AtSave, NewLogo
    <3> QED
      BY <1>1, <3>1, <3>2, <3>3, <3>4, <3>5
  <2> QED
    BY <2>3, <2>4 DEF NewLogosKept
<1>5. OldLogosFree'
  <2>1. ASSUME NEW q \in Requests, NEW b \in Brands, q # r,
               req'[q].file # None, brand'[b] # None, brand'[b].publicId = req'[q].file
        PROVE  (req'[q].phase = "erase" \/ AtSave(q, "brand")') /\ req'[q].id = b
    BY <2>1 DEF LogoInv, OldLogosFree, AtSave
  <2>2. ASSUME NEW b \in Brands,
               x.file # None, brand[b] # None, brand[b].publicId = x.file
        PROVE  (req'[r].phase = "erase" \/ AtSave(r, "brand")') /\ req'[r].id = b
    <3>1. /\ t = "brand" /\ i \in Brands /\ brand[i] # None
          /\ x.file = brand[i].publicId /\ x.phase \in {"save", "erase"}
      BY <2>2
    <3>2. b = i
      BY <2>2, <3>1 DEF LogoInv, LogosApart
    <3> QED
      BY <3>1, <3>2 DEF AtSave
  <2> QED
    BY <2>1, <2>2 DEF OldLogosFree
<1>6. RenamesKeepFile'
  BY <1>1 DEF LogoInv, RenamesKeepFile, NewLogo
<1>7. BrandCurrent'
  <2> SUFFICES ASSUME NEW b \in Brands, <<"brand", b>> \notin clashed'
               PROVE  /\ brand[b] # None => brand[b].logo = brand[b].publicId
                      /\ \A k, q \in Requests :
                           Uses(k, "brand", b)' /\ Uses(q, "brand", b)' => k = q
                      /\ \A k \in Requests : Uses(k, "brand", b)' /\ req'[k].phase = "rename" =>
                           brand[b] # None /\ req'[k].row.logo = brand[b].logo
    BY DEF BrandCurrent
  <2>1. <<"brand", b>> \notin clashed
    OBVIOUS
  <2>2. t = "brand" /\ i = b => \A q \in Requests : ~Uses(q, "brand", b)
    OBVIOUS
  <2>3. Uses(r, "brand", b)' => t = "brand" /\ i = b
    BY <1>1 DEF Uses
  <2>4. \A q \in Requests : q # r => (Uses(q, "brand", b)' <=> Uses(q, "brand", b))
    BY <1>1 DEF Uses
  <2>5. \A k, q \in Requests : Uses(k, "brand", b)' /\ Uses(q, "brand", b)' => k = q
    BY <2>1, <2>2, <2>3, <2>4 DEF LogoInv, BrandCurrent
  <2>6. \A k \in Requests : Uses(k, "brand", b)' /\ req'[k].phase = "rename" =>
          brand[b] # None /\ req'[k].row.logo = brand[b].logo
    <3>1. ASSUME NEW k \in Requests, k # r, Uses(k, "brand", b)', req'[k].phase = "rename"
          PROVE  brand[b] # None /\ req'[k].row.logo = brand[b].logo
      BY <2>1, <2>4, <3>1 DEF LogoInv, BrandCurrent
    <3>2. ASSUME Uses(r, "brand", b)', req'[r].phase = "rename"
          PROVE  brand[b] # None /\ req'[r].row.logo = brand[b].logo
      BY <2>3, <3>2
    <3> QED
      BY <3>1, <3>2
  <2> QED
    BY <2>1, <2>5, <2>6 DEF LogoInv, BrandCurrent
<1> QED
  BY <1>3, <1>4, <1>5, <1>6, <1>7 DEF LogoInv

LEMMA LogoOpen ==
  ASSUME Requesting, LogoInv, NEW r \in Requests, NEW t, NEW i, NEW w,
         Open(r, t, i, w), UNCHANGED brand, stored \subseteq stored',
         NEW x, x = [w EXCEPT !.table = t, !.id = i],
         x.table = t, x.id = i,
         \/ x.file = None
         \/ /\ t = "brand" /\ i \in Brands /\ brand[i] # None
            /\ x.file = brand[i].publicId /\ x.phase \in {"save", "erase"},
         x.phase = "save" /\ t = "brand" =>
           /\ x.row.logo = x.row.publicId /\ x.row.publicId \in Files
           /\ Fresh(x.row.publicId) /\ x.row.publicId \in stored',
         x.phase = "rename" =>
           /\ t = "brand" /\ brand[i] # None
           /\ x.row.logo = brand[i].logo /\ x.row.publicId = None
  PROVE  LogoInv'
<1>1. req' = [req EXCEPT ![r] = x]
  BY DEF Open
<1>2. /\ req'[r] = x
      /\ \A q \in Requests : q # r => req'[q] = req[q]
  BY <1>1, ReqIs
<1>3. /\ req[r].phase = "idle" /\ clashed \subseteq clashed'
      /\ <<t, i>> \notin clashed' => \A q \in Requests : ~Uses(q, t, i)
  BY DEF Open
<1> QED
  BY <1>2, <1>3, LogoBegin

(* A request goes on to its next phase, which saves no brand.               *)
LEMMA LogoGoes ==
  ASSUME Requesting, LogoInv, NEW r \in Requests, NEW x, req' = [req EXCEPT ![r] = x],
         UNCHANGED <<brand, stored, clashed>>,
         x.phase = "save", x.table # "brand", req[r].table # "brand",
         x.file = req[r].file, req[r].phase # "erase"
  PROVE  LogoInv'
<1>1. /\ req'[r] = x
      /\ \A q \in Requests : q # r => req'[q] = req[q]
  BY ReqIs
<1>2. LogosKept' /\ LogosApart'
  BY DEF LogoInv, LogosKept, LogosApart
<1>3. NewLogosKept'
  <2> SUFFICES ASSUME NEW q \in Requests, AtSave(q, "brand")'
               PROVE  /\ NewLogo(q)' \in stored' /\ NewLogo(q)' # None
                      /\ req'[q].row.logo = NewLogo(q)'
                      /\ \A b \in Brands : brand'[b] # None => brand'[b].publicId # NewLogo(q)'
                      /\ \A k \in Requests : req'[k].file # NewLogo(q)'
                      /\ \A k \in Requests :
                           AtSave(k, "brand")' /\ k # q => NewLogo(k)' # NewLogo(q)'
    BY DEF NewLogosKept
  <2>1. \A k \in Requests : AtSave(k, "brand")' => k # r /\ req'[k] = req[k]
    BY <1>1 DEF AtSave
  <2>2. \A k \in Requests : AtSave(k, "brand")' => AtSave(k, "brand") /\ NewLogo(k)' = NewLogo(k)
    BY <2>1 DEF AtSave, NewLogo
  <2>3. \A k \in Requests : req'[k].file = req[k].file
    BY <1>1
  <2> QED
    BY <2>1, <2>2, <2>3 DEF LogoInv, NewLogosKept
<1>4. OldLogosFree'
  BY <1>1 DEF LogoInv, OldLogosFree, AtSave
<1>5. RenamesKeepFile'
  BY <1>1 DEF LogoInv, RenamesKeepFile, NewLogo
<1>6. BrandCurrent'
  BY <1>1 DEF LogoInv, BrandCurrent, Uses
<1> QED
  BY <1>2, <1>3, <1>4, <1>5, <1>6 DEF LogoInv

LEMMA LogoRename ==
  ASSUME CatalogueTypeOK, Requesting, LogoInv, NEW r \in Requests, SaveBrandName(r)
  PROVE  LogoInv'
<1> DEFINE b == req[r].id
           row == req[r].row
<1>1. /\ req[r].phase = "rename" /\ req[r].table = "brand" /\ b \in Brands
      /\ row \in Brand /\ row.publicId = None
  BY DEF Requesting, ReqShape, SaveBrandName, LogoInv, RenamesKeepFile, NewLogo
<1>2. Close(r) /\ UNCHANGED <<stored, clashed>>
  BY DEF SaveBrandName
<1>3. /\ req'[r].phase = "idle" /\ req'[r].file = None
      /\ \A q \in Requests : q # r => req'[q] = req[q]
  <2>1. Idle.phase = "idle" /\ Idle.file = None
    BY DEF Idle
  <2> QED
    BY <1>2, <2>1, ReqIs DEF Close
<1>4. /\ \A c \in Brands : c # b => brand'[c] = brand[c]
      /\ brand'[b] # None
      /\ brand'[b].publicId = IF brand[b] = None THEN None ELSE brand[b].publicId
      /\ brand[b] # None => brand'[b].logo = row.logo
  <2>1. CASE brand[b] = None
    BY <1>1, <2>1 DEF SaveBrandName, CatalogueTypeOK
  <2>2. CASE brand[b] # None
    <3>1. brand[b] \in Brand
      BY <1>1, <2>2 DEF CatalogueTypeOK
    <3>2. brand' = [brand EXCEPT ![b] = [brand[b] EXCEPT !.logo = row.logo]]
      BY <2>2 DEF SaveBrandName
    <3>3. [brand[b] EXCEPT !.logo = row.logo] \in Brand
      BY <1>1, <3>1 DEF Brand
    <3> QED
      BY <1>1, <2>2, <3>1, <3>2, <3>3 DEF CatalogueTypeOK, Brand
  <2> QED
    BY <2>1, <2>2
<1>5. LogosKept'
  BY <1>1, <1>2, <1>4 DEF LogoInv, LogosKept
<1>6. LogosApart'
  BY <1>1, <1>4 DEF LogoInv, LogosApart
<1>7. NewLogosKept'
  <2> SUFFICES ASSUME NEW q \in Requests, AtSave(q, "brand")'
               PROVE  /\ NewLogo(q)' \in stored' /\ NewLogo(q)' # None
                      /\ req'[q].row.logo = NewLogo(q)'
                      /\ \A c \in Brands : brand'[c] # None => brand'[c].publicId # NewLogo(q)'
                      /\ \A k \in Requests : req'[k].file # NewLogo(q)'
                      /\ \A k \in Requests :
                           AtSave(k, "brand")' /\ k # q => NewLogo(k)' # NewLogo(q)'
    BY DEF NewLogosKept
  <2>1. \A k \in Requests : AtSave(k, "brand")' => k # r /\ req'[k] = req[k]
    BY <1>3 DEF AtSave
  <2>2. \A k \in Requests : AtSave(k, "brand")' => AtSave(k, "brand") /\ NewLogo(k)' = NewLogo(k)
    BY <2>1 DEF AtSave, NewLogo
  <2>3. \A k \in Requests : req'[k].file # NewLogo(q)
    BY <1>3, <2>1, <2>2 DEF LogoInv, NewLogosKept
  <2>4. \A c \in Brands : brand'[c] # None => brand'[c].publicId # NewLogo(q)
    BY <1>4, <2>1, <2>2 DEF LogoInv, NewLogosKept
  <2> QED
    BY <1>2, <2>1, <2>2, <2>3, <2>4 DEF LogoInv, NewLogosKept
<1>8. OldLogosFree'
  BY <1>1, <1>3, <1>4 DEF LogoInv, OldLogosFree, AtSave
<1>9. RenamesKeepFile'
  BY <1>3 DEF LogoInv, RenamesKeepFile, NewLogo
<1>10. BrandCurrent'
  <2> SUFFICES ASSUME NEW c \in Brands, <<"brand", c>> \notin clashed'
               PROVE  /\ brand'[c] # None => brand'[c].logo = brand'[c].publicId
                      /\ \A k, q \in Requests :
                           Uses(k, "brand", c)' /\ Uses(q, "brand", c)' => k = q
                      /\ \A k \in Requests : Uses(k, "brand", c)' /\ req'[k].phase = "rename" =>
                           brand'[c] # None /\ req'[k].row.logo = brand'[c].logo
    BY DEF BrandCurrent
  <2>1. <<"brand", c>> \notin clashed
    BY <1>2
  <2>2. \A k \in Requests : Uses(k, "brand", c)' => k # r /\ Uses(k, "brand", c)
    BY <1>3 DEF Uses
  <2>3. Uses(r, "brand", b)
    BY <1>1 DEF Uses
  <2>4. CASE c # b
    BY <1>3, <1>4, <2>1, <2>2, <2>4 DEF LogoInv, BrandCurrent
  <2>5. CASE c = b
    <3>1. brand[c] # None /\ row.logo = brand[c].logo /\ brand[c].logo = brand[c].publicId
      BY <1>1, <2>1, <2>3, <2>5 DEF LogoInv, BrandCurrent
    <3>2. \A k \in Requests : ~Uses(k, "brand", c)'
      BY <1>1, <2>1, <2>2, <2>3, <2>5 DEF LogoInv, BrandCurrent
    <3>3. brand'[c] # None /\ brand'[c].logo = brand'[c].publicId
      BY <1>4, <2>5, <3>1
    <3> QED
      BY <3>2, <3>3
  <2> QED
    BY <2>4, <2>5
<1> QED
  BY <1>5, <1>6, <1>7, <1>8, <1>9, <1>10 DEF LogoInv

(* The row of a brand is replaced by the one with the new file, or erased:  *)
(* the file it named before may then be deleted.                            *)
LEMMA LogoReplace ==
  ASSUME CatalogueTypeOK, Requesting, LogoInv, NEW r \in Requests, NEW x, NEW row,
         req' = [req EXCEPT ![r] = x], UNCHANGED <<stored, clashed>>,
         \/ x.phase = "idle" /\ x.file = None
         \/ x.phase = "drop" /\ x.file = req[r].file,
         x.phase = "drop" => x.table = req[r].table /\ x.id = req[r].id,
         req[r].table = "brand", req[r].id \in Brands,
         brand' = [brand EXCEPT ![req[r].id] = row],
         \/ AtSave(r, "brand") /\ row = req[r].row
         \/ req[r].phase = "erase" /\ row = None
  PROVE  LogoInv'
<1> DEFINE b == req[r].id
<1>1. /\ req'[r] = x
      /\ \A q \in Requests : q # r => req'[q] = req[q]
  BY ReqIs
<1>2. /\ \A c \in Brands : c # b => brand'[c] = brand[c]
      /\ brand'[b] = row
  BY DEF CatalogueTypeOK
<1>3. row # None => AtSave(r, "brand") /\ row.publicId = NewLogo(r) /\ row.logo = NewLogo(r)
  BY DEF LogoInv, NewLogosKept, NewLogo
<1>4. Uses(r, "brand", b)
  BY DEF Uses, AtSave
<1>5. LogosKept'
  BY <1>2, <1>3 DEF LogoInv, LogosKept, NewLogosKept
<1>6. LogosApart'
  BY <1>2, <1>3 DEF LogoInv, LogosApart, NewLogosKept
<1>7. NewLogosKept'
  <2> SUFFICES ASSUME NEW q \in Requests, AtSave(q, "brand")'
               PROVE  /\ NewLogo(q)' \in stored' /\ NewLogo(q)' # None
                      /\ req'[q].row.logo = NewLogo(q)'
                      /\ \A c \in Brands : brand'[c] # None => brand'[c].publicId # NewLogo(q)'
                      /\ \A k \in Requests : req'[k].file # NewLogo(q)'
                      /\ \A k \in Requests :
                           AtSave(k, "brand")' /\ k # q => NewLogo(k)' # NewLogo(q)'
    BY DEF NewLogosKept
  <2>1. \A k \in Requests : AtSave(k, "brand")' => k # r /\ req'[k] = req[k]
    BY <1>1 DEF AtSave
  <2>2. \A k \in Requests : AtSave(k, "brand")' => AtSave(k, "brand") /\ NewLogo(k)' = NewLogo(k)
    BY <2>1 DEF AtSave, NewLogo
  <2>3. \A k \in Requests : req'[k].file # NewLogo(q)
    BY <1>1, <2>2 DEF LogoInv, NewLogosKept
  <2>4. \A c \in Brands : brand'[c] # None => brand'[c].publicId # NewLogo(q)
    BY <1>2, <1>3, <2>1, <2>2 DEF LogoInv, NewLogosKept
  <2> QED
    BY <2>1, <2>2, <2>3, <2>4 DEF LogoInv, NewLogosKept
<1>8. OldLogosFree'
  <2> SUFFICES ASSUME NEW q \in Requests, NEW c \in Brands, req'[q].file # None,
                      brand'[c] # None, brand'[c].publicId = req'[q].file
               PROVE  /\ req'[q].phase = "erase" \/ AtSave(q, "brand")'
                      /\ req'[q].id = c
    BY DEF OldLogosFree
  <2>1. req'[q].file = req[q].file
    BY <1>1
  <2>2. c # b
    BY <1>2, <1>3, <2>1 DEF LogoInv, NewLogosKept
  <2>3. (req[q].phase = "erase" \/ AtSave(q, "brand")) /\ req[q].id = c
    BY <1>2, <2>1, <2>2 DEF LogoInv, OldLogosFree
  <2>4. q # r
    BY <2>2, <2>3
  <2> QED
    BY <1>1, <2>3, <2>4 DEF AtSave
<1>9. RenamesKeepFile'
  BY <1>1 DEF LogoInv, RenamesKeepFile, NewLogo
<1>10. BrandCurrent'
  <2> SUFFICES ASSUME NEW c \in Brands, <<"brand", c>> \notin clashed
               PROVE  /\ brand'[c] # None => brand'[c].logo = brand'[c].publicId
                      /\ \A k, q \in Requests :
                           Uses(k, "brand", c)' /\ Uses(q, "brand", c)' => k = q
                      /\ \A k \in Requests : Uses(k, "brand", c)' /\ req'[k].phase = "rename" =>
                           brand'[c] # None /\ req'[k].row.logo = brand'[c].logo
    BY DEF BrandCurrent
  <2>1. \A k \in Requests : Uses(k, "brand", c)' => Uses(k, "brand", c)
    BY <1>1, <1>4 DEF Uses
  <2>2. req'[r].phase # "rename"
    BY <1>1
  <2>3. CASE c # b
    BY <1>1, <1>2, <2>1, <2>2, <2>3 DEF LogoInv, BrandCurrent
  <2>4. CASE c = b
    <3>1. \A k \in Requests : Uses(k, "brand", c)' => k = r
      BY <1>4, <2>1, <2>4 DEF LogoInv, BrandCurrent
    <3> QED
      BY <1>2, <1>3, <2>2, <2>4, <3>1
  <2> QED
    BY <2>3, <2>4
<1> QED
  BY <1>5, <1>6, <1>7, <1>8, <1>9, <1>10 DEF LogoInv

LEMMA LogoDrop ==
  ASSUME CatalogueTypeOK, Requesting, LogoInv, NEW r \in Requests, DropFile(r)
  PROVE  LogoInv'
<1>1. /\ req[r].phase = "drop" /\ stored' = stored \ {req[r].file} /\ Close(r)
      /\ UNCHANGED <<brand, clashed>>
  BY DEF DropFile
<1>2. /\ req'[r].phase = "idle" /\ req'[r].file = None
      /\ \A q \in Requests : q # r => req'[q] = req[q]
  <2>1. Idle.phase = "idle" /\ Idle.file = None
    BY DEF Idle
  <2> QED
    BY <1>1, <2>1, ReqIs DEF Close
<1>3. LogosKept'
  BY <1>1 DEF LogoInv, LogosKept, OldLogosFree, AtSave
<1>4. LogosApart'
  BY <1>1 DEF LogoInv, LogosApart
<1>5. NewLogosKept'
  <2> SUFFICES ASSUME NEW q \in Requests, AtSave(q, "brand")'
               PROVE  /\ NewLogo(q)' \in stored' /\ NewLogo(q)' # None
                      /\ req'[q].row.logo = NewLogo(q)'
                      /\ \A b \in Brands : brand'[b] # None => brand'[b].publicId # NewLogo(q)'
                      /\ \A k \in Requests : req'[k].file # NewLogo(q)'
                      /\ \A k \in Requests :
                           AtSave(k, "brand")' /\ k # q => NewLogo(k)' # NewLogo(q)'
    BY DEF NewLogosKept
  <2>1. q # r /\ req'[q] = req[q]
    BY <1>2 DEF AtSave
  <2>2. AtSave(q, "brand") /\ NewLogo(q)' = NewLogo(q)
    BY <2>1 DEF AtSave, NewLogo
  <2>3. \A k \in Requests : AtSave(k, "brand")' => AtSave(k, "brand") /\ NewLogo(k)' = NewLogo(k)
    BY <1>2 DEF AtSave, NewLogo
  <2>4. /\ NewLogo(q) \in stored /\ NewLogo(q) # None /\ req[q].row.logo = NewLogo(q)
        /\ \A b \in Brands : brand[b] # None => brand[b].publicId # NewLogo(q)
        /\ \A k \in Requests : req[k].file # NewLogo(q)
        /\ \A k \in Requests : AtSave(k, "brand") /\ k # q => NewLogo(k) # NewLogo(q)
    BY <2>2 DEF LogoInv, NewLogosKept
  <2>5. \A k \in Requests : req'[k].file # NewLogo(q)
    BY <1>2, <2>4
  <2> QED
    BY <1>1, <2>1, <2>2, <2>3, <2>4, <2>5
<1>6. OldLogosFree'
  BY <1>1, <1>2 DEF LogoInv, OldLogosFree, AtSave
<1>7. RenamesKeepFile'
  BY <1>2 DEF LogoInv, RenamesKeepFile, NewLogo
<1>8. BrandCurrent'
  BY <1>1, <1>2 DEF LogoInv, BrandCurrent, Uses
<1> QED
  BY <1>3, <1>4, <1>5, <1>6, <1>7, <1>8 DEF LogoInv

(* A request that begins without touching the file of a brand.              *)
LEMMA LogoOpenSave ==
  ASSUME Requesting, LogoInv, NEW r \in Requests, NEW t, NEW i, NEW row,
         Open(r, t, i, Saving(row)), UNCHANGED catalogueRows, t # "brand"
  PROVE  LogoInv'
<1> DEFINE x == [Saving(row) EXCEPT !.table = t, !.id = i]
<1>1. x.phase = "save" /\ x.table = t /\ x.id = i /\ x.file = None
  BY SavingIs
<1>2. UNCHANGED <<brand, stored>>
  BY DEF catalogueRows
<1> HIDE DEF x
<1> QED
  BY <1>1, <1>2, LogoOpen DEF x

LEMMA LogoStep ==
  ASSUME CatalogueTypeOK, Requesting, LogoInv, NEW r \in Requests, CatalogueStep(r)
  PROVE  LogoInv'
<1> USE DEF catalogueRows, bounds
<1>1. ReqShape(req[r])
  BY DEF Requesting
<1>2. ASSUME NEW s \in Suggestions, Approve(r, s)
      PROVE  LogoInv'
  <2> DEFINE row == [status |-> "approved"]
             w == [Saving(row) EXCEPT !.phase = "category"]
             x == [w EXCEPT !.table = "suggestion", !.id = s]
  <2>1. Open(r, "suggestion", s, w) /\ UNCHANGED <<brand, stored>>
    BY <1>2 DEF Approve
  <2> HIDE DEF row
  <2>2. x.phase = "category" /\ x.table = "suggestion" /\ x.id = s /\ x.file = None
    BY SavingWith
  <2> HIDE DEF x
  <2> QED
    BY <2>1, <2>2, LogoOpen DEF x
<1>3. ASSUME NEW s \in Suggestions, Reject(r, s)
      PROVE  LogoInv'
  BY <1>3, LogoOpenSave DEF Reject
<1>4. ASSUME NEW s \in SubCategories, NEW names, UpdateSubCategory(r, s, names)
      PROVE  LogoInv'
  BY <1>4, LogoOpenSave DEF UpdateSubCategory
<1>5. ASSUME NEW a \in Attributes, NEW required \in BOOLEAN, NEW appliesTo \in AppliesTo,
             NEW sent, EditAttribute(r, a, required, appliesTo, sent)
      PROVE  LogoInv'
  BY <1>5, LogoOpenSave DEF EditAttribute
<1>6. ASSUME NEW c \in Colors, NEW h \in Shades, EditColor(r, c, h)
      PROVE  LogoInv'
  BY <1>6, LogoOpenSave DEF EditColor
<1>7. CASE SaveSuggestedCategory(r)
  <2> DEFINE x == [req[r] EXCEPT !.phase = "save"]
  <2>1. /\ req[r].phase = "category" /\ UNCHANGED <<brand, stored, clashed>>
        /\ Close(r) \/ req' = [req EXCEPT ![r] = x]
    BY <1>7 DEF SaveSuggestedCategory
  <2>2. x.phase = "save" /\ x.table = req[r].table /\ x.file = req[r].file
    BY <2>1
  <2>3. req[r].table = "suggestion"
    BY <1>1, <2>1 DEF ReqShape
  <2> HIDE DEF x
  <2> QED
    BY <2>1, <2>2, <2>3, LogoClose, LogoGoes
<1>8. CASE SaveSuggestion(r) \/ SaveSubCategory(r) \/ SaveAttribute(r) \/ SaveColor(r)
  BY <1>8, LogoClose DEF SaveSuggestion, SaveSubCategory, SaveAttribute, SaveColor
<1>9. ASSUME NEW b \in Brands, UpdateBrand(r, b)
      PROVE  LogoInv'
  <2> DEFINE row == [logo |-> brand[b].logo, publicId |-> None]
             w == [Saving(row) EXCEPT !.phase = "rename"]
             x == [w EXCEPT !.table = "brand", !.id = b]
  <2>1. brand[b] # None /\ Open(r, "brand", b, w) /\ UNCHANGED <<brand, stored>>
    BY <1>9 DEF UpdateBrand
  <2>2. row.logo = brand[b].logo /\ row.publicId = None
    OBVIOUS
  <2> HIDE DEF row
  <2>3. x.phase = "rename" /\ x.table = "brand" /\ x.id = b /\ x.row = row /\ x.file = None
    BY SavingWith
  <2> HIDE DEF x
  <2>4. x.row.logo = brand[b].logo /\ x.row.publicId = None
    BY <2>2, <2>3
  <2>5. /\ x.phase = "save" /\ "brand" = "brand" =>
             /\ x.row.logo = x.row.publicId /\ x.row.publicId \in Files
             /\ Fresh(x.row.publicId) /\ x.row.publicId \in stored'
        /\ x.phase = "rename" =>
             /\ "brand" = "brand" /\ brand[b] # None
             /\ x.row.logo = brand[b].logo /\ x.row.publicId = None
    BY <2>1, <2>3, <2>4
  <2>6. req' = [req EXCEPT ![r] = x]
    BY <2>1 DEF Open, x
  <2>7. req'[r] = x /\ \A q \in Requests : q # r => req'[q] = req[q]
    BY <2>6, ReqIs
  <2>8. /\ req[r].phase = "idle" /\ clashed \subseteq clashed'
        /\ <<"brand", b>> \notin clashed' => \A q \in Requests : ~Uses(q, "brand", b)
        /\ stored \subseteq stored' /\ UNCHANGED brand
    BY <2>1 DEF Open
  <2> QED
    BY <2>3, <2>5, <2>7, <2>8, LogoBegin
<1>10. ASSUME NEW b \in Brands, NEW f \in Files, UploadLogo(r, b, f)
       PROVE  LogoInv'
  <2> DEFINE row == [logo |-> f, publicId |-> f]
             w == [Saving(row) EXCEPT !.file = brand[b].publicId]
             x == [w EXCEPT !.table = "brand", !.id = b]
  <2>1. /\ brand[b] # None /\ Fresh(f) /\ stored' = stored \cup {f}
        /\ Open(r, "brand", b, w) /\ UNCHANGED brand
    BY <1>10 DEF UploadLogo, OpenUpload
  <2>2. row.logo = f /\ row.publicId = f
    OBVIOUS
  <2> HIDE DEF row
  <2>3. /\ x.phase = "save" /\ x.table = "brand" /\ x.id = b /\ x.row = row
        /\ x.file = brand[b].publicId
    BY SavingFile
  <2> HIDE DEF x
  <2>4. stored \subseteq stored' /\ f \in stored'
    BY <2>1
  <2>5. x.row.logo = f /\ x.row.publicId = f
    BY <2>2, <2>3
  <2>6. /\ x.phase = "save" /\ "brand" = "brand" =>
             /\ x.row.logo = x.row.publicId /\ x.row.publicId \in Files
             /\ Fresh(x.row.publicId) /\ x.row.publicId \in stored'
        /\ x.phase = "rename" =>
             /\ "brand" = "brand" /\ brand[b] # None
             /\ x.row.logo = brand[b].logo /\ x.row.publicId = None
    <3>1. x.row.publicId \in Files /\ x.row.publicId \in stored'
      BY <2>4, <2>5
    <3>2. Fresh(x.row.publicId)
      BY <2>1, <2>5
    <3> QED
      BY <2>3, <2>5, <3>1, <3>2
  <2>7. req' = [req EXCEPT ![r] = x]
    BY <2>1 DEF Open, x
  <2>8. req'[r] = x /\ \A q \in Requests : q # r => req'[q] = req[q]
    BY <2>7, ReqIs
  <2>9. /\ req[r].phase = "idle" /\ clashed \subseteq clashed'
        /\ <<"brand", b>> \notin clashed' => \A q \in Requests : ~Uses(q, "brand", b)
        /\ stored \subseteq stored' /\ UNCHANGED brand
    BY <2>1, <2>4 DEF Open
  <2> QED
    BY <2>1, <2>3, <2>6, <2>8, <2>9, LogoBegin
<1>11. CASE SaveBrand(r)
  <2> DEFINE x == [req[r] EXCEPT !.phase = "drop"]
  <2>1. /\ AtSave(r, "brand") /\ UNCHANGED <<stored, clashed>>
        /\ brand' = [brand EXCEPT ![req[r].id] = req[r].row]
        /\ Close(r) \/ req' = [req EXCEPT ![r] = x]
    BY <1>11 DEF SaveBrand
  <2>2. x.phase = "drop" /\ x.table = req[r].table /\ x.id = req[r].id /\ x.file = req[r].file
    BY <2>1 DEF AtSave
  <2>3. req[r].table = "brand" /\ req[r].id \in Brands
    BY <1>1, <2>1 DEF ReqShape, Saves, AtSave
  <2>4. Idle.phase = "idle" /\ Idle.file = None
    BY DEF Idle
  <2> HIDE DEF x
  <2>5. CASE req' = [req EXCEPT ![r] = x]
    BY <2>1, <2>2, <2>3, <2>5, LogoReplace
  <2>6. CASE req' = [req EXCEPT ![r] = Idle]
    BY <2>1, <2>3, <2>4, <2>6, LogoReplace
  <2> QED
    BY <2>1, <2>5, <2>6 DEF Close
<1>12. CASE BreakOff(r)
  BY <1>12, LogoClose DEF BreakOff
<1> QED
  BY <1>2, <1>3, <1>4, <1>5, <1>6, <1>7, <1>8, <1>9, <1>10, <1>11, <1>12,
     LogoRename, LogoDrop DEF CatalogueStep

LEMMA LogoRemoveBrand ==
  ASSUME CatalogueTypeOK, Requesting, LogoInv, NEW r \in Requests, NEW b \in Brands,
         RemoveBrand(r, b)
  PROVE  LogoInv'
<1> DEFINE w == [Idle EXCEPT !.phase = "erase", !.file = brand[b].publicId]
           x == [w EXCEPT !.table = "brand", !.id = b]
<1>1. brand[b] # None /\ Open(r, "brand", b, w) /\ UNCHANGED <<brand, stored>>
  BY DEF RemoveBrand, catalogueRows
<1>2. x.phase = "erase" /\ x.table = "brand" /\ x.id = b /\ x.file = brand[b].publicId
  BY ErasingIs
<1> HIDE DEF x
<1> QED
  BY <1>1, <1>2, LogoOpen DEF x

LEMMA LogoErase ==
  ASSUME CatalogueTypeOK, Requesting, LogoInv, NEW r \in Requests, EraseBrand(r)
  PROVE  LogoInv'
<1> DEFINE x == [req[r] EXCEPT !.phase = "drop"]
<1>1. /\ req[r].phase = "erase" /\ req[r].table = "brand" /\ req[r].id \in Brands
  BY DEF EraseBrand, Requesting, ReqShape
<1>2. /\ UNCHANGED <<stored, clashed>>
      /\ \/ UNCHANGED brand /\ Close(r)
         \/ /\ brand' = [brand EXCEPT ![req[r].id] = None]
            /\ Close(r) \/ req' = [req EXCEPT ![r] = x]
  BY DEF EraseBrand
<1>3. x.phase = "drop" /\ x.table = req[r].table /\ x.id = req[r].id /\ x.file = req[r].file
  BY <1>1
<1>4. Idle.phase = "idle" /\ Idle.file = None
  BY DEF Idle
<1> HIDE DEF x
<1>5. CASE UNCHANGED brand /\ Close(r)
  BY <1>2, <1>5, LogoClose
<1>6. CASE brand' = [brand EXCEPT ![req[r].id] = None]
  <2>1. CASE req' = [req EXCEPT ![r] = Idle]
    BY <1>1, <1>2, <1>4, <1>6, <2>1, LogoReplace
  <2>2. CASE req' = [req EXCEPT ![r] = x]
    BY <1>1, <1>2, <1>3, <1>6, <2>2, LogoReplace
  <2> QED
    BY <1>2, <1>5, <2>1, <2>2 DEF Close
<1> QED
  BY <1>2, <1>5, <1>6

(* What the requests about products leave of the catalogue.                 *)
LEMMA RestKeepsLogos ==
  ASSUME [Next]_vars
  PROVE  \/ CatalogueNext
         \/ \E r \in Requests : EraseBrand(r) \/ \E b \in Brands : RemoveBrand(r, b)
         \/ UNCHANGED <<catalogueRows, req, clashed>>
<1> USE DEF catalogue, filing, vars
<1>1. ASSUME NEW j \in Requests, JobStep(j)
      PROVE  UNCHANGED <<catalogueRows, req, clashed>>
  BY <1>1 DEF JobStep, Create, Update, Judge, AddFavorite, Begin, InsertProduct,
     InsertVariant, LinkMedia, SaveValues, ReadVariants, CommitUpdate, SaveVerdict,
     InsertFavorite, BreakOffJob, Checkout, SellItem, SaveStock
<1>2. ASSUME NEW p \in Products, RemoveProduct(p)
      PROVE  UNCHANGED <<catalogueRows, req, clashed>>
  BY <1>2 DEF RemoveProduct
<1>3. ASSUME NEW m \in Media,
             \/ \E p \in Products \cup {None} : UploadMedia(m, p)
             \/ \E p \in Products : AssignMedia(m, p)
             \/ RemoveMedia(m)
      PROVE  UNCHANGED <<catalogueRows, req, clashed>>
  BY <1>3 DEF UploadMedia, AssignMedia, RemoveMedia
<1>4. ASSUME NEW b \in Buyers, NEW p \in Products, RemoveFavorite(b, p)
      PROVE  UNCHANGED <<catalogueRows, req, clashed>>
  BY <1>4 DEF RemoveFavorite
<1> QED
  BY <1>1, <1>2, <1>3, <1>4 DEF Next

LEMMA LogoNext ==
  ASSUME Typed, LogoInv, [Next]_vars
  PROVE  LogoInv'
<1>1. CatalogueTypeOK /\ Requesting
  BY DEF Typed, TypeOK
<1>2. CASE UNCHANGED <<catalogueRows, req, clashed>>
  BY <1>2, LogoSame DEF catalogueRows
<1>3. CASE RemoveCategory
  BY <1>3, LogoSame DEF RemoveCategory
<1>4. ASSUME NEW a \in Attributes, RemoveAttribute(a)
      PROVE  LogoInv'
  BY <1>4, LogoSame DEF RemoveAttribute
<1>5. ASSUME NEW c \in Colors, RemoveColor(c)
      PROVE  LogoInv'
  BY <1>5, LogoSame DEF RemoveColor
<1> QED
  BY <1>1, <1>2, <1>3, <1>4, <1>5, LogoStep, LogoErase, LogoRemoveBrand, RestKeepsLogos
  DEF CatalogueNext

LEMMA LogoInit ==
  ASSUME Init
  PROVE  LogoInv
<1>1. \A r \in Requests : req[r] = Idle
  BY DEF Init, CatalogueInit
<1>2. Idle.phase = "idle" /\ Idle.file = None
  BY DEF Idle
<1>3. \A b \in Brands : brand[b].logo = None /\ brand[b].publicId = None
  BY DEF Init, CatalogueInit
<1>4. LogosKept /\ LogosApart
  BY <1>3 DEF LogosKept, LogosApart
<1>5. NewLogosKept /\ OldLogosFree /\ RenamesKeepFile
  BY <1>1, <1>2 DEF NewLogosKept, OldLogosFree, RenamesKeepFile, AtSave
<1>6. BrandCurrent
  BY <1>1, <1>2, <1>3 DEF BrandCurrent, Uses
<1> QED
  BY <1>4, <1>5, <1>6 DEF LogoInv

(* What deletes the logo of a brand names a file the image store keeps,     *)
(* whatever uploads, renames and removals overlap or break off, and where   *)
(* they did not its URL is that of the same file                            *)
(* (BrandsService.uploadLogo, update, remove).                              *)
THEOREM LogoStored == Spec => []LogoIsStored
<1>1. Init => Typed /\ LogoInv
  BY TypedInit, LogoInit
<1>2. (Typed /\ LogoInv) /\ [Next]_vars => (Typed /\ LogoInv)'
  <2>1. Typed /\ [Next]_vars => Typed'
    BY TypedStep
  <2>2. Typed /\ LogoInv /\ [Next]_vars => LogoInv'
    BY LogoNext
  <2> QED
    BY <2>1, <2>2
<1>3. Typed /\ LogoInv => LogoIsStored
  BY DEF LogoInv, LogosKept, BrandCurrent, LogoIsStored, Settled
<1> QED
  BY <1>1, <1>2, <1>3, PTL DEF Spec

------------------------------------------------------------------------------
(* Products, variants and favourites.                                       *)

(* A product a step has nothing to do with.                                 *)
Untouched(q) ==
  /\ product'[q] = product[q] /\ (q \in cleared' <=> q \in cleared)
  /\ (q \in adrift' <=> q \in adrift)
  /\ VariantsOf(q)' = VariantsOf(q)
  /\ \A v \in VariantsOf(q) : variant'[v] = variant[v]

LEMMA Elsewhere ==
  ASSUME NEW q \in Products, Kept(q), Untouched(q),
         \A k \in Requests : At(k, q)' <=> At(k, q),
         \A k \in Requests : At(k, q) => job'[k] = job[k]
  PROVE  Kept(q)'
<1>1. /\ Exists(q)' <=> Exists(q)
      /\ Live(q)' <=> Live(q)
      /\ Listed(q)' <=> Listed(q)
  BY DEF Exists, Live, Listed, Untouched
<1>2. ActiveOf(q)' = ActiveOf(q)
  BY DEF ActiveOf, Untouched
<1>7. Counted(q) => Counted(q)'
  BY <1>2 DEF Counted, ActiveOf, Untouched
<1>3. Alone(q)'
  BY DEF Kept, Alone
<1>4. ListedAs(q)'
  BY <1>1 DEF Kept, ListedAs, Untouched
<1>5. StockAs(q)'
  BY <1>1, <1>2, <1>7 DEF Kept, StockAs, Untouched
<1>6. ASSUME NEW k \in Requests, At(k, q)'
      PROVE  Sees(job[k], q)'
  <2>1. At(k, q) /\ job'[k] = job[k] /\ Sees(job[k], q)
    BY <1>6 DEF Kept
  <2>2. PICK x : x = job[k]
    OBVIOUS
  <2>3. TotalStock(x.form)' = TotalStock(x.form)
    BY DEF TotalStock, Sent
  <2>4. Sees(x, q)
    BY <2>1, <2>2
  <2>5. Sees(x, q)'
    BY <1>1, <2>3, <2>4 DEF Sees, Untouched
  <2> QED
    BY <2>1, <2>2, <2>5
<1> QED
  BY <1>3, <1>4, <1>5, <1>6 DEF Kept

(* A step of request j, about product p.                                    *)
LEMMA KeepElsewhere ==
  ASSUME AllKept, NEW j \in Requests, NEW p \in Products,
         \A k \in Requests : k # j => job'[k] = job[k],
         job[j].phase = "idle" \/ job[j].product = p,
         job'[j].phase = "idle" \/ job'[j].product = p,
         \A q \in Products : q # p => Untouched(q),
         disturbed \subseteq disturbed',
         p \notin disturbed' => Kept(p)'
  PROVE  AllKept'
<1> SUFFICES ASSUME NEW q \in Products, q # p, q \notin disturbed'
             PROVE  Kept(q)'
  BY DEF AllKept
<1>1. Kept(q) /\ Untouched(q)
  BY DEF AllKept
<1>2. ASSUME NEW k \in Requests
      PROVE  /\ At(k, q)' <=> At(k, q)
             /\ At(k, q) => job'[k] = job[k]
  BY DEF At
<1> QED
  BY <1>1, <1>2, Elsewhere

(* Nothing happens on the shelf.                                            *)
LEMMA SameUntouched ==
  ASSUME UNCHANGED <<product, variant>>, NEW q, q \in cleared' <=> q \in cleared,
         q \in adrift' <=> q \in adrift
  PROVE  Untouched(q)
BY DEF Untouched, VariantsOf

LEMMA ShelfSame ==
  ASSUME ShelfInv, UNCHANGED <<product, variant, job, cleared, adrift>>,
         favorite' \subseteq favorite, disturbed' = disturbed
  PROVE  ShelfInv'
<1>1. FormsApart' /\ NewVariantsFree' /\ VariantsWhole' /\ FavoritesLive'
  BY DEF ShelfInv, FormsApart, NewVariantsFree, VariantsWhole, FavoritesLive, Exists, Live
<1>2. ASSUME NEW q \in Products, q \notin disturbed
      PROVE  Kept(q)'
  <2>1. Kept(q) /\ Untouched(q)
    BY <1>2, SameUntouched DEF ShelfInv, AllKept
  <2>2. \A k \in Requests : At(k, q)' <=> At(k, q)
    BY DEF At
  <2> QED
    BY <2>1, <2>2, Elsewhere
<1> QED
  BY <1>1, <1>2 DEF ShelfInv, AllKept

LEMMA JobSetIs ==
  ASSUME Typed, NEW j \in Requests, NEW x, job' = [job EXCEPT ![j] = x]
  PROVE  /\ job'[j] = x
         /\ \A k \in Requests : k # j => job'[k] = job[k]
BY DEF Typed, TypeOK

(* A request begins.                                                        *)
LEMMA ShelfBegin ==
  ASSUME Typed, ShelfInv, NEW j \in Requests, NEW p \in Products, NEW w, Begin(j, p, w),
         NEW x, x = [w EXCEPT !.product = p], x.product = p,
         x.phase \in {"product", "begin", "verdict", "favorite", "sale"}, Sees(x, p),
         \A v \in Variants : x.form # None /\ v \in x.form.new => variant[v] = None,
         \A k \in Requests : x.form # None /\ job[k].form # None =>
           job[k].form.new \cap x.form.new = {},
         x.phase \in {"product", "begin"} => x.form # None
  PROVE  ShelfInv'
<1>1. /\ job[j].phase = "idle" /\ job' = [job EXCEPT ![j] = x]
      /\ disturbed' = Overlap(p)
      /\ UNCHANGED <<product, variant, favorite, cleared, adrift>>
  BY DEF Begin, shelf
<1>2. job'[j] = x /\ \A k \in Requests : k # j => job'[k] = job[k]
  BY <1>1, JobSetIs
<1>3. FormsApart'
  <2>1. ASSUME NEW k \in Requests, x.form # None, job[k].form # None
        PROVE  /\ x.form.new \cap job[k].form.new = {}
               /\ job[k].form.new \cap x.form.new = {}
    BY <2>1
  <2>2. ASSUME NEW a \in Requests, NEW b \in Requests, a # b,
               job'[a].form # None, job'[b].form # None
        PROVE  job'[a].form.new \cap job'[b].form.new = {}
    <3>1. CASE a = j
      BY <1>2, <2>1, <2>2, <3>1
    <3>2. CASE b = j
      BY <1>2, <2>1, <2>2, <3>2
    <3>3. CASE a # j /\ b # j
      BY <1>2, <2>2, <3>3 DEF FormsApart, ShelfInv
    <3> QED
      BY <3>1, <3>2, <3>3
  <2> QED
    BY <2>2 DEF FormsApart
<1>4. NewVariantsFree'
  BY <1>1, <1>2 DEF NewVariantsFree, ShelfInv
<1>5. VariantsWhole'
  BY <1>1 DEF VariantsWhole, ShelfInv, Exists
<1>6. disturbed \subseteq disturbed'
  BY <1>1 DEF Overlap
<1>7. FavoritesLive'
  BY <1>1, <1>6 DEF FavoritesLive, ShelfInv, Live, Exists
<1>8. Sees(x, p)'
  BY <1>1 DEF Sees, Exists, Live, VariantsOf, TotalStock, Sent
<1>9. ASSUME p \notin disturbed'
      PROVE  Kept(p)'
  <2>1. Kept(p) /\ \A k \in Requests : ~At(k, p)
    BY <1>1, <1>6, <1>9 DEF Overlap, ShelfInv, AllKept
  <2>2. \A k \in Requests : At(k, p)' => k = j
    BY <1>2, <2>1 DEF At
  <2>3. ListedAs(p)' /\ (Exists(p)' <=> Exists(p)) /\ ActiveOf(p)' = ActiveOf(p)
    BY <1>1, <2>1 DEF Kept, ListedAs, Listed, Exists, ActiveOf, VariantsOf
  <2>4. StockAs(p)'
    BY <1>1, <2>1, <2>3 DEF Kept, StockAs, Counted
  <2> QED
    BY <1>2, <1>8, <2>2, <2>3, <2>4 DEF Kept, Alone
<1>10. \A q \in Products : Untouched(q)
  BY <1>1, SameUntouched
<1>11. AllKept'
  BY <1>1, <1>2, <1>6, <1>9, <1>10, KeepElsewhere DEF ShelfInv
<1> QED
  BY <1>3, <1>4, <1>5, <1>7, <1>11 DEF ShelfInv

LEMMA ShelfCreate ==
  ASSUME Typed, ShelfInv, NEW j \in Requests, NEW p \in Products, NEW form \in Forms,
         Create(j, p, form)
  PROVE  ShelfInv'
<1> DEFINE lacking == Lacking(form, form.sub)
           incomplete == Incomplete(form, form.sub)
           sensitive == Sensitive(form.sub)
           w == [Rest EXCEPT !.phase = "product", !.form = form, !.lacking = lacking,
                   !.incomplete = incomplete, !.sensitive = sensitive]
           x == [w EXCEPT !.product = p]
<1>1. Begin(j, p, w) /\ Acceptable(form) /\ product[p] = None
  BY DEF Create
<1> HIDE DEF lacking, incomplete, sensitive
<1>2. x.phase = "product" /\ x.product = p /\ x.form = form
  BY DEF Rest
<1> HIDE DEF x
<1>3. Sees(x, p)
  BY <1>1, <1>2 DEF Sees, Exists
<1>4. /\ \A v \in Variants : v \in form.new => variant[v] = None
      /\ \A k \in Requests : job[k].form # None => job[k].form.new \cap form.new = {}
      /\ form # None
  BY <1>1, FormIs DEF Acceptable
<1>5. /\ \A v \in Variants : x.form # None /\ v \in x.form.new => variant[v] = None
      /\ \A k \in Requests : x.form # None /\ job[k].form # None =>
           job[k].form.new \cap x.form.new = {}
      /\ x.phase \in {"product", "begin"} => x.form # None
  BY <1>2, <1>4
<1> QED
  BY <1>1, <1>2, <1>3, <1>5, ShelfBegin DEF x

LEMMA ShelfUpdate ==
  ASSUME Typed, ShelfInv, NEW j \in Requests, NEW p \in Products, NEW form \in Forms,
         Update(j, p, form)
  PROVE  ShelfInv'
<1> DEFINE lacking == form.sub # None /\ Lacking(form, form.sub)
           sensitive == form.sub # None /\ Sensitive(form.sub)
           w == [Rest EXCEPT !.phase = "begin", !.form = form, !.lacking = lacking,
                   !.sensitive = sensitive]
           x == [w EXCEPT !.product = p]
<1>1. Begin(j, p, w) /\ Acceptable(form) /\ Live(p)
  BY DEF Update
<1> HIDE DEF lacking, sensitive
<1>2. x.phase = "begin" /\ x.product = p /\ x.form = form
  BY DEF Rest
<1> HIDE DEF x
<1>3. Sees(x, p)
  BY <1>1, <1>2 DEF Sees
<1>4. /\ \A v \in Variants : v \in form.new => variant[v] = None
      /\ \A k \in Requests : job[k].form # None => job[k].form.new \cap form.new = {}
      /\ form # None
  BY <1>1, FormIs DEF Acceptable
<1>5. /\ \A v \in Variants : x.form # None /\ v \in x.form.new => variant[v] = None
      /\ \A k \in Requests : x.form # None /\ job[k].form # None =>
           job[k].form.new \cap x.form.new = {}
      /\ x.phase \in {"product", "begin"} => x.form # None
  BY <1>2, <1>4
<1> QED
  BY <1>1, <1>2, <1>3, <1>5, ShelfBegin DEF x

LEMMA ShelfJudge ==
  ASSUME Typed, ShelfInv, NEW j \in Requests, NEW p \in Products, NEW approval \in Status,
         Judge(j, p, approval)
  PROVE  ShelfInv'
<1> DEFINE row == Judged(p, approval)
           w == [Rest EXCEPT !.phase = "verdict", !.row = row]
           x == [w EXCEPT !.product = p]
<1>1. Begin(j, p, w) /\ Live(p)
  BY DEF Judge, Judged
<1>2. /\ row.approval = approval /\ row.active = (approval = "approved")
      /\ row.stock = product[p].stock /\ row.deleted = product[p].deleted
  BY <1>1, JudgedIs DEF Live, Exists
<1> HIDE DEF row
<1>3. x.phase = "verdict" /\ x.product = p /\ x.form = None /\ x.row = row
  BY DEF Rest
<1> HIDE DEF x
<1>4. Sees(x, p)
  BY <1>1, <1>2, <1>3 DEF Sees, Live
<1> QED
  BY <1>1, <1>3, <1>4, ShelfBegin DEF x

LEMMA ShelfAddFavorite ==
  ASSUME Typed, ShelfInv, NEW j \in Requests, NEW p \in Products, NEW b \in Buyers,
         AddFavorite(j, b, p)
  PROVE  ShelfInv'
<1> DEFINE w == [Rest EXCEPT !.phase = "favorite", !.buyer = b]
           x == [w EXCEPT !.product = p]
<1>1. Begin(j, p, w) /\ Live(p)
  BY DEF AddFavorite
<1>2. x.phase = "favorite" /\ x.product = p /\ x.form = None
  BY DEF Rest
<1> HIDE DEF x
<1>3. Sees(x, p)
  BY <1>1, <1>2 DEF Sees
<1> QED
  BY <1>1, <1>2, <1>3, ShelfBegin DEF x

LEMMA ShelfCheckout ==
  ASSUME Typed, ShelfInv, NEW j \in Requests, NEW p \in Products,
         NEW item \in Variants \cup {None}, Checkout(j, p, item)
  PROVE  ShelfInv'
<1> DEFINE piece == IF item = None THEN product[p] ELSE variant[item]
           row == Sold(piece)
           found == IF item = None THEN {} ELSE {item}
           w == [Rest EXCEPT !.phase = "sale", !.found = found, !.row = row]
           x == [w EXCEPT !.product = p]
<1>1. Begin(j, p, w) /\ Live(p)
  BY DEF Checkout, Sold
<1>2. found = {} => /\ row.active = product[p].active /\ row.approval = product[p].approval
                    /\ row.deleted = product[p].deleted
  <2>1. ASSUME item = None
        PROVE  /\ row.active = product[p].active /\ row.approval = product[p].approval
               /\ row.deleted = product[p].deleted
    <3>1. Checkout(j, p, None)
      BY <2>1
    <3>2. row = Sold(product[p])
      BY <2>1
    <3> HIDE DEF row
    <3> QED
      BY <3>1, <3>2, SoldProduct
  <2>2. found = {} => item = None
    OBVIOUS
  <2> QED
    BY <2>1, <2>2
<1> HIDE DEF row, found
<1>3. x.phase = "sale" /\ x.product = p /\ x.form = None /\ x.row = row /\ x.found = found
  BY DEF Rest
<1> HIDE DEF x
<1>4. Sees(x, p)
  BY <1>1, <1>2, <1>3 DEF Sees, Live
<1> QED
  BY <1>1, <1>3, <1>4, ShelfBegin DEF x

(* A request goes on or ends: what is left to show is about its product.    *)
LEMMA ShelfStep ==
  ASSUME Typed, ShelfInv, NEW j \in Requests, NEW p \in Products,
         job[j].phase # "idle", job[j].product = p,
         NEW x, job' = [job EXCEPT ![j] = x],
         x.phase = "idle" \/ x.product = p,
         x.form = None \/ x.form = job[j].form,
         NewVariantsFree', VariantsWhole', FavoritesLive', disturbed \subseteq disturbed',
         \A q \in Products : q # p => Untouched(q),
         p \notin disturbed' =>
           /\ x.phase # "idle" => Sees(x, p)'
           /\ ListedAs(p)'
           /\ Exists(p)' /\ ActiveOf(p)' # {} /\ p \notin adrift' /\ x.phase # "variants" =>
                Counted(p)'
  PROVE  ShelfInv'
<1>1. job'[j] = x /\ \A k \in Requests : k # j => job'[k] = job[k]
  BY JobSetIs
<1>2. FormsApart'
  <2> SUFFICES ASSUME NEW a \in Requests, NEW b \in Requests, a # b,
                      job'[a].form # None, job'[b].form # None
               PROVE  job'[a].form.new \cap job'[b].form.new = {}
    BY DEF FormsApart
  <2>1. job'[a].form = job[a].form /\ job'[b].form = job[b].form
    BY <1>1
  <2> QED
    BY <2>1 DEF FormsApart, ShelfInv
<1>3. ASSUME p \notin disturbed'
      PROVE  Kept(p)'
  <2>1. Alone(p) /\ At(j, p)
    BY <1>3 DEF ShelfInv, AllKept, Kept, At
  <2>2. \A k \in Requests : At(k, p)' => k = j
    BY <1>1, <2>1 DEF At, Alone
  <2>3. At(j, p)' <=> x.phase # "idle"
    BY <1>1 DEF At
  <2>4. \A k \in Requests : At(k, p)' => Sees(job[k], p)'
    BY <1>1, <1>3, <2>2, <2>3
  <2>5. StockAs(p)'
    <3> SUFFICES ASSUME Exists(p)', ActiveOf(p)' # {}, p \notin adrift',
                        \A k \in Requests : At(k, p)' => job'[k].phase # "variants"
                 PROVE  Counted(p)'
      BY DEF StockAs
    <3>1. x.phase # "variants"
      BY <1>1, <2>3
    <3> QED
      BY <1>3, <3>1
  <2> QED
    BY <1>3, <2>2, <2>4, <2>5 DEF Kept, Alone
<1>4. AllKept'
  BY <1>1, <1>3, KeepElsewhere DEF ShelfInv
<1> QED
  BY <1>2, <1>4 DEF ShelfInv

LEMMA RestIs == Rest.phase = "idle" /\ Rest.form = None
BY DEF Rest

(* A request ends and leaves the shelf as it is.                            *)
LEMMA ShelfEnd ==
  ASSUME Typed, ShelfInv, NEW j \in Requests, NEW p \in Products,
         job[j].phase # "idle", job[j].product = p, End(j),
         UNCHANGED <<product, variant, cleared, adrift>>, FavoritesLive',
         disturbed \subseteq disturbed',
         job[j].phase = "variants" => p \in disturbed'
  PROVE  ShelfInv'
<1>1. job' = [job EXCEPT ![j] = Rest]
  BY DEF End
<1>2. job'[j] = Rest /\ \A k \in Requests : k # j => job'[k] = job[k]
  BY <1>1, JobSetIs
<1>3. NewVariantsFree'
  BY <1>2, RestIs DEF ShelfInv, NewVariantsFree
<1>4. VariantsWhole'
  BY DEF ShelfInv, VariantsWhole, Exists
<1>5. \A q \in Products : q # p => Untouched(q)
  BY SameUntouched
<1>6. ASSUME p \notin disturbed'
      PROVE  /\ ListedAs(p)'
             /\ Exists(p)' /\ ActiveOf(p)' # {} /\ p \notin adrift' => Counted(p)'
  <2>1. Kept(p) /\ At(j, p) /\ job[j].phase # "variants"
    BY <1>6 DEF ShelfInv, AllKept, At
  <2>2. /\ Exists(p)' <=> Exists(p)
        /\ Listed(p)' <=> Listed(p)
        /\ ActiveOf(p)' = ActiveOf(p)
    BY DEF Exists, Listed, ActiveOf, VariantsOf
  <2>3. \A k \in Requests : At(k, p) => job[k].phase # "variants"
    BY <2>1 DEF Kept, Alone
  <2> QED
    BY <2>1, <2>2, <2>3 DEF Kept, ListedAs, StockAs, Counted
<1> QED
  BY <1>1, <1>3, <1>4, <1>5, <1>6, RestIs, ShelfStep

LEMMA FavoritesSame ==
  ASSUME ShelfInv, favorite' \subseteq favorite, disturbed \subseteq disturbed',
         \A q \in Products : q \notin disturbed' /\ Live(q) => Live(q)',
         favorite \subseteq Buyers \X Products
  PROVE  FavoritesLive'
<1>1. ASSUME NEW f \in favorite', f[2] \notin disturbed'
      PROVE  Live(f[2])'
  <2>1. f \in favorite /\ f[2] \in Products /\ Live(f[2])
    BY <1>1 DEF ShelfInv, FavoritesLive
  <2> QED
    BY <1>1, <2>1
<1> QED
  BY <1>1 DEF FavoritesLive

(* The product j is about, when nothing overlapped.                         *)
LEMMA SeesOwn ==
  ASSUME ShelfInv, NEW j \in Requests, NEW p \in Products,
         job[j].phase # "idle", job[j].product = p, p \notin disturbed
  PROVE  /\ Kept(p) /\ Sees(job[j], p)
         /\ \A k \in Requests : At(k, p) => k = j
BY DEF ShelfInv, AllKept, Kept, Alone, At

LEMMA GoneHasNoVariants ==
  ASSUME ShelfInv, NEW p \in Products, ~Exists(p)
  PROVE  VariantsOf(p) = {}
BY DEF ShelfInv, VariantsWhole, VariantsOf

LEMMA ShelfInsertProduct ==
  ASSUME Typed, ShelfInv, NEW j \in Requests, NEW p \in Products, NEW form \in Forms,
         job[j].product = p, job[j].form = form, InsertProduct(j)
  PROVE  ShelfInv'
<1> DEFINE s == job[j].sensitive
<1>1. /\ job[j].phase = "product" /\ form.sub # None /\ form.keep = {} /\ s \in BOOLEAN
      /\ job[j] \in Job /\ (form.new = {} => form.stock # None)
  BY JobIs DEF InsertProduct, JobShape, Creating, Job
<1>2. UNCHANGED <<variant, favorite, disturbed>>
  BY DEF InsertProduct
<1>3. favorite \subseteq Buyers \X Products /\ product \in [Products -> Product \cup {None}]
  BY DEF Typed, TypeOK
<1>4. CASE BrandIsGone(form)
  <2>1. End(j) /\ UNCHANGED <<product, cleared, adrift>>
    BY <1>4 DEF InsertProduct
  <2>2. FavoritesLive'
    BY <1>2, <1>3, <2>1, FavoritesSame DEF Live, Exists
  <2> QED
    BY <1>1, <1>2, <2>1, <2>2, ShelfEnd
<1>5. CASE ~BrandIsGone(form)
  <2>1. /\ product' = [product EXCEPT ![p] = Inserted(form, s)]
        /\ cleared' = IF s THEN cleared \ {p} ELSE cleared \cup {p}
        /\ adrift' = adrift \ {p}
        /\ Goes(j, IF form.new = {} THEN "media" ELSE "variants")
    BY <1>5 DEF InsertProduct, Inserted
  <2>2. PICK row : row = Inserted(form, s)
    OBVIOUS
  <2>3. /\ row # None /\ row.active = ~s /\ row.approval = (IF s THEN "pending" ELSE "approved")
        /\ row.deleted = FALSE /\ row.stock = TotalStock(form)
    <3>1. Inserted(form, s) \in Product
      BY <1>1, InsertedType
    <3> QED
      BY <2>2, <3>1 DEF Inserted, ApprovalStateFor
  <2>4. product'[p] = row /\ \A q \in Products : q # p => product'[q] = product[q]
    BY <1>3, <2>1, <2>2
  <2>5. PICK x : x = [job[j] EXCEPT !.phase = IF form.new = {} THEN "media" ELSE "variants"]
    OBVIOUS
  <2>6. /\ x.phase = (IF form.new = {} THEN "media" ELSE "variants")
        /\ x.product = p /\ x.form = form
    BY <1>1, <2>5 DEF Job
  <2>7. job' = [job EXCEPT ![j] = x]
    BY <2>1, <2>5 DEF Goes
  <2>8. job'[j] = x /\ \A k \in Requests : k # j => job'[k] = job[k]
    BY <2>7, JobSetIs
  <2>9. Exists(p)' /\ Live(p)' /\ (Listed(p)' <=> ~s) /\ ~product'[p].deleted
    BY <2>3, <2>4 DEF Exists, Live, Listed
  <2>10. \A q \in Products : (Exists(q) => Exists(q)') /\ (Live(q) => Live(q)')
    BY <2>4, <2>9 DEF Exists, Live
  <2>11. NewVariantsFree'
    BY <1>1, <1>2, <2>6, <2>8 DEF ShelfInv, NewVariantsFree
  <2>12. VariantsWhole'
    <3>1. \A v \in Variants : variant[v] # None => variant[v].product \in Products
      BY DEF Typed, TypeOK, Variant
    <3> QED
      BY <1>2, <2>10, <3>1 DEF ShelfInv, VariantsWhole
  <2>13. FavoritesLive'
    BY <1>2, <1>3, <2>10, FavoritesSame
  <2>14. \A q \in Products : q # p => Untouched(q)
    BY <1>2, <2>1, <2>4 DEF Untouched, VariantsOf
  <2>15. ASSUME p \notin disturbed
         PROVE  /\ Sees(x, p)'
                /\ ListedAs(p)'
                /\ ActiveOf(p)' = {}
    <3>1. ~Exists(p)
      BY <1>1, <2>15, SeesOwn DEF Sees
    <3>2. VariantsOf(p)' = {}
      BY <1>2, <3>1, GoneHasNoVariants DEF VariantsOf
    <3>3. TotalStock(form)' = TotalStock(form)
      BY DEF TotalStock, Sent
    <3>4. Sees(x, p)'
      BY <2>3, <2>4, <2>6, <2>9, <3>2, <3>3 DEF Sees
    <3>5. p \in cleared' <=> ~s
      BY <1>1, <2>1
    <3> QED
      BY <2>9, <3>2, <3>4, <3>5 DEF ListedAs, ActiveOf
  <2> QED
    BY <1>1, <1>2, <2>6, <2>7, <2>11, <2>12, <2>13, <2>14, <2>15, ShelfStep
<1> QED
  BY <1>4, <1>5

(* When all variants are inserted, the stock is that of those sent active.  *)
LEMMA AllInserted ==
  ASSUME Typed, ShelfInv, NEW j \in Requests, NEW p \in Products, NEW form \in Forms,
         job[j].phase = "variants", job[j].product = p, job[j].form = form,
         p \notin disturbed, \A v \in form.new : variant[v] # None
  PROVE  Counted(p)
<1>1. /\ VariantsOf(p) \subseteq form.new
      /\ \A v \in VariantsOf(p) :
           (variant[v].active <=> v \notin form.off) /\ variant[v].stock = 1
      /\ form.new # {} /\ product[p].stock = TotalStock(form)
  BY SeesOwn DEF Sees
<1>2. form.new \subseteq Variants /\ form.keep = {}
  BY JobIs, FormIs DEF JobShape, Creating
<1>3. \A v \in form.new : variant[v].product = p
  BY <1>2 DEF ShelfInv, NewVariantsFree
<1>4. VariantsOf(p) = form.new
  BY <1>1, <1>2, <1>3 DEF VariantsOf
<1>5. ActiveOf(p) = form.new \ form.off
  BY <1>1, <1>4 DEF ActiveOf
<1>6. Sent(form) = form.new
  BY <1>2 DEF Sent
<1> QED
  BY <1>1, <1>5, <1>6 DEF TotalStock, Counted, ActiveOf

LEMMA ShelfInsertVariant ==
  ASSUME Typed, ShelfInv, NEW j \in Requests, NEW p \in Products, NEW form \in Forms,
         job[j].product = p, job[j].form = form, InsertVariant(j)
  PROVE  ShelfInv'
<1> DEFINE todo == {v \in form.new : variant[v] = None}
<1>1. job[j].phase = "variants" /\ job[j] \in Job
  BY JobIs DEF InsertVariant
<1>2. UNCHANGED <<product, favorite, cleared, adrift>>
  BY DEF InsertVariant
<1>3. favorite \subseteq Buyers \X Products /\ variant \in [Variants -> Variant \cup {None}]
  BY DEF Typed, TypeOK
<1>4. \A q : (Exists(q)' <=> Exists(q)) /\ (Live(q)' <=> Live(q)) /\ (Listed(q)' <=> Listed(q))
  BY <1>2 DEF Exists, Live, Listed
<1>5. disturbed \subseteq disturbed'
  BY DEF InsertVariant
<1>6. FavoritesLive'
  BY <1>2, <1>3, <1>4, <1>5, FavoritesSame
<1>7. CASE job[j].lacking \/ ~Exists(p)
  <2>1. End(j) /\ disturbed' = disturbed \cup {p} /\ UNCHANGED variant
    BY <1>7 DEF InsertVariant
  <2> QED
    BY <1>1, <1>2, <1>5, <1>6, <2>1, ShelfEnd
<1>8. CASE ~(job[j].lacking \/ ~Exists(p)) /\ todo = {}
  <2>1. Goes(j, "media") /\ UNCHANGED variant /\ UNCHANGED disturbed
    BY <1>8 DEF InsertVariant
  <2>2. PICK x : x = [job[j] EXCEPT !.phase = "media"]
    OBVIOUS
  <2>3. x.phase = "media" /\ x.product = p /\ x.form = form
    BY <1>1, <2>2 DEF Job
  <2>4. job' = [job EXCEPT ![j] = x]
    BY <2>1, <2>2 DEF Goes
  <2>5. job'[j] = x /\ \A k \in Requests : k # j => job'[k] = job[k]
    BY <2>4, JobSetIs
  <2>6. NewVariantsFree'
    BY <2>1, <2>3, <2>5 DEF ShelfInv, NewVariantsFree
  <2>7. VariantsWhole'
    BY <1>4, <2>1 DEF ShelfInv, VariantsWhole
  <2>8. \A q \in Products : q # p => Untouched(q)
    BY <1>2, <2>1, SameUntouched
  <2>9. ASSUME p \notin disturbed
        PROVE  /\ Sees(x, p)'
               /\ ListedAs(p)'
               /\ Counted(p)'
    <3>1. Kept(p) /\ Live(p)
      BY <1>1, <2>9, SeesOwn DEF Sees
    <3>2. Counted(p)
      BY <1>1, <1>8, <2>9, AllInserted
    <3>3. Counted(p)'
      BY <1>2, <2>1, <3>2 DEF Counted, ActiveOf, VariantsOf
    <3>4. Sees(x, p)'
      BY <1>4, <2>3, <3>1 DEF Sees
    <3>5. ListedAs(p)'
      BY <1>2, <1>4, <3>1 DEF Kept, ListedAs
    <3> QED
      BY <3>3, <3>4, <3>5
  <2> QED
    BY <1>1, <1>5, <1>6, <2>1, <2>3, <2>4, <2>6, <2>7, <2>8, <2>9, ShelfStep
<1>9. CASE ~(job[j].lacking \/ ~Exists(p)) /\ todo # {}
  <2>1. PICK v \in todo : variant' = [variant EXCEPT ![v] = AsSent(p, form, v)]
    BY <1>9 DEF InsertVariant
  <2>2. UNCHANGED job /\ UNCHANGED disturbed
    BY <1>9 DEF InsertVariant
  <2>3. v \in Variants /\ v \in form.new /\ variant[v] = None
    BY <2>1, FormIs
  <2>4. PICK row : row = AsSent(p, form, v)
    OBVIOUS
  <2>5. row # None /\ row.product = p /\ (row.active <=> v \notin form.off) /\ row.stock = 1
    <3>1. AsSent(p, form, v) \in Variant
      BY AsSentType
    <3>2. AsSent(p, form, v).active = (v \notin form.off)
      BY DEF AsSent
    <3>3. AsSent(p, form, v).product = p /\ AsSent(p, form, v).stock = 1
      BY DEF AsSent
    <3> QED
      BY <2>4, <3>1, <3>2, <3>3
  <2>6. variant'[v] = row /\ \A u \in Variants : u # v => variant'[u] = variant[u]
    BY <1>3, <2>1, <2>3, <2>4
  <2>7. Exists(p)
    BY <1>9
  <2>8. PICK x : x = job[j]
    OBVIOUS
  <2>9. job' = [job EXCEPT ![j] = x]
    BY <2>2, <2>8 DEF Typed, TypeOK
  <2>10. x.phase = "variants" /\ x.product = p /\ x.form = form
    BY <1>1, <2>8
  <2>11. NewVariantsFree'
    <3> SUFFICES ASSUME NEW k \in Requests, NEW u \in Variants
                 PROVE  /\ job[k].phase \in {"product", "begin", "commit"} /\ u \in job[k].form.new =>
                             variant'[u] = None
                        /\ job[k].phase = "variants" /\ u \in job[k].form.new /\ variant'[u] # None =>
                             variant'[u].product = job[k].product
      BY <2>2 DEF NewVariantsFree
    <3>1. CASE u # v
      BY <2>6, <3>1 DEF ShelfInv, NewVariantsFree
    <3>2. CASE u = v /\ k = j
      BY <1>1, <2>5, <2>6, <3>2
    <3>3. CASE u = v /\ k # j
      <4>1. job[k].phase \in {"product", "variants", "begin", "commit"} => job[k].form \in Forms
        BY JobIs DEF JobShape, Creating
      <4>2. job[k].form # None => job[k].form.new \cap form.new = {}
        BY <3>3, FormIs DEF ShelfInv, FormsApart
      <4>3. job[k].phase \in {"product", "variants", "begin", "commit"} => v \notin job[k].form.new
        BY <2>3, <4>1, <4>2, FormIs
      <4> QED
        BY <3>3, <4>3
    <3> QED
      BY <3>1, <3>2, <3>3
  <2>12. VariantsWhole'
    BY <1>4, <2>5, <2>6, <2>7 DEF ShelfInv, VariantsWhole
  <2>13. \A q \in Products : q # p => VariantsOf(q)' = VariantsOf(q)
    BY <2>3, <2>5, <2>6 DEF VariantsOf
  <2>14. \A q \in Products : q # p => Untouched(q)
    BY <1>2, <2>3, <2>6, <2>13 DEF Untouched, VariantsOf
  <2>15. VariantsOf(p)' = VariantsOf(p) \cup {v}
    BY <2>3, <2>5, <2>6 DEF VariantsOf
  <2>16. ASSUME p \notin disturbed
         PROVE  Sees(x, p)' /\ ListedAs(p)'
    <3>1. Kept(p) /\ Sees(job[j], p)
      BY <1>1, <2>16, SeesOwn
    <3>2. /\ VariantsOf(p) \subseteq form.new
          /\ \A u \in VariantsOf(p) :
               (variant[u].active <=> u \notin form.off) /\ variant[u].stock = 1
          /\ form.new # {} /\ product[p].stock = TotalStock(form) /\ Live(p)
      BY <1>1, <3>1 DEF Sees
    <3>3. VariantsOf(p)' \subseteq form.new
      BY <2>3, <2>15, <3>2
    <3>4. \A u \in VariantsOf(p)' :
            (variant'[u].active <=> u \notin form.off) /\ variant'[u].stock = 1
      <4>1. \A u \in VariantsOf(p) : u \in Variants
        BY DEF VariantsOf
      <4> QED
        BY <2>5, <2>6, <2>15, <3>2, <4>1
    <3>5. TotalStock(form)' = TotalStock(form)
      BY DEF TotalStock, Sent
    <3>6. Sees(x, p)'
      BY <1>2, <1>4, <2>10, <3>2, <3>3, <3>4, <3>5 DEF Sees
    <3> QED
      BY <1>2, <1>4, <3>1, <3>6 DEF Kept, ListedAs
  <2> QED
    BY <1>1, <1>5, <1>6, <2>2, <2>9, <2>10, <2>11, <2>12, <2>14, <2>16, ShelfStep
<1> QED
  BY <1>7, <1>8, <1>9

(* A request goes on and leaves the shelf as it is.                         *)
LEMMA ShelfGoes ==
  ASSUME Typed, ShelfInv, NEW j \in Requests, NEW p \in Products,
         job[j].phase \notin {"idle", "variants"}, job[j].product = p,
         NEW x, job' = [job EXCEPT ![j] = x],
         x.phase \in {"values", "commit", "stock"}, x.product = p, x.form = job[j].form,
         x.phase = "commit" => job[j].phase = "begin",
         UNCHANGED <<product, variant, favorite, cleared, disturbed, adrift>>,
         p \notin disturbed => Sees(x, p)
  PROVE  ShelfInv'
<1>1. job'[j] = x /\ \A k \in Requests : k # j => job'[k] = job[k]
  BY JobSetIs
<1>2. NewVariantsFree'
  BY <1>1 DEF ShelfInv, NewVariantsFree
<1>3. VariantsWhole' /\ FavoritesLive'
  BY DEF ShelfInv, VariantsWhole, FavoritesLive, Exists, Live
<1>4. \A q \in Products : q # p => Untouched(q)
  BY SameUntouched
<1>5. ASSUME p \notin disturbed
      PROVE  /\ Sees(x, p)'
             /\ ListedAs(p)'
             /\ Exists(p)' /\ ActiveOf(p)' # {} /\ p \notin adrift' => Counted(p)'
  <2>1. Kept(p) /\ \A k \in Requests : At(k, p) => k = j
    BY <1>5, SeesOwn
  <2>2. /\ Exists(p)' <=> Exists(p)
        /\ Listed(p)' <=> Listed(p)
        /\ ActiveOf(p)' = ActiveOf(p)
    BY DEF Exists, Listed, ActiveOf, VariantsOf
  <2>3. Sees(x, p)'
    BY <1>5 DEF Sees, Exists, Live, VariantsOf, TotalStock, Sent
  <2> QED
    BY <2>1, <2>2, <2>3 DEF Kept, ListedAs, StockAs, Counted
<1> QED
  BY <1>1, <1>2, <1>3, <1>4, <1>5, ShelfStep

LEMMA ShelfLinkMedia ==
  ASSUME Typed, ShelfInv, NEW j \in Requests, NEW p \in Products,
         job[j].product = p, LinkMedia(j)
  PROVE  ShelfInv'
<1>1. /\ job[j].phase = "media" /\ job[j] \in Job
      /\ UNCHANGED <<product, variant, favorite, cleared, disturbed, adrift>>
  BY JobIs DEF LinkMedia, shown
<1>2. CASE End(j)
  <2>1. FavoritesLive'
    BY <1>1 DEF ShelfInv, FavoritesLive, Live, Exists
  <2> QED
    BY <1>1, <1>2, <2>1, ShelfEnd
<1>3. CASE Goes(j, "values")
  <2>1. PICK x : x = [job[j] EXCEPT !.phase = "values"]
    OBVIOUS
  <2>2. x.phase = "values" /\ x.product = p /\ x.form = job[j].form
    BY <1>1, <2>1 DEF Job
  <2>3. job' = [job EXCEPT ![j] = x]
    BY <1>3, <2>1 DEF Goes
  <2>4. p \notin disturbed => Sees(x, p)
    BY <1>1, <2>2, SeesOwn DEF Sees
  <2> QED
    BY <1>1, <2>2, <2>3, <2>4, ShelfGoes
<1> QED
  BY <1>2, <1>3 DEF LinkMedia

LEMMA ShelfReadVariants ==
  ASSUME Typed, ShelfInv, NEW j \in Requests, NEW p \in Products, NEW form \in Forms,
         job[j].product = p, job[j].form = form, ReadVariants(j)
  PROVE  ShelfInv'
<1>1. /\ job[j].phase = "begin" /\ job[j] \in Job
      /\ UNCHANGED <<product, variant, favorite, cleared, disturbed, adrift>>
  BY JobIs DEF ReadVariants, shelf, shown
<1> DEFINE moves == form.sub # None /\ form.sub # product[p].sub
<1>2. CASE End(j)
  <2>1. FavoritesLive'
    BY <1>1 DEF ShelfInv, FavoritesLive, Live, Exists
  <2> QED
    BY <1>1, <1>2, <2>1, ShelfEnd
<1>3. CASE /\ form.keep \subseteq VariantsOf(p)
           /\ job' = [job EXCEPT ![j].phase = "commit", ![j].found = VariantsOf(p),
                        ![j].moves = moves]
  <2>1. PICK x : x = [job[j] EXCEPT !.phase = "commit", !.found = VariantsOf(p),
                        !.moves = moves]
    OBVIOUS
  <2>2. job' = [job EXCEPT ![j] = x]
    BY <1>3, <2>1
  <2> HIDE DEF moves
  <2>3. x.phase = "commit" /\ x.product = p /\ x.form = form /\ x.found = VariantsOf(p)
    BY <1>1, <2>1 DEF Job
  <2>4. p \notin disturbed => Sees(x, p)
    BY <1>1, <1>3, <2>3, SeesOwn DEF Sees
  <2> QED
    BY <1>1, <2>2, <2>3, <2>4, ShelfGoes
<1> QED
  BY <1>2, <1>3 DEF ReadVariants

(* The row of a product is saved by a request that ends.                    *)
LEMMA ShelfSaveRow ==
  ASSUME Typed, ShelfInv, NEW j \in Requests, NEW p \in Products, Exists(p),
         job[j].phase \notin {"idle", "product", "variants"}, job[j].product = p, End(j),
         NEW row, row # None, product' = [product EXCEPT ![p] = row],
         UNCHANGED <<variant, favorite, disturbed>>,
         \A q \in Products : q # p =>
           (q \in cleared' <=> q \in cleared) /\ (q \in adrift' <=> q \in adrift),
         p \notin disturbed =>
           /\ ~row.deleted
           /\ p \in adrift' \/ (row.stock = product[p].stock /\ p \notin adrift)
           /\ (row.active /\ row.approval = "approved") <=> p \in cleared'
  PROVE  ShelfInv'
<1>1. product \in [Products -> Product \cup {None}] /\ favorite \subseteq Buyers \X Products
  BY DEF Typed, TypeOK
<1>2. product'[p] = row /\ \A q \in Products : q # p => product'[q] = product[q]
  BY <1>1
<1>3. job' = [job EXCEPT ![j] = Rest]
  BY DEF End
<1>4. job'[j] = Rest /\ \A k \in Requests : k # j => job'[k] = job[k]
  BY <1>3, JobSetIs
<1>5. NewVariantsFree'
  BY <1>4, RestIs DEF ShelfInv, NewVariantsFree
<1>6. \A q \in Products : Exists(q) => Exists(q)'
  BY <1>2 DEF Exists
<1>7. VariantsWhole'
  <2>1. \A v \in Variants : variant[v] # None => variant[v].product \in Products
    BY DEF Typed, TypeOK, Variant
  <2> QED
    BY <1>6, <2>1 DEF ShelfInv, VariantsWhole
<1>8. p \notin disturbed => Live(p)'
  BY <1>2 DEF Live, Exists
<1>9. FavoritesLive'
  <2>1. \A q \in Products : q \notin disturbed' /\ Live(q) => Live(q)'
    BY <1>2, <1>8 DEF Live, Exists
  <2> QED
    BY <1>1, <2>1, FavoritesSame
<1>10. \A q \in Products : q # p => Untouched(q)
  BY <1>2 DEF Untouched, VariantsOf
<1>11. ASSUME p \notin disturbed
       PROVE  /\ ListedAs(p)'
              /\ ActiveOf(p)' # {} /\ p \notin adrift' => Counted(p)'
  <2>1. Kept(p) /\ \A k \in Requests : At(k, p) => k = j
    BY <1>11, SeesOwn
  <2>2. ActiveOf(p)' = ActiveOf(p)
    BY DEF ActiveOf, VariantsOf
  <2>3. ActiveOf(p) # {} /\ p \notin adrift => Counted(p)
    BY <2>1 DEF Kept, StockAs
  <2>4. Listed(p)' <=> p \in cleared'
    BY <1>2, <1>11 DEF Listed, Exists
  <2>5. ListedAs(p)'
    BY <1>2, <1>11, <2>4 DEF ListedAs
  <2>6. ActiveOf(p)' # {} /\ p \notin adrift' => Counted(p)'
    BY <1>2, <1>11, <2>2, <2>3 DEF Counted, ActiveOf
  <2> QED
    BY <2>5, <2>6
<1> QED
  BY <1>3, <1>5, <1>7, <1>9, <1>10, <1>11, RestIs, ShelfStep

LEMMA ShelfSaveValues ==
  ASSUME Typed, ShelfInv, NEW j \in Requests, NEW p \in Products,
         job[j].product = p, SaveValues(j)
  PROVE  ShelfInv'
<1> DEFINE values == {a \in job[j].form.values : attribute[a] # None}
<1>1. /\ job[j].phase = "values" /\ job[j].form \in Forms /\ End(j)
      /\ UNCHANGED <<variant, favorite, cleared, disturbed, adrift>>
  BY JobIs DEF SaveValues, JobShape, Creating, shown
<1>2. CASE Exists(p) /\ ~job[j].incomplete
  <2>1. product[p] \in Product
    BY <1>2 DEF Typed, TypeOK, Exists
  <2>2. PICK row : row = Valued(p, values)
    OBVIOUS
  <2>3. product' = [product EXCEPT ![p] = row]
    BY <1>2, <2>2 DEF SaveValues, Valued
  <2>4. values \in SUBSET Attributes
    BY <1>1, FormIs
  <2> HIDE DEF values
  <2>5. /\ row # None /\ row.active = product[p].active
        /\ row.approval = product[p].approval /\ row.deleted = product[p].deleted
        /\ row.stock = product[p].stock
    BY <2>1, <2>2, <2>4, ValuedIs
  <2>6. p \notin disturbed => Kept(p) /\ Live(p)
    BY <1>1, SeesOwn DEF Sees
  <2>7. p \notin disturbed =>
          /\ ~row.deleted
          /\ (row.active /\ row.approval = "approved") <=> p \in cleared
    BY <2>5, <2>6 DEF Kept, ListedAs, Listed, Live
  <2> QED
    BY <1>1, <1>2, <2>3, <2>5, <2>7, ShelfSaveRow
<1>3. CASE ~(Exists(p) /\ ~job[j].incomplete)
  <2>1. UNCHANGED product
    BY <1>3 DEF SaveValues
  <2>2. FavoritesLive'
    BY <1>1, <2>1 DEF ShelfInv, FavoritesLive, Live, Exists
  <2> QED
    BY <1>1, <2>1, <2>2, ShelfEnd
<1> QED
  BY <1>2, <1>3

LEMMA ShelfSaveVerdict ==
  ASSUME Typed, ShelfInv, NEW j \in Requests, NEW p \in Products,
         job[j].product = p, SaveVerdict(j)
  PROVE  ShelfInv'
<1>1. job[j].phase = "verdict" /\ End(j) /\ UNCHANGED <<variant, favorite, disturbed, adrift>>
  BY SaveVerdictIs
<1>2. CASE UNCHANGED <<product, cleared>>
  <2>1. FavoritesLive'
    BY <1>1, <1>2 DEF ShelfInv, FavoritesLive, Live, Exists
  <2> QED
    BY <1>1, <1>2, <2>1, ShelfEnd
<1>3. CASE ~UNCHANGED <<product, cleared>>
  <2>1. /\ Exists(p) /\ product' = [product EXCEPT ![p] = Saved(j)]
        /\ cleared' = IF job[j].row.active THEN cleared \cup {p} ELSE cleared \ {p}
    BY <1>3, SaveVerdictIs
  <2>2. PICK row : row = Saved(j)
    OBVIOUS
  <2>3. /\ row # None /\ row.active = job[j].row.active
        /\ row.approval = job[j].row.approval /\ row.deleted = job[j].row.deleted
        /\ row.stock = job[j].row.stock
    BY <1>1, <2>1, <2>2, SavedIs DEF SavesRow
  <2>4. product' = [product EXCEPT ![p] = row]
    BY <2>1, <2>2
  <2>5. p \notin disturbed =>
          /\ job[j].row.stock = product[p].stock /\ ~job[j].row.deleted
          /\ job[j].row.active <=> job[j].row.approval = "approved"
    BY <1>1, SeesOwn DEF Sees
  <2>6. p \in cleared' <=> job[j].row.active
    BY <2>1
  <2>7. \A q \in Products : q # p =>
          (q \in cleared' <=> q \in cleared) /\ (q \in adrift' <=> q \in adrift)
    BY <1>1, <2>1
  <2>8. p \notin disturbed =>
          /\ ~row.deleted
          /\ p \in adrift' \/ (row.stock = product[p].stock /\ p \notin adrift)
          /\ (row.active /\ row.approval = "approved") <=> p \in cleared'
    BY <1>1, <2>3, <2>5, <2>6
  <2>9. /\ Exists(p) /\ row # None /\ UNCHANGED <<variant, favorite, disturbed>>
        /\ job[j].phase \notin {"idle", "product", "variants"} /\ End(j)
    BY <1>1, <2>1, <2>3
  <2> QED
    BY <2>4, <2>7, <2>8, <2>9, ShelfSaveRow
<1> QED
  BY <1>2, <1>3

LEMMA ShelfSellItem ==
  ASSUME Typed, ShelfInv, NEW j \in Requests, NEW p \in Products,
         job[j].product = p, SellItem(j)
  PROVE  ShelfInv'
<1>1. /\ job[j].phase = "sale" /\ job[j] \in Job
      /\ UNCHANGED <<product, variant, favorite, cleared, disturbed, adrift>>
  BY JobIs DEF SellItem, shown
<1>2. CASE End(j)
  <2>1. FavoritesLive'
    BY <1>1 DEF ShelfInv, FavoritesLive, Live, Exists
  <2> QED
    BY <1>1, <1>2, <2>1, ShelfEnd
<1>3. CASE Goes(j, "stock")
  <2>1. PICK x : x = [job[j] EXCEPT !.phase = "stock"]
    OBVIOUS
  <2>2. /\ x.phase = "stock" /\ x.product = p /\ x.form = job[j].form
        /\ x.found = job[j].found /\ x.row = job[j].row
    BY <1>1, <2>1 DEF Job
  <2>3. job' = [job EXCEPT ![j] = x]
    BY <1>3, <2>1 DEF Goes
  <2>4. p \notin disturbed => Sees(x, p)
    BY <1>1, <2>2, SeesOwn DEF Sees
  <2> QED
    BY <1>1, <2>2, <2>3, <2>4, ShelfGoes
<1> QED
  BY <1>2, <1>3 DEF SellItem

(* What was sold is saved, of the product or of its variant.                *)
LEMMA ShelfSaveStock ==
  ASSUME Typed, ShelfInv, NEW j \in Requests, NEW p \in Products,
         job[j].product = p, SaveStock(j)
  PROVE  ShelfInv'
<1>1. /\ job[j].phase = "stock" /\ End(j) /\ UNCHANGED <<favorite, cleared, disturbed>>
      /\ adrift' = adrift \cup {p} /\ variant' = SoldVariants(j)
  BY SaveStockIs
<1>2. /\ variant \in [Variants -> Variant \cup {None}]
      /\ favorite \subseteq Buyers \X Products
  BY DEF Typed, TypeOK
<1>3. CASE /\ Exists(p) /\ SavesRow(job[j])
           /\ product' = [product EXCEPT ![p] = Saved(j)]
  <2>1. PICK row : row = Saved(j)
    OBVIOUS
  <2>2. /\ row # None /\ row.active = job[j].row.active
        /\ row.approval = job[j].row.approval /\ row.deleted = job[j].row.deleted
    BY <1>3, <2>1, SavedIs
  <2>3. product' = [product EXCEPT ![p] = row]
    BY <1>3, <2>1
  <2>4. job[j].found = {}
    BY <1>1, <1>3 DEF SavesRow
  <2>5. UNCHANGED variant
    BY <1>1, <1>2, <2>4 DEF SoldVariants
  <2>6. p \notin disturbed =>
          /\ ~job[j].row.deleted /\ Live(p) /\ ListedAs(p)
          /\ job[j].row.active = product[p].active
          /\ job[j].row.approval = product[p].approval
    BY <1>1, <2>4, SeesOwn DEF Sees, Kept
  <2>7. p \notin disturbed =>
          /\ ~row.deleted
          /\ (row.active /\ row.approval = "approved") <=> p \in cleared'
    BY <1>1, <2>2, <2>6 DEF ListedAs, Listed, Live
  <2> QED
    BY <1>1, <1>3, <2>2, <2>3, <2>5, <2>7, ShelfSaveRow
<1>4. CASE UNCHANGED product
  <2>1. ASSUME NEW v \in Variants
        PROVE  \/ variant'[v] = variant[v]
               \/ /\ v \in VariantsOf(p)
                  /\ variant'[v] # None /\ variant'[v].product = p
    <3>1. variant'[v] = IF v \in job[j].found \cap VariantsOf(p) THEN job[j].row ELSE variant[v]
      BY <1>1 DEF SoldVariants
    <3>2. job[j].found # {} => job[j].row \in Variant /\ job[j].row.product = p
      BY <1>1, JobIs DEF JobShape
    <3> QED
      BY <3>1, <3>2
  <2>2. job' = [job EXCEPT ![j] = Rest]
    BY <1>1 DEF End
  <2>3. job'[j] = Rest /\ \A k \in Requests : k # j => job'[k] = job[k]
    BY <2>2, JobSetIs
  <2>4. ASSUME NEW v \in Variants
        PROVE  /\ variant[v] = None <=> variant'[v] = None
               /\ variant[v] # None => variant'[v].product = variant[v].product
    BY <2>1 DEF VariantsOf
  <2>5. NewVariantsFree'
    BY <2>3, <2>4, RestIs DEF ShelfInv, NewVariantsFree
  <2>6. VariantsWhole'
    BY <1>4, <2>4 DEF ShelfInv, VariantsWhole, Exists
  <2>7. FavoritesLive'
    BY <1>1, <1>4 DEF ShelfInv, FavoritesLive, Live, Exists
  <2>8. \A q \in Products : VariantsOf(q)' = VariantsOf(q)
    BY <2>4 DEF VariantsOf
  <2>9. ASSUME NEW q \in Products, q # p, NEW v \in VariantsOf(q)
        PROVE  variant'[v] = variant[v]
    BY <2>1, <2>9 DEF VariantsOf
  <2>10. \A q \in Products : q # p => Untouched(q)
    BY <1>1, <1>4, <2>8, <2>9 DEF Untouched
  <2>11. p \notin disturbed => ListedAs(p)'
    <3>1. p \notin disturbed => ListedAs(p)
      BY <1>1, SeesOwn DEF Kept
    <3> QED
      BY <1>1, <1>4, <3>1 DEF ListedAs, Listed, Exists
  <2> QED
    BY <1>1, <2>2, <2>5, <2>6, <2>7, <2>10, <2>11, RestIs, ShelfStep
<1> QED
  BY <1>3, <1>4, SaveStockIs

(* The commit of update that writes rows.                                   *)
LEMMA ShelfCommit ==
  ASSUME Typed, ShelfInv, NEW j \in Requests, NEW p \in Products, NEW form \in Forms,
         job[j].product = p, job[j].form = form, Exists(p),
         job[j].phase = "commit", End(j), UNCHANGED <<favorite, disturbed>>,
         variant' = IF Sent(form) # {} THEN Synced(p, form, job[j].found) ELSE variant,
         product' = [product EXCEPT ![p] = Committed(j)],
         cleared' = IF ~job[j].moves THEN cleared
                    ELSE IF job[j].sensitive THEN cleared \ {p} ELSE cleared \cup {p},
         adrift' = IF Sent(form) # {} THEN adrift \ {p}
                   ELSE IF form.stock # None THEN adrift \cup {p} ELSE adrift
  PROVE  ShelfInv'
<1> DEFINE found == job[j].found
           s == job[j].sensitive
<1>1. /\ product \in [Products -> Product \cup {None}] /\ favorite \subseteq Buyers \X Products
      /\ variant \in [Variants -> Variant \cup {None}]
  BY DEF Typed, TypeOK
<1>2. PICK row : row = Committed(j)
  OBVIOUS
<1>3. /\ row # None /\ row.deleted = product[p].deleted
      /\ row.stock = (IF Sent(form) # {} \/ form.stock # None
                      THEN TotalStock(form) ELSE product[p].stock)
      /\ row.active = (IF job[j].moves THEN ~s ELSE product[p].active)
      /\ row.approval = (IF job[j].moves THEN (IF s THEN "pending" ELSE "approved")
                         ELSE product[p].approval)
      /\ s \in BOOLEAN /\ job[j].moves \in BOOLEAN
  BY <1>2, CommittedIs
<1>4. product'[p] = row /\ \A q \in Products : q # p => product'[q] = product[q]
  BY <1>1, <1>2
<1>5. job' = [job EXCEPT ![j] = Rest]
  BY DEF End
<1>6. job'[j] = Rest /\ \A k \in Requests : k # j => job'[k] = job[k]
  BY <1>5, JobSetIs
<1>7. \A v \in form.new : variant[v] = None
  BY FormIs DEF ShelfInv, NewVariantsFree
<1>8. /\ form.new \subseteq Variants /\ form.keep \subseteq Variants /\ form # None
  BY FormIs
<1>9. ASSUME NEW v \in Variants
      PROVE  \/ variant'[v] = variant[v]
             \/ /\ v \in form.new \/ v \in VariantsOf(p)
                /\ variant'[v] # None /\ variant'[v].product = p
                /\ variant'[v].active <=> v \in Sent(form) \ form.off
  <2>1. CASE Sent(form) = {}
    BY <2>1
  <2>2. CASE Sent(form) # {}
    <3>1. variant'[v] =
            IF v \in (form.keep \cap VariantsOf(p)) \cup form.new THEN AsSent(p, form, v)
            ELSE IF v \in (found \cap VariantsOf(p)) \ form.keep THEN Off(variant[v])
            ELSE variant[v]
      BY <2>2, SyncedIs
    <3>2. CASE v \in (form.keep \cap VariantsOf(p)) \cup form.new
      <4>1. AsSent(p, form, v) \in Variant
        BY AsSentType
      <4>2. AsSent(p, form, v).active = (v \notin form.off)
        BY DEF AsSent
      <4>3. AsSent(p, form, v).product = p /\ AsSent(p, form, v).stock = 1
        BY DEF AsSent
      <4>4. v \in Sent(form)
        BY <3>2 DEF Sent
      <4>5. AsSent(p, form, v) # None
        BY <4>1
      <4>6. variant'[v] = AsSent(p, form, v)
        BY <3>1, <3>2
      <4>7. variant'[v].active <=> v \in Sent(form) \ form.off
        BY <4>2, <4>4, <4>6
      <4> QED
        BY <3>2, <4>3, <4>5, <4>6, <4>7
    <3>3. CASE v \notin (form.keep \cap VariantsOf(p)) \cup form.new
                /\ v \in (found \cap VariantsOf(p)) \ form.keep
      <4>1. variant[v] \in Variant /\ variant[v].product = p
        BY <1>1, <3>3 DEF VariantsOf
      <4>2. Off(variant[v]) \in Variant /\ Off(variant[v]).product = p
            /\ Off(variant[v]).active = FALSE
        BY <4>1, OffIs
      <4>3. v \notin Sent(form)
        BY <3>3 DEF Sent
      <4>4. variant'[v] = Off(variant[v])
        BY <3>1, <3>3
      <4> QED
        BY <3>3, <4>2, <4>3, <4>4
    <3> QED
      BY <3>1, <3>2, <3>3
  <2> QED
    BY <2>1, <2>2
<1>10. NewVariantsFree'
  <2> SUFFICES ASSUME NEW k \in Requests, NEW v \in Variants
               PROVE  /\ job'[k].phase \in {"product", "begin", "commit"} /\ v \in job'[k].form.new =>
                           variant'[v] = None
                      /\ job'[k].phase = "variants" /\ v \in job'[k].form.new /\ variant'[v] # None =>
                           variant'[v].product = job'[k].product
    BY DEF NewVariantsFree
  <2>1. CASE k = j
    BY <1>6, <2>1, RestIs
  <2>2. CASE k # j /\ variant'[v] = variant[v]
    BY <1>6, <2>2 DEF ShelfInv, NewVariantsFree
  <2>3. CASE k # j /\ v \in form.new
    <3>1. job[k].phase \in {"product", "variants", "begin", "commit"} => job[k].form \in Forms
      BY JobIs DEF JobShape, Creating
    <3>2. job[k].form # None => job[k].form.new \cap form.new = {}
      BY <1>8, <2>3 DEF ShelfInv, FormsApart
    <3>3. job[k].phase \in {"product", "variants", "begin", "commit"} => v \notin job[k].form.new
      BY <2>3, <3>1, <3>2, FormIs
    <3> QED
      BY <1>6, <2>3, <3>3
  <2>4. CASE k # j /\ v \in VariantsOf(p) /\ variant'[v].product = p
    <3>1. variant[v] # None /\ variant[v].product = p
      BY <2>4 DEF VariantsOf
    <3> QED
      BY <1>6, <2>4, <3>1 DEF ShelfInv, NewVariantsFree
  <2> QED
    BY <1>9, <2>1, <2>2, <2>3, <2>4
<1>11. \A q \in Products : Exists(q) => Exists(q)'
  BY <1>3, <1>4 DEF Exists
<1>12. VariantsWhole'
  <2>1. \A v \in Variants : variant[v] # None => variant[v].product \in Products
    BY <1>1 DEF Variant
  <2>2. ASSUME NEW v \in Variants, variant'[v] # None
        PROVE  product'[variant'[v].product] # None
    <3>1. CASE variant'[v] = variant[v]
      <4>1. \A q \in Products : product[q] # None => product'[q] # None
        BY <1>3, <1>4
      <4> QED
        BY <2>1, <2>2, <3>1, <4>1 DEF ShelfInv, VariantsWhole, Exists
    <3>2. CASE variant'[v].product = p
      BY <1>3, <1>4, <3>2
    <3> QED
      BY <1>9, <3>1, <3>2
  <2> QED
    BY <2>2 DEF VariantsWhole, Exists
<1>13. FavoritesLive'
  <2>1. \A q \in Products : Live(q) => Live(q)'
    BY <1>3, <1>4 DEF Live, Exists
  <2> QED
    BY <1>1, <2>1, FavoritesSame
<1>14. \A q \in Products : q # p => VariantsOf(q)' = VariantsOf(q)
  BY <1>7, <1>9 DEF VariantsOf
<1>15. \A q \in Products : q # p => Untouched(q)
  <2>1. \A q \in Products : q # p =>
          (q \in cleared' <=> q \in cleared) /\ (q \in adrift' <=> q \in adrift)
    OBVIOUS
  <2>2. ASSUME NEW q \in Products, q # p, NEW v \in VariantsOf(q)
        PROVE  variant'[v] = variant[v]
    BY <1>7, <1>9, <2>2 DEF VariantsOf
  <2> QED
    BY <1>4, <1>14, <2>1, <2>2 DEF Untouched
<1>16. ASSUME p \notin disturbed
       PROVE  /\ ListedAs(p)'
              /\ ActiveOf(p)' # {} /\ p \notin adrift' => Counted(p)'
  <2>1. /\ Kept(p) /\ Live(p) /\ found = VariantsOf(p) /\ form.keep \subseteq VariantsOf(p)
        /\ \A k \in Requests : At(k, p) => k = j
    BY <1>16, SeesOwn DEF Sees
  <2>2. ListedAs(p)'
    BY <1>3, <1>4, <2>1 DEF Kept, ListedAs, Listed, Exists, Live
  <2>3. CASE Sent(form) = {}
    <3>1. ActiveOf(p)' = ActiveOf(p)
      BY <2>3 DEF ActiveOf, VariantsOf
    <3>2. ActiveOf(p) # {} /\ p \notin adrift => Counted(p)
      BY <2>1 DEF Kept, StockAs
    <3>3. p \notin adrift' => form.stock = None /\ p \notin adrift
      BY <2>3
    <3>4. Counted(p) /\ p \notin adrift' => Counted(p)'
      BY <1>3, <1>4, <2>3, <3>1, <3>3 DEF Counted
    <3> QED
      BY <2>2, <3>1, <3>2, <3>3, <3>4
  <2>4. CASE Sent(form) # {}
    <3>1. ASSUME NEW v \in Variants
          PROVE  v \in ActiveOf(p)' <=> v \in Sent(form) \ form.off
      <4>1. variant'[v] =
              IF v \in (form.keep \cap VariantsOf(p)) \cup form.new THEN AsSent(p, form, v)
              ELSE IF v \in (found \cap VariantsOf(p)) \ form.keep THEN Off(variant[v])
              ELSE variant[v]
        BY <2>4, SyncedIs
      <4>2. v \in ActiveOf(p)' <=>
              variant'[v] # None /\ variant'[v].product = p /\ variant'[v].active
        BY DEF ActiveOf, VariantsOf
      <4>3. CASE v \in Sent(form)
        <5>1. variant'[v] = AsSent(p, form, v)
          BY <2>1, <4>1, <4>3 DEF Sent
        <5>2. AsSent(p, form, v) \in Variant
          BY AsSentType
        <5>3. AsSent(p, form, v).active = (v \notin form.off)
          BY DEF AsSent
        <5>4. AsSent(p, form, v).product = p
          BY DEF AsSent
        <5> QED
          BY <4>2, <4>3, <5>1, <5>2, <5>3, <5>4
      <4>4. CASE v \notin Sent(form) /\ v \in VariantsOf(p)
        <5>1. variant'[v] = Off(variant[v])
          BY <2>1, <4>1, <4>4 DEF Sent
        <5>2. variant[v] \in Variant
          BY <1>1, <4>4 DEF VariantsOf
        <5>3. ~variant'[v].active
          BY <5>1, <5>2, OffIs
        <5> QED
          BY <4>2, <4>4, <5>3
      <4>5. CASE v \notin Sent(form) /\ v \notin VariantsOf(p)
        <5>1. variant'[v] = variant[v]
          BY <2>1, <4>1, <4>5 DEF Sent
        <5> QED
          BY <4>2, <4>5, <5>1 DEF VariantsOf
      <4> QED
        BY <4>3, <4>4, <4>5
    <3>2. ActiveOf(p)' \subseteq Variants /\ Sent(form) \subseteq Variants
      BY <1>8 DEF ActiveOf, VariantsOf, Sent
    <3>3. ActiveOf(p)' = Sent(form) \ form.off
      BY <3>1, <3>2
    <3>4. \A v \in ActiveOf(p)' : variant'[v].stock = 1
      <4> SUFFICES ASSUME NEW v \in Variants, v \in Sent(form)
                   PROVE  variant'[v].stock = 1
        BY <3>2, <3>3
      <4>1. variant'[v] = AsSent(p, form, v)
        BY <2>1, <2>4, SyncedIs DEF Sent
      <4> QED
        BY <4>1 DEF AsSent
    <3> QED
      BY <1>3, <1>4, <2>2, <2>4, <3>3, <3>4 DEF TotalStock, Counted
  <2> QED
    BY <2>3, <2>4
<1> QED
  BY <1>5, <1>10, <1>12, <1>13, <1>15, <1>16, RestIs, ShelfStep

LEMMA ShelfCommitUpdate ==
  ASSUME Typed, ShelfInv, NEW j \in Requests, NEW p \in Products, NEW form \in Forms,
         job[j].product = p, job[j].form = form, CommitUpdate(j)
  PROVE  ShelfInv'
<1>1. job[j].phase = "commit" /\ End(j) /\ UNCHANGED <<favorite, disturbed>>
  BY CommitIs
<1>2. CASE UNCHANGED <<product, variant, cleared, adrift>>
  <2>1. FavoritesLive'
    BY <1>1, <1>2 DEF ShelfInv, FavoritesLive, Live, Exists
  <2> QED
    BY <1>1, <1>2, <2>1, ShelfEnd
<1>3. CASE ~UNCHANGED <<product, variant, cleared, adrift>>
  <2>1. /\ Exists(p)
        /\ variant' = IF Sent(form) # {} THEN Synced(p, form, job[j].found) ELSE variant
        /\ product' = [product EXCEPT ![p] = Committed(j)]
        /\ cleared' = IF ~job[j].moves THEN cleared
                      ELSE IF job[j].sensitive THEN cleared \ {p} ELSE cleared \cup {p}
        /\ adrift' = IF Sent(form) # {} THEN adrift \ {p}
                     ELSE IF form.stock # None THEN adrift \cup {p} ELSE adrift
    BY <1>3, CommitIs
  <2> QED
    BY <1>1, <2>1, ShelfCommit
<1> QED
  BY <1>2, <1>3

LEMMA ShelfRemove ==
  ASSUME Typed, ShelfInv, NEW p \in Products, RemoveProduct(p)
  PROVE  ShelfInv'
<1>1. /\ Live(p) /\ favorite' = KeptFavorites(p)
      /\ cleared' = cleared \ {p} /\ disturbed' = Overlap(p) /\ UNCHANGED <<job, adrift>>
  BY RemoveIs
<1>2. /\ product \in [Products -> Product \cup {None}] /\ favorite \subseteq Buyers \X Products
      /\ variant \in [Variants -> Variant \cup {None}]
  BY DEF Typed, TypeOK
<1>3. PICK row : row = Removed(p)
  OBVIOUS
<1>4. row # None /\ row.active = FALSE /\ row.deleted = TRUE /\ row.stock = product[p].stock
  <2>1. product[p] \in Product
    BY <1>1, <1>2 DEF Live, Exists
  <2>2. Removed(p).stock = product[p].stock
    BY <2>1 DEF Removed, Product
  <2> QED
    BY <1>3, <2>1, <2>2, RemovedIs
<1>5. \/ /\ product'[p] = row /\ UNCHANGED variant
      \/ /\ product'[p] = None
         /\ \A v \in Variants : variant'[v] = IF v \in VariantsOf(p) THEN None ELSE variant[v]
  BY <1>2, <1>3, RemoveIs
<1>6. \A q \in Products : q # p => product'[q] = product[q]
  BY <1>2, RemoveIs
<1>7. \A v \in Variants :
        variant'[v] = variant[v] \/ (v \in VariantsOf(p) /\ variant'[v] = None)
  BY <1>5
<1>8. disturbed \subseteq disturbed'
  BY <1>1 DEF Overlap
<1>9. FormsApart' /\ NewVariantsFree'
  BY <1>1, <1>7 DEF ShelfInv, FormsApart, NewVariantsFree
<1>10. VariantsWhole'
  <2>1. \A v \in Variants : variant[v] # None => variant[v].product \in Products
    BY <1>2 DEF Variant
  <2>2. ASSUME NEW v \in Variants, variant'[v] # None
        PROVE  product'[variant'[v].product] # None
    <3>1. variant'[v] = variant[v]
      BY <1>7, <2>2
    <3>2. variant[v].product = p => product'[p] # None
      BY <1>4, <1>5, <2>2, <3>1 DEF VariantsOf
    <3> QED
      BY <1>6, <2>1, <2>2, <3>1, <3>2 DEF ShelfInv, VariantsWhole, Exists
  <2> QED
    BY <2>2 DEF VariantsWhole, Exists
<1>11. FavoritesLive'
  <2>1. ASSUME NEW f \in favorite', f[2] \notin disturbed'
        PROVE  Live(f[2])'
    <3>1. f \in favorite /\ f[2] # p /\ f[2] \in Products
      BY <1>1, <1>2, <2>1 DEF KeptFavorites
    <3>2. Live(f[2])
      BY <1>8, <2>1, <3>1 DEF ShelfInv, FavoritesLive
    <3> QED
      BY <1>6, <3>1, <3>2 DEF Live, Exists
  <2> QED
    BY <2>1 DEF FavoritesLive
<1>12. \A q \in Products : q # p => Untouched(q)
  <2>1. \A q \in Products : q # p => VariantsOf(q)' = VariantsOf(q)
    BY <1>7 DEF VariantsOf
  <2>2. ASSUME NEW q \in Products, q # p, NEW v \in VariantsOf(q)
        PROVE  variant'[v] = variant[v]
    BY <1>7, <2>2 DEF VariantsOf
  <2> QED
    BY <1>1, <1>6, <2>1, <2>2 DEF Untouched
<1>13. ASSUME p \notin disturbed'
       PROVE  Kept(p)'
  <2>1. Kept(p) /\ \A k \in Requests : ~At(k, p)
    BY <1>1, <1>8, <1>13 DEF Overlap, ShelfInv, AllKept
  <2>2. \A k \in Requests : ~At(k, p)'
    BY <1>1, <2>1 DEF At
  <2>3. ListedAs(p)'
    BY <1>1, <1>4, <1>5 DEF ListedAs, Exists, Listed
  <2>4. StockAs(p)'
    <3>1. CASE product'[p] = row /\ UNCHANGED variant
      <4>1. ActiveOf(p)' = ActiveOf(p)
        BY <3>1 DEF ActiveOf, VariantsOf
      <4>2. Exists(p)
        BY <1>1 DEF Live
      <4> QED
        BY <1>1, <1>4, <2>1, <3>1, <4>1, <4>2 DEF Kept, StockAs, Counted
    <3>2. CASE product'[p] = None
      BY <3>2 DEF StockAs, Exists
    <3> QED
      BY <1>5, <3>1, <3>2
  <2> QED
    BY <2>2, <2>3, <2>4 DEF Kept, Alone
<1>14. AllKept'
  <2> SUFFICES ASSUME NEW q \in Products, q # p, q \notin disturbed'
               PROVE  Kept(q)'
    BY <1>13 DEF AllKept
  <2>1. Kept(q) /\ Untouched(q)
    BY <1>8, <1>12 DEF ShelfInv, AllKept
  <2>2. \A k \in Requests : (At(k, q)' <=> At(k, q)) /\ job'[k] = job[k]
    BY <1>1 DEF At
  <2> QED
    BY <2>1, <2>2, Elsewhere
<1> QED
  BY <1>9, <1>10, <1>11, <1>14 DEF ShelfInv

LEMMA ShelfInsertFavorite ==
  ASSUME Typed, ShelfInv, NEW j \in Requests, NEW p \in Products,
         job[j].product = p, InsertFavorite(j)
  PROVE  ShelfInv'
<1>1. /\ job[j].phase = "favorite" /\ End(j)
      /\ UNCHANGED <<product, variant, cleared, disturbed, adrift>>
      /\ favorite' \subseteq favorite \cup {<<job[j].buyer, p>>}
  BY DEF InsertFavorite, shown
<1>2. p \notin disturbed => Live(p)
  BY <1>1, SeesOwn DEF Sees
<1>3. FavoritesLive'
  BY <1>1, <1>2 DEF ShelfInv, FavoritesLive, Live, Exists
<1> QED
  BY <1>1, <1>3, ShelfEnd

LEMMA ShelfBreakOff ==
  ASSUME Typed, ShelfInv, NEW j \in Requests, NEW p \in Products,
         job[j].product = p, BreakOffJob(j)
  PROVE  ShelfInv'
<1>1. /\ job[j].phase # "idle" /\ End(j) /\ disturbed' = disturbed \cup {p}
      /\ UNCHANGED <<product, variant, favorite, cleared, adrift>>
  BY DEF BreakOffJob, shelf
<1>2. FavoritesLive'
  BY <1>1 DEF ShelfInv, FavoritesLive, Live, Exists
<1> QED
  BY <1>1, <1>2, ShelfEnd

LEMMA ShelfJobStep ==
  ASSUME Typed, ShelfInv, NEW j \in Requests, JobStep(j)
  PROVE  ShelfInv'
<1>1. {"approved", "rejected"} \subseteq Status
  BY DEF Status
<1>2. CASE \/ LinkMedia(j) \/ SaveValues(j) \/ SaveVerdict(j) \/ InsertFavorite(j)
           \/ BreakOffJob(j) \/ SellItem(j) \/ SaveStock(j)
  <2>1. job[j].phase # "idle"
    BY <1>2 DEF LinkMedia, SaveValues, SaveVerdict, InsertFavorite, BreakOffJob, SellItem,
                SaveStock
  <2>2. PICK p \in Products : job[j].product = p
    BY <2>1, JobIs DEF JobShape
  <2> QED
    BY <1>2, <2>2, ShelfLinkMedia, ShelfSaveValues, ShelfSaveVerdict, ShelfInsertFavorite,
       ShelfBreakOff, ShelfSellItem, ShelfSaveStock
<1>3. CASE InsertProduct(j) \/ InsertVariant(j) \/ ReadVariants(j) \/ CommitUpdate(j)
  <2>1. job[j].phase \in {"product", "variants", "begin", "commit"}
    BY <1>3 DEF InsertProduct, InsertVariant, ReadVariants, CommitUpdate
  <2>2. job[j].product \in Products /\ job[j].form \in Forms
    BY <2>1, JobIs DEF JobShape, Creating
  <2>3. PICK p \in Products : job[j].product = p
    BY <2>2
  <2>4. PICK form \in Forms : job[j].form = form
    BY <2>2
  <2> QED
    BY <1>3, <2>3, <2>4, ShelfInsertProduct, ShelfInsertVariant, ShelfReadVariants,
       ShelfCommitUpdate
<1> QED
  BY <1>1, <1>2, <1>3, ShelfCreate, ShelfUpdate, ShelfJudge, ShelfAddFavorite, ShelfCheckout
     DEF JobStep

LEMMA ShelfNext ==
  ASSUME Typed, ShelfInv, [Next]_vars
  PROVE  ShelfInv'
<1>1. CASE UNCHANGED own
  BY <1>1, ShelfSame DEF own, shelf, shown
<1>2. ASSUME NEW m \in Media,
             \/ \E p \in Products \cup {None} : UploadMedia(m, p)
             \/ \E p \in Products : AssignMedia(m, p)
             \/ RemoveMedia(m)
      PROVE  ShelfInv'
  BY <1>2, ShelfSame DEF UploadMedia, AssignMedia, RemoveMedia, shown
<1>3. ASSUME NEW b \in Buyers, NEW p \in Products, RemoveFavorite(b, p)
      PROVE  ShelfInv'
  BY <1>3, ShelfSame DEF RemoveFavorite, shown
<1>4. ASSUME NEW r \in Requests, EraseBrand(r) \/ \E b \in Brands : RemoveBrand(r, b)
      PROVE  UNCHANGED own
  BY <1>4 DEF EraseBrand, RemoveBrand
<1> QED
  BY <1>1, <1>2, <1>3, <1>4, ShelfJobStep, ShelfRemove DEF Next, vars

LEMMA ShelfInit ==
  ASSUME Init
  PROVE  ShelfInv
<1>1. /\ \A p \in Products : product[p] = None
      /\ \A v \in Variants : variant[v] = None
      /\ \A j \in Requests : job[j] = Rest
      /\ favorite = {}
  BY DEF Init
<1>2. FormsApart /\ NewVariantsFree
  BY <1>1, RestIs DEF FormsApart, NewVariantsFree
<1>3. VariantsWhole /\ FavoritesLive
  BY <1>1 DEF VariantsWhole, FavoritesLive
<1>4. ASSUME NEW p \in Products
      PROVE  Kept(p)
  BY <1>1, RestIs DEF Kept, Alone, ListedAs, StockAs, Exists, At
<1> QED
  BY <1>2, <1>3, <1>4 DEF ShelfInv, AllKept

(* The variants that are active are finitely many, of one piece each.       *)
LEMMA ActiveCount ==
  ASSUME Typed, NEW p \in Products, Counted(p)
  PROVE  SumFunctionOnSet([v \in ActiveOf(p) |-> variant[v].stock], ActiveOf(p))
           = Cardinality(ActiveOf(p))
<1>1. IsFiniteSet(ActiveOf(p))
  <2>1. ActiveOf(p) \subseteq Variants
    BY DEF ActiveOf, VariantsOf
  <2> QED
    BY <2>1, FS_Subset
<1>2. \A v \in ActiveOf(p) : variant[v].stock = 1
  BY DEF Counted
<1> QED
  BY <1>1, <1>2, SumOnes

LEMMA ShelfAlways == Spec => [](Typed /\ ShelfInv)
<1>1. Init => Typed /\ ShelfInv
  BY TypedInit, ShelfInit
<1>2. (Typed /\ ShelfInv) /\ [Next]_vars => (Typed /\ ShelfInv)'
  <2>1. Typed /\ [Next]_vars => Typed'
    BY TypedStep
  <2>2. Typed /\ ShelfInv /\ [Next]_vars => ShelfInv'
    BY ShelfNext
  <2> QED
    BY <2>1, <2>2
<1> QED
  BY <1>1, <1>2, PTL DEF Spec

(* Where requests about a product did not overlap, it is listed exactly     *)
(* when the rules or an administrator cleared it where it is filed now, and *)
(* it was not removed (ProductsService.create, update, approve, reject,     *)
(* remove; OrdersService.checkout, which saves the product it has sold).    *)
THEOREM ListingQuiet == Spec => []QuietListing
<1>1. Typed /\ ShelfInv => QuietListing
  BY DEF ShelfInv, AllKept, Kept, ListedAs, QuietListing, Quiet
<1> QED
  BY <1>1, ShelfAlways, PTL

(* And its stock is that of its active variants, however many edits, sales  *)
(* and verdicts it went through, from the time variants were last sent for  *)
(* it (resolveProductPriceAndStock, syncProductVariants) until a variant is *)
(* sold or a stock is sent alone.                                           *)
THEOREM StockQuiet == Spec => []QuietStockAddsUp
<1>1. ASSUME Typed, ShelfInv, NEW p \in Products, Quiet(p), Live(p), ActiveOf(p) # {},
             p \notin adrift
      PROVE  product[p].stock =
               SumFunctionOnSet([v \in ActiveOf(p) |-> variant[v].stock], ActiveOf(p))
  <2>1. StockAs(p) /\ \A k \in Requests : ~At(k, p)
    BY <1>1 DEF ShelfInv, AllKept, Kept, Quiet
  <2>2. Counted(p)
    BY <1>1, <2>1 DEF StockAs, Live
  <2> QED
    BY <1>1, <2>2, ActiveCount DEF Counted
<1>2. Typed /\ ShelfInv => QuietStockAddsUp
  BY <1>1 DEF QuietStockAddsUp, ActiveOf
<1> QED
  BY <1>2, ShelfAlways, PTL

(* And nobody keeps it among the favourites once it is removed              *)
(* (FavoritesService.addFavorite against ProductsService.remove).           *)
THEOREM FavoritesQuiet == Spec => []QuietFavoritesAreLive
<1>1. Typed /\ ShelfInv => QuietFavoritesAreLive
  BY DEF ShelfInv, FavoritesLive, QuietFavoritesAreLive, Quiet
<1> QED
  BY <1>1, ShelfAlways, PTL

------------------------------------------------------------------------------
(* Colours.                                                                 *)

(* Of numbers up to a bound, one is smallest.                               *)
LEMMA Smallest ==
  ASSUME NEW N \in Nat, NEW B, B \subseteq 0..N, B # {}
  PROVE  \E n \in B : \A m \in B : n <= m
<1> DEFINE S == 0..N
           T == {0..n : n \in B}
<1>1. IsFiniteSet(S)
  BY FS_Interval
<1>2. T \subseteq SUBSET S /\ T # {}
  <2>1. \A n \in B : 0..n \subseteq S
    OBVIOUS
  <2>2. \A n \in B : 0..n \in T
    OBVIOUS
  <2>3. T # {}
    BY <2>2
  <2> QED
    BY <2>1, <2>3
<1>3. PICK t \in T : \A u \in T : ~(u \subseteq t /\ u # t)
  <2> HIDE DEF S, T
  <2> QED
    BY <1>1, <1>2, Least
<1>4. PICK n \in B : t = 0..n
  OBVIOUS
<1>5. ASSUME NEW m \in B, m < n
      PROVE  FALSE
  <2>1. 0..m \in T
    OBVIOUS
  <2>2. 0..m \subseteq 0..n /\ n \in 0..n /\ n \notin 0..m
    BY <1>5
  <2> QED
    BY <1>3, <1>4, <2>1, <2>2
<1>6. \A m \in B : n \in Nat /\ m \in Nat
  OBVIOUS
<1> QED
  BY <1>5, <1>6

(* The scan of the colours, up to the n-th.                                 *)
Chosen(h, c, best) ==
  IF /\ shade[c] # None
     /\ best # None => Closer(Distance(h, c), Distance(h, best))
  THEN c ELSE best

Scans(h, n, g) ==
  g = [c \in 0..n |-> IF c = 0 THEN None ELSE Chosen(h, c, g[c - 1])]

LEMMA RecommendedIs ==
  \A h : Recommended(h) =
           (CHOOSE g : Scans(h, Len(FirstShades), g))[Len(FirstShades)]
BY DEF Recommended, Scans, Chosen

LEMMA ScansExist ==
  ASSUME NEW h, NEW N \in Nat
  PROVE  \E g : Scans(h, N, g)
<1> DEFINE B == {n \in 0..N : ~ \E g : Scans(h, n, g)}
<1> SUFFICES ASSUME B # {} PROVE FALSE
  <2>1. N \in 0..N
    OBVIOUS
  <2> QED
    BY <2>1
<1>1. PICK n \in B : \A m \in B : n <= m
  <2>1. B \subseteq 0..N
    OBVIOUS
  <2> HIDE DEF B
  <2> QED
    BY <2>1, Smallest
<1>2. n \in 0..N
  OBVIOUS
<1>3. CASE n = 0
  <2>1. Scans(h, 0, [c \in 0..0 |-> None])
    BY DEF Scans
  <2> QED
    BY <1>3, <2>1
<1>4. CASE n # 0
  <2>1. n - 1 \in 0..N /\ ~(n <= n - 1)
    BY <1>2, <1>4
  <2>2. PICK f : Scans(h, n - 1, f)
    BY <1>1, <2>1
  <2> DEFINE g == [c \in 0..n |-> IF c = n THEN Chosen(h, n, f[n - 1]) ELSE f[c]]
  <2>3. \A c \in 0..(n - 1) : g[c] = f[c]
    BY <1>2
  <2>4. \A c \in 0..(n - 1) : f[c] = IF c = 0 THEN None ELSE Chosen(h, c, f[c - 1])
    BY <2>2 DEF Scans
  <2>5. \A c \in 0..n : g[c] = IF c = 0 THEN None ELSE Chosen(h, c, g[c - 1])
    <3> SUFFICES ASSUME NEW c \in 0..n
                 PROVE  g[c] = IF c = 0 THEN None ELSE Chosen(h, c, g[c - 1])
      OBVIOUS
    <3>1. CASE c = n
      <4>1. g[c] = Chosen(h, n, f[n - 1])
        BY <3>1
      <4>2. g[n - 1] = f[n - 1]
        BY <1>2, <1>4, <2>3
      <4> HIDE DEF g
      <4> QED
        BY <1>4, <3>1, <4>1, <4>2
    <3>2. CASE c # n
      <4>1. c \in 0..(n - 1)
        BY <1>2, <3>2
      <4>2. c # 0 => c - 1 \in 0..(n - 1)
        BY <1>2, <4>1
      <4> HIDE DEF g
      <4> QED
        BY <2>3, <2>4, <4>1, <4>2
    <3> QED
      BY <3>1, <3>2
  <2>6. g = [c \in 0..n |-> g[c]]
    OBVIOUS
  <2> HIDE DEF g
  <2>7. Scans(h, n, g)
    BY <2>5, <2>6 DEF Scans
  <2> QED
    BY <2>7
<1> QED
  BY <1>3, <1>4

(* What the scan has found among the first n colours.                       *)
NearestOf(h, n, best) ==
  /\ best = None => \A c \in 1..n : shade[c] = None
  /\ best # None =>
       /\ best \in 1..n /\ shade[best] # None
       /\ \A c \in 1..n : shade[c] # None =>
            /\ Distance(h, best) <= Distance(h, c)
            /\ Distance(h, best) = Distance(h, c) => best <= c

LEMMA ScanNearest ==
  ASSUME CatalogueTypeOK, NEW h \in Shades, NEW g, Scans(h, Len(FirstShades), g)
  PROVE  NearestOf(h, Len(FirstShades), g[Len(FirstShades)])
<1> DEFINE N == Len(FirstShades)
           B == {n \in 0..N : ~NearestOf(h, n, g[n])}
<1>1. N \in Nat /\ Colors = 1..N
  BY DEF Colors
<1>2. \A c \in 1..N : shade[c] \in Nat \cup {None}
  BY <1>1 DEF CatalogueTypeOK
<1>3. \A c \in 1..N : shade[c] # None => Distance(h, c) \in Nat
  BY <1>2 DEF Distance
<1>4. \A c \in 0..N : g[c] = IF c = 0 THEN None ELSE Chosen(h, c, g[c - 1])
  BY DEF Scans
<1> HIDE DEF N
<1> SUFFICES ASSUME B # {} PROVE FALSE
  BY <1>1 DEF N
<1>5. PICK n \in B : \A m \in B : n <= m
  <2>1. B \subseteq 0..N
    OBVIOUS
  <2> HIDE DEF B
  <2> QED
    BY <1>1, <2>1, Smallest
<1>6. CASE n = 0
  BY <1>1, <1>4, <1>6 DEF NearestOf
<1>7. CASE n # 0
  <2>1. n \in 1..N /\ n - 1 \in 0..N /\ ~(n <= n - 1)
    BY <1>1, <1>7
  <2>2. NearestOf(h, n - 1, g[n - 1])
    BY <1>5, <2>1
  <2>3. PICK best : best = g[n - 1]
    OBVIOUS
  <2>4. g[n] = Chosen(h, n, best)
    BY <1>4, <1>7, <2>3
  <2>5. 1..n = 1..(n - 1) \cup {n}
    BY <2>1
  <2>6. best = None \/ (best \in 1..(n - 1) /\ best \in 1..N /\ best < n)
    BY <1>1, <2>1, <2>2, <2>3 DEF NearestOf
  <2>7. n # None /\ \A c \in 1..(n - 1) : c \in 1..N /\ c < n
    BY <1>1, <2>1
  <2>8. NearestOf(h, n, Chosen(h, n, best))
    <3>1. CASE shade[n] = None
      <4>1. Chosen(h, n, best) = best
        BY <3>1 DEF Chosen
      <4> QED
        BY <2>2, <2>3, <2>5, <2>6, <3>1, <4>1 DEF NearestOf
    <3>2. CASE shade[n] # None /\ best = None
      <4>1. Chosen(h, n, best) = n
        BY <3>2 DEF Chosen
      <4>2. Distance(h, n) \in Nat
        BY <1>3, <2>1, <3>2
      <4> QED
        BY <2>1, <2>2, <2>3, <2>5, <2>7, <3>2, <4>1, <4>2 DEF NearestOf
    <3>3. CASE shade[n] # None /\ best # None
      <4>1. /\ shade[best] # None
            /\ \A c \in 1..(n - 1) : shade[c] # None =>
                 /\ Distance(h, best) <= Distance(h, c)
                 /\ Distance(h, best) = Distance(h, c) => best <= c
        BY <2>2, <2>3, <3>3 DEF NearestOf
      <4>2. /\ Distance(h, n) \in Nat /\ Distance(h, best) \in Nat
            /\ \A c \in 1..(n - 1) : shade[c] # None => Distance(h, c) \in Nat
        BY <1>3, <2>1, <2>6, <2>7, <3>3, <4>1
      <4>3. CASE Distance(h, n) < Distance(h, best)
        <5>1. Chosen(h, n, best) = n
          BY <3>3, <4>3 DEF Chosen, Closer
        <5> QED
          BY <2>1, <2>5, <2>7, <3>3, <4>1, <4>2, <4>3, <5>1 DEF NearestOf
      <4>4. CASE ~(Distance(h, n) < Distance(h, best))
        <5>1. Chosen(h, n, best) = best
          BY <3>3, <4>4 DEF Chosen, Closer
        <5>2. Distance(h, best) <= Distance(h, n) /\ best <= n
          BY <2>1, <2>6, <3>3, <4>2, <4>4
        <5> QED
          BY <2>5, <2>6, <3>3, <4>1, <5>1, <5>2 DEF NearestOf
      <4> QED
        BY <4>3, <4>4
    <3> QED
      BY <3>1, <3>2, <3>3
  <2> QED
    BY <2>4, <2>8
<1> QED
  BY <1>6, <1>7

LEMMA NearestFound ==
  ASSUME CatalogueTypeOK, NEW h \in Shades
  PROVE  NearestOf(h, Len(FirstShades), Recommended(h))
<1>1. PICK g : g = CHOOSE f : Scans(h, Len(FirstShades), f)
  OBVIOUS
<1>2. Len(FirstShades) \in Nat
  OBVIOUS
<1>3. Scans(h, Len(FirstShades), g)
  BY <1>1, <1>2, ScansExist
<1>4. Recommended(h) = g[Len(FirstShades)]
  BY <1>1, RecommendedIs
<1> QED
  BY <1>3, <1>4, ScanNearest

(* No two colours have one hex.                                             *)
ColorsApart ==
  \A c, d \in Colors : shade[c] # None /\ shade[c] = shade[d] => c = d

LEMMA ShadeStep ==
  ASSUME [Next]_vars
  PROVE  \/ UNCHANGED shade
         \/ \E r \in Requests : SaveColor(r)
         \/ \E c \in Colors : RemoveColor(c)
<1> USE DEF catalogueRows
<1>1. ASSUME NEW r \in Requests, CatalogueStep(r)
      PROVE  UNCHANGED shade \/ SaveColor(r)
  BY <1>1 DEF CatalogueStep, Approve, Reject, SaveSuggestedCategory, SaveSuggestion,
     UpdateSubCategory, SaveSubCategory, EditAttribute, SaveAttribute, UpdateBrand,
     UploadLogo, OpenUpload, SaveBrandName, SaveBrand, DropFile, EditColor, BreakOff
<1>2. ASSUME NEW r \in Requests, EraseBrand(r) \/ \E b \in Brands : RemoveBrand(r, b)
      PROVE  UNCHANGED shade
  BY <1>2 DEF EraseBrand, RemoveBrand
<1>3. CASE CatalogueNext
  BY <1>1, <1>3 DEF CatalogueNext, RemoveCategory, RemoveAttribute
<1> QED
  BY <1>2, <1>3, RestKeepsLogos

LEMMA ColorsNext ==
  ASSUME Typed, ColorsApart, [Next]_vars
  PROVE  ColorsApart'
<1>1. shade \in [Colors -> Shades \cup {None}]
  BY DEF Typed, TypeOK, CatalogueTypeOK
<1>2. CASE UNCHANGED shade
  BY <1>2 DEF ColorsApart
<1>3. ASSUME NEW r \in Requests, SaveColor(r)
      PROVE  ColorsApart'
  <2>1. req[r].id \in Colors
    BY <1>3 DEF SaveColor, AtSave, Typed, Requesting, ReqShape, Saves
  <2> QED
    BY <1>1, <1>3, <2>1 DEF SaveColor, Available, ColorsApart
<1>4. ASSUME NEW c \in Colors, RemoveColor(c)
      PROVE  ColorsApart'
  BY <1>1, <1>4 DEF RemoveColor, ColorsApart
<1> QED
  BY <1>2, <1>3, <1>4, ShadeStep

(* The colour recommended for a hex is the first of those nearest to it, of *)
(* any number of colours, and no two colours come to share a hex            *)
(* (ColorsService.create, update, recommendMany).                           *)
THEOREM ColorNearest == Spec => []NearestIsRecommended
<1>1. Init => Typed /\ ColorsApart
  <2>1. Init => ColorsApart
    BY FirstShadesAssumption DEF Init, CatalogueInit, ColorsApart, Colors
  <2> QED
    BY <2>1, TypedInit
<1>2. (Typed /\ ColorsApart) /\ [Next]_vars => (Typed /\ ColorsApart)'
  <2>1. Typed /\ [Next]_vars => Typed'
    BY TypedStep
  <2>2. Typed /\ ColorsApart /\ [Next]_vars => ColorsApart'
    BY ColorsNext
  <2> QED
    BY <2>1, <2>2
<1>3. Typed /\ ColorsApart => NearestIsRecommended
  <2> DEFINE rows == {c \in Colors : shade[c] # None}
  <2> SUFFICES ASSUME Typed, ColorsApart
               PROVE  /\ \A c, d \in rows : shade[c] = shade[d] => c = d
                      /\ \A h \in Shades : \A c \in rows :
                           /\ Distance(h, Recommended(h)) <= Distance(h, c)
                           /\ Distance(h, Recommended(h)) = Distance(h, c) =>
                                Recommended(h) <= c
    BY DEF NearestIsRecommended
  <2>1. \A c, d \in rows : shade[c] = shade[d] => c = d
    BY DEF ColorsApart
  <2>2. ASSUME NEW h \in Shades, NEW c \in rows
        PROVE  /\ Distance(h, Recommended(h)) <= Distance(h, c)
               /\ Distance(h, Recommended(h)) = Distance(h, c) => Recommended(h) <= c
    <3>1. NearestOf(h, Len(FirstShades), Recommended(h))
      BY NearestFound DEF Typed, TypeOK
    <3>2. c \in 1..Len(FirstShades) /\ shade[c] # None
      BY DEF Colors
    <3> QED
      BY <3>1, <3>2 DEF NearestOf
  <2> QED
    BY <2>1, <2>2
<1> QED
  BY <1>1, <1>2, <1>3, PTL DEF Spec

==============================================================================
