----------------------------- MODULE Catalogue -----------------------------
(***************************************************************************)
(* What products are filed under: categories and the suggestions they come *)
(* from, subcategories and their attributes, brands with a logo in the     *)
(* image store, colours (CategoriesService, CategorySuggestionsService,    *)
(* SubCategoriesService, SubCategoryAttributesService, BrandsService,      *)
(* ColorsService).                                                         *)
(*                                                                         *)
(* Every change reads a row and saves it whole in a later query; unique    *)
(* columns turn a save away, and a row removed meanwhile comes back.       *)
(***************************************************************************)
EXTENDS Integers, Sequences

CONSTANTS
  Suggestions,    \* rows of category_suggestions, all for one new name
  SubCategories,  \* rows of sub_categories
  FirstFiled,     \* FirstFiled[s]: the names of its category and its own
  Attributes,     \* rows of sub_category_attributes
  SubOf,          \* SubOf[a]: the subcategory of attribute a
  Brands,         \* rows of brands
  Files,          \* files in the image store
  FirstShades,    \* hex values of the first colours, in the order of their names
  Shades,         \* hex values, as points on a line
  Requests,       \* slots for requests in progress
  None,           \* no row, no file
  MaxEdits,       \* bound on changes of the catalogue
  MaxFaults       \* bound on crashes and failed queries

(* One name for every rule of requiresManualProductApproval.                *)
CategoryName    == {"Gimnasio", "Deportes"}
SubCategoryName == {"Otros", "Carpas", "Mesas"}

ASSUME CatalogueAssumption ==
  /\ FirstFiled \in [SubCategories -> CategoryName \X SubCategoryName]
  /\ SubOf \in [Attributes -> SubCategories]
  /\ Shades \subseteq Nat /\ FirstShades \in Seq(Shades)
  /\ None \notin Brands \cup Files \cup Nat
  /\ MaxEdits \in Nat /\ MaxFaults \in Nat

(* colors.hex is unique. *)
ASSUME FirstShadesAssumption ==
  \A c, d \in DOMAIN FirstShades : FirstShades[c] = FirstShades[d] => c = d

VARIABLES
  suggestion,   \* the status of each suggestion
  suggested,    \* whether a category has the name of the suggestions
  filed,        \* filed[s]: the names of the category and the subcategory
  attribute,    \* rows of sub_category_attributes
  brand,        \* rows of brands
  stored,       \* files the image store keeps
  shade,        \* shade[c]: the hex of colour c
  req,          \* the requests in progress and what they have read
  edits, faults,    \* changes and faults so far, for the bounds
  clashed           \* history: rows on which requests overlapped or broke off

catalogueRows == <<suggestion, suggested, filed, attribute, brand, stored, shade>>
bounds        == <<edits, faults>>
catalogue     == <<catalogueRows, req, bounds, clashed>>

Status    == {"pending", "approved", "rejected"}
AppliesTo == {"PRODUCT", "VARIANT"}
Usage     == {"product_attribute", "variant_attribute", "variant_size",
              "variant_color"}
Attribute == {a \in [required : BOOLEAN, appliesTo : AppliesTo, usage : Usage] :
                a.appliesTo = "PRODUCT" <=> a.usage = "product_attribute"}

(* logo is the URL of a file, publicId what deletes it.                     *)
Brand == [logo : Files \cup {None}, publicId : Files \cup {None}]
Colors == 1..Len(FirstShades)

ASSUME CatalogueRowAssumption == None \notin Attribute \cup Brand

(* table and id name the row that is saved next; file is to be deleted.     *)
Idle == [phase |-> "idle", table |-> None, id |-> None, row |-> None, file |-> None]

CatalogueTypeOK ==
  /\ suggestion \in [Suggestions -> Status]
  /\ suggested \in BOOLEAN
  /\ filed \in [SubCategories -> CategoryName \X SubCategoryName]
  /\ attribute \in [Attributes -> Attribute \cup {None}]
  /\ brand \in [Brands -> Brand \cup {None}]
  /\ stored \subseteq Files
  /\ shade \in [Colors -> Shades \cup {None}]
  /\ edits \in 0..MaxEdits /\ faults \in 0..MaxFaults

CatalogueInit ==
  /\ suggestion = [s \in Suggestions |-> "pending"]
  /\ suggested = FALSE
  /\ filed = FirstFiled
  /\ attribute \in [Attributes -> {None, [required |-> TRUE, appliesTo |-> "PRODUCT",
                                          usage |-> "product_attribute"]}]
  /\ brand = [b \in Brands |-> [logo |-> None, publicId |-> None]]
  /\ stored = {}
  /\ shade = FirstShades
  /\ req = [r \in Requests |-> Idle]
  /\ edits = 0 /\ faults = 0 /\ clashed = {}

------------------------------------------------------------------------------
Uses(q, t, i) == req[q].phase # "idle" /\ req[q].table = t /\ req[q].id = i

(* A request has read row i of table t and goes on with w.                  *)
Open(r, t, i, w) ==
  /\ req[r].phase = "idle"
  /\ edits < MaxEdits /\ edits' = edits + 1
  /\ req' = [req EXCEPT ![r] = [w EXCEPT !.table = t, !.id = i]]
  /\ clashed' = clashed \cup (IF \E q \in Requests : Uses(q, t, i) THEN {<<t, i>>} ELSE {})
  /\ UNCHANGED faults

Close(r) == req' = [req EXCEPT ![r] = Idle]

Saving(row) == [Idle EXCEPT !.phase = "save", !.row = row]

AtSave(r, t) == req[r].phase = "save" /\ req[r].table = t

------------------------------------------------------------------------------
(* CategorySuggestionsService.approve and reject, whatever the status was.  *)
Approve(r, s) ==
  /\ Open(r, "suggestion", s, [Saving([status |-> "approved"]) EXCEPT !.phase = "category"])
  /\ UNCHANGED catalogueRows

Reject(r, s) ==
  /\ Open(r, "suggestion", s, Saving([status |-> "rejected"]))
  /\ UNCHANGED catalogueRows

(* categories.name is unique: a second approval ends here.                  *)
SaveSuggestedCategory(r) ==
  /\ req[r].phase = "category"
  /\ suggested' = TRUE
  /\ IF suggested THEN Close(r) ELSE req' = [req EXCEPT ![r].phase = "save"]
  /\ UNCHANGED <<suggestion, filed, attribute, brand, stored, shade, bounds, clashed>>

SaveSuggestion(r) ==
  /\ AtSave(r, "suggestion")
  /\ suggestion' = [suggestion EXCEPT ![req[r].id] = req[r].row.status]
  /\ Close(r)
  /\ UNCHANGED <<suggested, filed, attribute, brand, stored, shade, bounds,
                 clashed>>

(* CategoriesService.remove, of a category without products.                *)
RemoveCategory ==
  /\ suggested /\ suggested' = FALSE
  /\ edits < MaxEdits /\ edits' = edits + 1
  /\ UNCHANGED <<suggestion, filed, attribute, brand, stored, shade, req, faults,
                 clashed>>

------------------------------------------------------------------------------
RequiresManualApproval(category, name) ==
  \/ name = "Otros"
  \/ category = "Gimnasio"
  \/ <<category, name>> = <<"Deportes", "Carpas">>

Sensitive(s) == RequiresManualApproval(filed[s][1], filed[s][2])

UpdateSubCategory(r, s, names) ==
  /\ Open(r, "sub", s, Saving([names |-> names]))
  /\ UNCHANGED catalogueRows

SaveSubCategory(r) ==
  /\ AtSave(r, "sub")
  /\ filed' = [filed EXCEPT ![req[r].id] = req[r].row.names]
  /\ Close(r)
  /\ UNCHANGED <<suggestion, suggested, attribute, brand, stored, shade, bounds,
                 clashed>>

DefaultUsage(appliesTo) ==
  IF appliesTo = "VARIANT" THEN "variant_attribute" ELSE "product_attribute"

UsageOf(appliesTo, sent) == IF sent = None THEN DefaultUsage(appliesTo) ELSE sent

(* variant: any usage goes with any kind of attribute                       *)
MatchesAny(appliesTo, usage) == TRUE

(* assertUsageMatchesAppliesTo                                              *)
Matches(appliesTo, usage) == appliesTo = "PRODUCT" <=> usage = "product_attribute"

(* create and update of an attribute; the latter sets the usage to the      *)
(* default when none is sent.                                               *)
EditAttribute(r, a, required, appliesTo, sent) ==
  LET usage == UsageOf(appliesTo, sent) IN
  /\ Matches(appliesTo, usage)
  /\ Open(r, "attribute", a, Saving([required |-> required, appliesTo |-> appliesTo,
                                     usage |-> usage]))
  /\ UNCHANGED catalogueRows

SaveAttribute(r) ==
  /\ AtSave(r, "attribute")
  /\ attribute' = [attribute EXCEPT ![req[r].id] = req[r].row]
  /\ Close(r)
  /\ UNCHANGED <<suggestion, suggested, filed, brand, stored, shade, bounds,
                 clashed>>

RemoveAttribute(a) ==
  /\ attribute[a] # None /\ attribute' = [attribute EXCEPT ![a] = None]
  /\ edits < MaxEdits /\ edits' = edits + 1
  /\ UNCHANGED <<suggestion, suggested, filed, brand, stored, shade, req, faults,
                 clashed>>

------------------------------------------------------------------------------
(* BrandsService.update does not select logoPublicId: it saves the logo as  *)
(* it was read and leaves the other column.                                 *)
UpdateBrand(r, b) ==
  /\ brand[b] # None
  /\ Open(r, "brand", b, [Saving([logo |-> brand[b].logo, publicId |-> None])
                            EXCEPT !.phase = "rename"])
  /\ UNCHANGED catalogueRows

SaveBrandName(r) ==
  LET b == req[r].id IN
  /\ req[r].phase = "rename"
  /\ brand' = IF brand[b] = None THEN [brand EXCEPT ![b] = req[r].row]
              ELSE [brand EXCEPT ![b].logo = req[r].row.logo]
  /\ Close(r)
  /\ UNCHANGED <<suggestion, suggested, filed, attribute, stored, shade, bounds,
                 clashed>>

Fresh(f) ==
  /\ f \notin stored
  /\ \A q \in Requests : req[q].file # f
  /\ \A b \in Brands : brand[b] # None => brand[b].logo # f /\ brand[b].publicId # f

(* uploadLogo up to its save, the new file uploaded; what was the logo is   *)
(* deleted after the save.                                                  *)
OpenUpload(r, b, f) ==
  /\ brand[b] # None /\ Fresh(f)
  /\ Open(r, "brand", b, [Saving([logo |-> f, publicId |-> f])
                            EXCEPT !.file = brand[b].publicId])
  /\ UNCHANGED <<suggestion, suggested, filed, attribute, brand, shade>>

(* variant: what was the logo is deleted before the brand is saved          *)
UploadLogoDeleting(r, b, f) ==
  OpenUpload(r, b, f) /\ stored' = (stored \cup {f}) \ {brand[b].publicId}

UploadLogo(r, b, f) == OpenUpload(r, b, f) /\ stored' = stored \cup {f}

SaveBrand(r) ==
  /\ AtSave(r, "brand")
  /\ brand' = [brand EXCEPT ![req[r].id] = req[r].row]
  /\ IF req[r].file = None THEN Close(r) ELSE req' = [req EXCEPT ![r].phase = "drop"]
  /\ UNCHANGED <<suggestion, suggested, filed, attribute, stored, shade, bounds,
                 clashed>>

DropFile(r) ==
  /\ req[r].phase = "drop"
  /\ stored' = stored \ {req[r].file}
  /\ Close(r)
  /\ UNCHANGED <<suggestion, suggested, filed, attribute, brand, shade, bounds,
                 clashed>>

------------------------------------------------------------------------------
(* ColorsService.ensureAvailable                                            *)
Available(c, h) == \A d \in Colors : d # c => shade[d] # h

(* create and update of a colour, up to the save.                           *)
EditColor(r, c, h) ==
  /\ Available(c, h)
  /\ Open(r, "color", c, Saving([hex |-> h]))
  /\ UNCHANGED catalogueRows

(* colors.hex is unique.                                                    *)
SaveColor(r) ==
  LET c == req[r].id
      h == req[r].row.hex IN
  /\ AtSave(r, "color")
  /\ shade' = IF Available(c, h) THEN [shade EXCEPT ![c] = h] ELSE shade
  /\ Close(r)
  /\ UNCHANGED <<suggestion, suggested, filed, attribute, brand, stored, bounds,
                 clashed>>

RemoveColor(c) ==
  /\ shade[c] # None /\ shade' = [shade EXCEPT ![c] = None]
  /\ edits < MaxEdits /\ edits' = edits + 1
  /\ UNCHANGED <<suggestion, suggested, filed, attribute, brand, stored, req, faults,
                 clashed>>

Distance(h, c) == IF shade[c] > h THEN shade[c] - h ELSE h - shade[c]

(* variant: of two colours at one distance the last is taken                *)
NotFarther(d, e) == d <= e

Closer(d, e) == d < e

(* recommendMany for one hex: a scan of the colours by name, None when      *)
(* there are none.                                                          *)
Recommended(h) ==
  LET closest[c \in 0..Len(FirstShades)] ==
        IF c = 0 THEN None
        ELSE LET best == closest[c - 1] IN
             IF /\ shade[c] # None
                /\ best # None => Closer(Distance(h, c), Distance(h, best))
             THEN c ELSE best
  IN  closest[Len(FirstShades)]

(* A crash or a failed query, also of the image store.                      *)
BreakOff(r) ==
  /\ req[r].phase # "idle"
  /\ faults < MaxFaults /\ faults' = faults + 1
  /\ clashed' = clashed \cup {<<req[r].table, req[r].id>>}
  /\ Close(r)
  /\ UNCHANGED <<catalogueRows, edits>>

CatalogueStep(r) ==
  \/ \E s \in Suggestions : Approve(r, s) \/ Reject(r, s)
  \/ SaveSuggestedCategory(r) \/ SaveSuggestion(r)
  \/ \E s \in SubCategories, names \in CategoryName \X SubCategoryName :
       UpdateSubCategory(r, s, names)
  \/ SaveSubCategory(r)
  \/ \E a \in Attributes, required \in BOOLEAN, appliesTo \in AppliesTo,
        sent \in {None, "variant_size"} : EditAttribute(r, a, required, appliesTo, sent)
  \/ SaveAttribute(r)
  \/ \E b \in Brands : UpdateBrand(r, b) \/ \E f \in Files : UploadLogo(r, b, f)
  \/ SaveBrandName(r) \/ SaveBrand(r) \/ DropFile(r)
  \/ \E c \in Colors, h \in Shades : EditColor(r, c, h)
  \/ SaveColor(r)
  \/ BreakOff(r)

CatalogueNext ==
  \/ \E r \in Requests : CatalogueStep(r)
  \/ RemoveCategory
  \/ \E a \in Attributes : RemoveAttribute(a)
  \/ \E c \in Colors : RemoveColor(c)

------------------------------------------------------------------------------
(* Safety.                                                                  *)

Settled(t, i) == <<t, i>> \notin clashed /\ \A q \in Requests : ~Uses(q, t, i)

(* What deletes a logo names a file that is kept, under every overlap and   *)
(* crash; and where changes of a brand did not overlap, so does its URL     *)
(* (brands.service.ts:116).                                                 *)
LogoIsStored ==
  \A b \in Brands : brand[b] # None =>
    /\ brand[b].publicId \in stored \cup {None}
    /\ Settled("brand", b) => brand[b].logo = brand[b].publicId

(* Two colours never share a hex, and the colour recommended for a hex is   *)
(* the first of those nearest to it (colors.service.ts:191).                *)
NearestIsRecommended ==
  LET rows == {c \in Colors : shade[c] # None} IN
  /\ \A c, d \in rows : shade[c] = shade[d] => c = d
  /\ rows # {} => \A h \in Shades : \A c \in rows :
       /\ Distance(h, Recommended(h)) <= Distance(h, c)
       /\ Distance(h, Recommended(h)) = Distance(h, c) => Recommended(h) <= c
==============================================================================
