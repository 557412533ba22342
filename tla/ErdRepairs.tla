----------------------------- MODULE ErdRepairs -----------------------------
(***************************************************************************)
(* An entity-relationship diagram in the editor: what the validation finds *)
(* wrong, the repairs it offers, and what one repair or all safe repairs   *)
(* together make of the diagram.                                           *)
(*                                                                         *)
(* A repair is a sequence of commands computed on the diagram as it was;   *)
(* each is applied on its own and may be refused, and the update of an     *)
(* entity replaces all its fields.  Repairs come from the validation in    *)
(* the tab or from an audit of the server, whose diagram is what the       *)
(* tab's was at some moment before.                                        *)
(*                                                                         *)
(* Types, texts, NOT NULL and INDEX flags and severities are left out; the *)
(* name of a field is the entity whose foreign key would be called so, or  *)
(* None.                                                                   *)
(***************************************************************************)
EXTENDS Naturals, SequencesExt, FiniteSetsExt

CONSTANTS
    Entities,    \* a sequence of ids: the order of the diagram's nodes
    Relations,   \* a sequence of ids: the order of the diagram's edges
    Drawn,       \* the relations that users draw
    JoinOf,      \* JoinOf[r]: the entity a conversion of r adds; bound: its domain
    HalvesOf,    \* HalvesOf[r]: the two relations it adds
    Starts,      \* the diagrams there may be, and whether conceptual relations are allowed
    MaxEdits,    \* bound: what users change by hand
    None

Es == Range(Entities)
Rs == Range(Relations)
\* "other" has other minima, one on the source's side; "none" is of a diagram of old.
Presets == {"1:1", "1:N", "N:1", "N:N"}
Cards == Presets \cup {"other", "none"}
Sides == {"source", "target"}

VARIABLES
    diagram,  \* entities: their fields or None; relations: what they say or None
    drawn,    \* relation ids that are used up
    allowConceptual,
    audit,    \* the server's audit: its phase, and the diagram it is of
    stale,    \* history: a repair of another diagram was applied
    edits

vars == <<diagram, drawn, allowConceptual, audit, stale, edits>>

Ids == [of : Es \cup Rs, n : Nat]
Field == [id : Ids, name : Es \cup {None}, flags : SUBSET {"PK", "FK", "UQ"},
          references : Es \cup {None}, by : Rs \cup {None}]
Conceptual == [mode |-> "conceptual"]
Fk == [mode : {"fk"}, side : Sides, dependent : Es, field : Ids, references : Es,
       unique : BOOLEAN]
Relation == [source : Es, target : Es, card : Cards, is : {Conceptual} \cup Fk]

Diagrams == [entities : [Es -> Seq(Field) \cup {None}],
             relations : [Rs -> Relation \cup {None}]]

Here(d) == {e \in Es : d.entities[e] # None}
Links(d) == {r \in Rs : d.relations[r] # None}

IsFk(rel) == rel.is.mode = "fk"
EntityAt(rel, side) == IF side = "source" THEN rel.source ELSE rel.target
Other(side) == IF side = "source" THEN "target" ELSE "source"

\* The side of a foreign key names the entity that holds it, the other side the one it
\* refers to.
Named(rel) ==
    IsFk(rel) => /\ rel.is.dependent = EntityAt(rel, rel.is.side)
                 /\ rel.is.references = EntityAt(rel, Other(rel.is.side))

\* The relations of a diagram end at its entities; only those are N:N that have a
\* conversion.
Sound(d) ==
    \A r \in Links(d) :
      /\ {d.relations[r].source, d.relations[r].target} \subseteq Here(d)
      /\ d.relations[r].card = "N:N" => r \in DOMAIN JoinOf

Halves(r) == Range(HalvesOf[r])

\* Entities and relations have ids of their own, and what a conversion adds has new ones.
ConstantsAssumption ==
    /\ Entities \in Seq(Es) /\ Relations \in Seq(Rs)
    /\ Es \cap Rs = {} /\ Drawn \subseteq Rs
    /\ None \notin Seq(Field) \cup Relation
    /\ DOMAIN JoinOf \subseteq Rs
    /\ JoinOf \in [DOMAIN JoinOf -> Es] /\ HalvesOf \in [DOMAIN JoinOf -> Rs \X Rs]
    /\ \A r \in DOMAIN JoinOf :
         /\ HalvesOf[r][1] # HalvesOf[r][2]
         /\ Halves(r) \cap (Drawn \cup DOMAIN JoinOf) = {}
         /\ \A q \in DOMAIN JoinOf \ {r} : Halves(q) \cap Halves(r) = {}
    /\ MaxEdits \in Nat
    /\ \A start \in Starts :
         LET d == start.diagram
         IN  /\ d \in Diagrams /\ Sound(d)
             /\ \A r \in Links(d) : Named(d.relations[r])
             /\ \A r \in DOMAIN JoinOf : Halves(r) \cap Links(d) = {}
             /\ start.conceptual \in BOOLEAN

TypeOK ==
    /\ \A e \in Here(diagram) : diagram.entities[e] \in Seq(Field)
    /\ \A r \in Links(diagram) :
         /\ diagram.relations[r] \in Relation
         /\ {diagram.relations[r].source, diagram.relations[r].target} \subseteq Here(diagram)
    /\ drawn \subseteq Drawn
    /\ allowConceptual \in BOOLEAN
    /\ audit.phase \in {"none", "coming", "shown"}
    /\ stale \in BOOLEAN
    /\ edits \in 0 .. MaxEdits

-----------------------------------------------------------------------------
(* Commands                                                                *)

PutFields(e, fields) == [type |-> "updateNode", id |-> e, fields |-> fields]
AddEntity(e, fields) == [type |-> "addNode", id |-> e, fields |-> fields]
PutRelation(r, is) == [type |-> "updateEdge", id |-> r, is |-> is]
AddRelation(r, rel) == [type |-> "addEdge", id |-> r, rel |-> rel]
DropRelation(r) == [type |-> "removeEdge", id |-> r]

\* No second relation from one entity to the same other one.
Duplicate(d, rel) ==
    \E r \in Links(d) : d.relations[r].source = rel.source /\ d.relations[r].target = rel.target
Fits(d, rel) == {rel.source, rel.target} \subseteq Here(d) /\ ~Duplicate(d, rel)

\* A command that is refused leaves the diagram as it is.
Apply(d, c) ==
    CASE c.type = "updateNode" /\ c.id \in Here(d)  -> [d EXCEPT !.entities[c.id] = c.fields]
      [] c.type = "addNode"                         -> [d EXCEPT !.entities[c.id] = c.fields]
      [] c.type = "updateEdge" /\ c.id \in Links(d) -> [d EXCEPT !.relations[c.id].is = c.is]
      [] c.type = "addEdge" /\ Fits(d, c.rel)     -> [d EXCEPT !.relations[c.id] = c.rel]
      [] c.type = "removeEdge"                      -> [d EXCEPT !.relations[c.id] = None]
      [] OTHER -> d

ApplyAll(d, commands) ==
    LET after[k \in 0 .. Len(commands)] ==
          IF k = 0 THEN d ELSE Apply(after[k - 1], commands[k])
    IN  after[Len(commands)]

-----------------------------------------------------------------------------
(* What the repairs are made of                                            *)

HasPk(fields) == \E i \in DOMAIN fields : "PK" \in fields[i].flags
IdsIn(fields) == {fields[i].id : i \in DOMAIN fields}

\* Every id in use, for ids are drawn at random.
UsedIds(d) ==
    (UNION {IdsIn(d.entities[e]) : e \in Here(d)})
      \cup {d.relations[r].is.field : r \in {q \in Links(d) : IsFk(d.relations[q])}}
Fresh(d, of) ==
    LET used == UsedIds(d) \cup UsedIds(diagram)
    IN  [of |-> of, n |-> Min({n \in 1 .. Cardinality(used) + 1 : [of |-> of, n |-> n] \notin used})]

Dependent(d, rel) ==
    LET s == d.entities[rel.source]
        t == d.entities[rel.target]
    IN  CASE rel.card = "N:1" -> "source"
          [] rel.card = "1:1" /\ ~HasPk(s) /\ HasPk(t) -> "source"
          [] rel.card = "1:1" /\ HasPk(s) = HasPk(t) /\ Len(s) < Len(t) -> "source"
          [] OTHER -> "target"

\* The first field that refers to the entity or is called like its foreign key.
Existing(fields, e) ==
    SelectInSeq(fields, LAMBDA f : f.references = e \/ f.name = e)

ReplaceById(fields, f) == [i \in DOMAIN fields |-> IF fields[i].id = f.id THEN f ELSE fields[i]]

MissingPkFix(d, e) ==
    <<PutFields(e, Append(d.entities[e],
        [id |-> [of |-> e, n |-> 0], name |-> None, flags |-> {"PK"},
         references |-> None, by |-> None]))>>

AsFk(rel, side, id, unique) ==
    [mode |-> "fk", side |-> side, dependent |-> EntityAt(rel, side), field |-> id,
     references |-> EntityAt(rel, Other(side)), unique |-> unique]

\* A field that exists becomes UNIQUE for a 1:1, a new one does not.
MaterializeFix(d, r, rel, side) ==
    LET e == EntityAt(rel, side)
        ref == EntityAt(rel, Other(side))
        fields == d.entities[e]
        at == Existing(fields, ref)
        one == rel.card = "1:1"
        f == IF at # 0
               THEN [fields[at] EXCEPT !.references = ref, !.by = r,
                       !.flags = @ \cup {"FK"} \cup IF one THEN {"UQ"} ELSE {}]
               ELSE [id |-> Fresh(d, r), name |-> ref, flags |-> {"FK"},
                     references |-> ref, by |-> r]
    IN  <<PutFields(e, IF at # 0 THEN ReplaceById(fields, f) ELSE Append(fields, f)),
          PutRelation(r, AsFk(rel, side, f.id, one))>>

\* Mutant: only the field is repaired.
UniqueFixOfField(d, r) ==
    LET rel == d.relations[r]
        e == EntityAt(rel, rel.is.side)
        at == SelectInSeq(d.entities[e], LAMBDA f : f.id = rel.is.field)
    IN  IF rel.card # "1:1" \/ ~IsFk(rel) \/ at = 0 \/ "UQ" \in d.entities[e][at].flags
          THEN <<>>
          ELSE <<PutFields(e, ReplaceById(d.entities[e],
                   [d.entities[e][at] EXCEPT !.flags = @ \cup {"UQ"}]))>>

\* Nothing to repair if the field is gone or is UNIQUE already.
UniqueFix(d, r) ==
    LET rel == d.relations[r]
        e == EntityAt(rel, rel.is.side)
        at == SelectInSeq(d.entities[e], LAMBDA f : f.id = rel.is.field)
    IN  IF rel.card # "1:1" \/ ~IsFk(rel) \/ at = 0 \/ "UQ" \in d.entities[e][at].flags
          THEN <<>>
          ELSE <<PutFields(e, ReplaceById(d.entities[e],
                   [d.entities[e][at] EXCEPT !.flags = @ \cup {"UQ"}])),
                 PutRelation(r, [rel.is EXCEPT !.unique = TRUE])>>

\* A new entity refers to both ends; two relations take the place of the one.
AssociativeFix(r, rel) ==
    LET j == JoinOf[r]
        ends == <<rel.source, rel.target>>
        id == [i \in 1 .. 2 |-> [of |-> r, n |-> i]]
        half == [i \in 1 .. 2 |->
                   [source |-> ends[i], target |-> j, card |-> "1:N",
                    is |-> [mode |-> "fk", side |-> "target", dependent |-> j,
                            field |-> id[i], references |-> ends[i], unique |-> FALSE]]]
    IN  <<AddEntity(j, [i \in 1 .. 2 |->
            [id |-> id[i], name |-> ends[i], flags |-> {"PK", "FK"},
             references |-> ends[i], by |-> r]]),
          DropRelation(r),
          AddRelation(HalvesOf[r][1], half[1]),
          AddRelation(HalvesOf[r][2], half[2])>>

-----------------------------------------------------------------------------
(* What is wrong, and what would repair it                                 *)

EntityDiagnostics(d, e) ==
    LET fields == d.entities[e]
        says(code, id) == [code |-> code, of |-> e, field |-> id]
    IN  {says("MISSING_PK", None) : p \in {HasPk(fields)} \ {TRUE}}
        \cup {says("FK_REFERENCE_MISSING", fields[i].id) :
                i \in {j \in DOMAIN fields :
                         "FK" \in fields[j].flags /\ fields[j].references = None}}
        \cup {says("FK_REFERENCE_INVALID", fields[i].id) :
                i \in {j \in DOMAIN fields :
                         /\ "FK" \in fields[j].flags
                         /\ fields[j].references \notin Here(d) \cup {None}}}

\* The codes of a relation; of the foreign key's only while its entities exist.
RelationCodes(d, rel) ==
    LET at == IF IsFk(rel) /\ rel.is.dependent \in Here(d)
                THEN SelectInSeq(d.entities[rel.is.dependent], LAMBDA f : f.id = rel.is.field)
                ELSE 0
        found == {code \in {"1N_MISSING_FK", "11_MISSING_UNIQUE", "NN", "FK_ENTITY_MISSING",
                            "FK_FIELD_MISSING", "FK_FIELD_FLAG_MISSING"} :
            CASE code = "1N_MISSING_FK" -> rel.card \in {"1:N", "N:1"} /\ ~IsFk(rel)
              [] code = "11_MISSING_UNIQUE" -> rel.card = "1:1" /\ IsFk(rel) /\ ~rel.is.unique
              [] code = "NN" -> rel.card = "N:N"
              [] code = "FK_ENTITY_MISSING" ->
                   IsFk(rel) /\ ~({rel.is.dependent, rel.is.references} \subseteq Here(d))
              [] code = "FK_FIELD_MISSING" -> IsFk(rel) /\ at = 0
              [] code = "FK_FIELD_FLAG_MISSING" ->
                   at # 0 /\ "FK" \notin d.entities[rel.is.dependent][at].flags}
    IN  CASE rel.card = "none" -> {"MISSING_CARDINALITY"}
          [] rel.card # "none" /\ "FK_ENTITY_MISSING" \in found -> found \ {"FK_FIELD_MISSING"}
          [] OTHER -> found

DiagnosticsOf(d, of) ==
    IF of \in Es
      THEN EntityDiagnostics(d, of)
      ELSE {[code |-> code, of |-> of, field |-> None] :
              code \in RelationCodes(d, d.relations[of])}

Diagnostics(d) == UNION {DiagnosticsOf(d, of) : of \in Here(d) \cup Links(d)}

\* The safe repair of a diagnostic, <<>> for those without one.
FixOf(d, diagnostic) ==
    LET r == diagnostic.of
    IN  CASE diagnostic.code = "MISSING_PK" -> MissingPkFix(d, r)
          [] diagnostic.code = "1N_MISSING_FK" ->
               MaterializeFix(d, r, d.relations[r], Dependent(d, d.relations[r]))
          [] diagnostic.code = "11_MISSING_UNIQUE" -> UniqueFix(d, r)
          [] diagnostic.code = "NN" -> AssociativeFix(r, d.relations[r])
          [] OTHER -> <<>>

Repairable(d) == {x \in Diagnostics(d) : FixOf(d, x) # <<>>}

\* The entities' repairs, then the relations', in the order of the diagram; there is one
\* at most for each of them.
FixesOf(d, of) ==
    LET fixes == IF of \in Here(d) \cup Links(d)
                   THEN {FixOf(d, x) : x \in DiagnosticsOf(d, of)} \ {<<>>} ELSE {}
    IN  IF fixes = {} THEN <<>> ELSE CHOOSE fix \in fixes : TRUE
WithoutRepeats(s) ==
    LET kept[k \in 0 .. Len(s)] ==
          IF k = 0 THEN <<>>
          ELSE IF Contains(kept[k - 1], s[k]) THEN kept[k - 1] ELSE Append(kept[k - 1], s[k])
    IN  kept[Len(s)]
Batch(d) ==
    LET of == Entities \o Relations
        fixes[k \in 0 .. Len(of)] ==
          IF k = 0 THEN <<>> ELSE fixes[k - 1] \o FixesOf(d, of[k])
    IN  WithoutRepeats(fixes[Len(of)])

-----------------------------------------------------------------------------
(* What the user does                                                      *)

NoAudit == [phase |-> "none", of |-> None]

Init ==
    /\ \E start \in Starts :
         diagram = start.diagram /\ allowConceptual = start.conceptual
    /\ drawn = Links(diagram) \cap Drawn
    /\ audit = NoAudit
    /\ stale = FALSE
    /\ edits = 0

\* Each change of the diagram takes a shown audit away, not one that is coming.
Becomes(d) ==
    /\ diagram' = d
    /\ audit' = IF audit.phase = "shown" THEN NoAudit ELSE audit
    /\ UNCHANGED allowConceptual

\* By hand: counted.
Change(d) ==
    /\ edits' = edits + 1
    /\ Becomes(d)
    /\ UNCHANGED stale

ChangeFields(e, fields) == Change(Apply(diagram, PutFields(e, fields))) /\ UNCHANGED drawn
ChangeRelation(r, rel) ==
    Change([diagram EXCEPT !.relations[r] = rel]) /\ UNCHANGED drawn

\* Quick relate; where conceptual relations are not allowed, with its repair.
Draw(r, source, target, card) ==
    LET rel == [source |-> source, target |-> target, card |-> card, is |-> Conceptual]
    IN  /\ card = "N:N" => r \in DOMAIN JoinOf
        /\ drawn' = drawn \cup {r}
        /\ Change(ApplyAll(Apply(diagram, AddRelation(r, rel)),
             CASE allowConceptual -> <<>>
               [] ~allowConceptual /\ card = "N:N" -> AssociativeFix(r, rel)
               [] OTHER -> MaterializeFix(diagram, r, rel, Dependent(diagram, rel))))

AddField(e) ==
    ChangeFields(e, Append(diagram.entities[e],
      [id |-> Fresh(diagram, e), name |-> None, flags |-> {}, references |-> None, by |-> None]))

RenameField(e, i, name) ==
    ChangeFields(e, ReplaceById(diagram.entities[e], [diagram.entities[e][i] EXCEPT !.name = name]))

Without(fields, id) ==
    LET kept[k \in 0 .. Len(fields)] ==
          IF k = 0 THEN <<>>
          ELSE IF fields[k].id = id THEN kept[k - 1] ELSE Append(kept[k - 1], fields[k])
    IN  kept[Len(fields)]

\* All fields with the id go.
RemoveField(e, id) == ChangeFields(e, Without(diagram.entities[e], id))

ToggleFlag(e, id, flag) ==
    ChangeFields(e, [i \in DOMAIN diagram.entities[e] |->
      IF diagram.entities[e][i].id = id
        THEN [diagram.entities[e][i] EXCEPT !.flags = SymDiff(@, {flag})]
        ELSE diagram.entities[e][i]])

SetCard(r, card) ==
    /\ card = "N:N" => r \in DOMAIN JoinOf
    /\ ChangeRelation(r, [diagram.relations[r] EXCEPT !.card = card])

MarkConceptual(r) ==
    /\ allowConceptual
    /\ ChangeRelation(r, [diagram.relations[r] EXCEPT !.is = Conceptual])

RemoveRelation(r) == Change(Apply(diagram, DropRelation(r))) /\ UNCHANGED drawn

\* With the relations that end there.
RemoveEntity(e) ==
    /\ Change([entities |-> [diagram.entities EXCEPT ![e] = None],
               relations |-> [r \in Rs |->
                 IF r \in Links(diagram) /\ e \in {diagram.relations[r].source,
                                                  diagram.relations[r].target}
                   THEN None ELSE diagram.relations[r]]])
    /\ UNCHANGED drawn

\* Mutant: the side of the foreign key is not turned.
FlippedSideKept(rel) ==
    [rel EXCEPT !.source = rel.target, !.target = rel.source,
       !.card = CASE @ = "1:N" -> "N:1" [] @ = "N:1" -> "1:N" [] OTHER -> @]

Flipped(rel) ==
    [source |-> rel.target, target |-> rel.source,
     card |-> CASE rel.card = "1:N" -> "N:1" [] rel.card = "N:1" -> "1:N" [] OTHER -> rel.card,
     is |-> IF IsFk(rel) THEN [rel.is EXCEPT !.side = Other(@)] ELSE rel.is]

\* The relation is removed, then added the other way round.
Swap(r) ==
    /\ Change(Apply(Apply(diagram, DropRelation(r)),
                    AddRelation(r, Flipped(diagram.relations[r]))))
    /\ UNCHANGED drawn

\* From the inspector: a side, and a field or 0 for a new one.
Materialize(r, side, at, unique) ==
    LET rel == diagram.relations[r]
        e == EntityAt(rel, side)
        one == unique \/ rel.card = "1:1"
        f == [diagram.entities[e][at] EXCEPT
                !.references = EntityAt(rel, Other(side)), !.by = r,
                !.flags = @ \cup {"FK"} \cup IF one THEN {"UQ"} ELSE {}]
    IN  /\ Change(ApplyAll(diagram,
             IF at = 0 THEN MaterializeFix(diagram, r, rel, side)
             ELSE <<PutFields(e, ReplaceById(diagram.entities[e], f)),
                    PutRelation(r, AsFk(rel, side, f.id, one))>>))
        /\ UNCHANGED drawn

\* The button for UNIQUE; the one for a conversion does what its repair does.
ApplyUnique(r) ==
    /\ UniqueFix(diagram, r) # <<>>
    /\ Change(ApplyAll(diagram, UniqueFix(diagram, r)))
    /\ UNCHANGED drawn

Edit ==
    /\ edits < MaxEdits
    /\ \/ \E r \in Drawn \ drawn, s, t \in Here(diagram), card \in Presets : Draw(r, s, t, card)
       \/ \E e \in Here(diagram) :
           \/ AddField(e)
           \/ RemoveEntity(e)
           \/ \E i \in DOMAIN diagram.entities[e] :
                \/ \E name \in Here(diagram) \cup {None} : RenameField(e, i, name)
                \/ RemoveField(e, diagram.entities[e][i].id)
                \/ \E flag \in {"PK", "FK", "UQ"} : ToggleFlag(e, diagram.entities[e][i].id, flag)
       \/ \E r \in Links(diagram) :
           \/ \E card \in Presets \cup {"other"} : SetCard(r, card)
           \/ MarkConceptual(r)
           \/ RemoveRelation(r)
           \/ Swap(r)
           \/ ApplyUnique(r)
           \/ \E side \in Sides :
                \/ Materialize(r, side, 0, FALSE)
                \/ \E at \in DOMAIN diagram.entities[EntityAt(diagram.relations[r], side)],
                      unique \in BOOLEAN : Materialize(r, side, at, unique)

\* What the tab's own validation offers, which the server's audit takes the place of.
Repair(x) ==
    /\ UNCHANGED <<drawn, stale, edits>>
    /\ audit.phase # "shown"
    /\ Becomes(ApplyAll(diagram, FixOf(diagram, x)))

RepairAll ==
    /\ Batch(diagram) # <<>>
    /\ UNCHANGED <<drawn, stale, edits>>
    /\ Becomes(ApplyAll(diagram, Batch(diagram)))

\* The server audits the diagram as it has it, the answer comes later.  Counted.
Audit ==
    /\ audit.phase = "none"
    /\ edits < MaxEdits
    /\ edits' = edits + 1
    /\ audit' = [phase |-> "coming", of |-> diagram]
    /\ UNCHANGED <<diagram, drawn, allowConceptual, stale>>

Show ==
    /\ audit.phase = "coming"
    /\ audit' = [audit EXCEPT !.phase = "shown"]
    /\ UNCHANGED <<diagram, drawn, allowConceptual, stale, edits>>

\* The ids of a conversion are used once.
RepairAudited(x) ==
    /\ UNCHANGED <<drawn, edits>>
    /\ x.code = "NN" => diagram.entities[JoinOf[x.of]] = None
    /\ stale' = (stale \/ audit.of # diagram)
    /\ Becomes(ApplyAll(diagram, FixOf(audit.of, x)))

Next ==
    \/ Edit
    \/ \E x \in Repairable(diagram) : Repair(x)
    \/ RepairAll
    \/ Audit
    \/ Show
    \/ audit.phase = "shown" /\ \E x \in Repairable(audit.of) : RepairAudited(x)

Spec == Init /\ [][Next]_vars

-----------------------------------------------------------------------------

\* As long as no repair of another diagram was applied, the side a foreign key is on
\* names the entity that holds it, and the other side the one it refers to, whatever was
\* swapped, repaired or set: the repair of UNIQUE looks the field up by the side, the
\* validation by the entity.
SidesNameEntities == ~stale => \A r \in Links(diagram) : Named(diagram.relations[r])

\* Not so when the flag PK was taken from the field of an earlier repair: the next one
\* makes a second field with its id, and what is done to the one is done to the other.
IdsAreDistinct(d) ==
    \A e \in Here(d) : Cardinality(IdsIn(d.entities[e])) = Len(d.entities[e])

Repaired == edits' = edits
Intact == ~stale' /\ IdsAreDistinct(diagram)

\* A new primary key takes the id a field had that was removed: the relation that misses
\* the field finds it again, without its flag.
FoundAgain(x) ==
    /\ x.code = "FK_FIELD_FLAG_MISSING"
    /\ [x EXCEPT !.code = "FK_FIELD_MISSING"] \in Diagnostics(diagram)

\* A repair resolves what it was offered for and breaks nothing else.
RepairsHeal ==
    Repaired /\ Intact =>
      LET left == Diagnostics(diagram')
          new == left \ Diagnostics(diagram)
      IN  \A x \in Repairable(diagram) :
            Repair(x) => x \notin left /\ \A y \in new : FoundAgain(y)

\* The entity whose fields a repair replaces.
Writes(d, x) == {c.id : c \in {k \in Range(FixOf(d, x)) : k.type = "updateNode"}}
Alone(d, x) == \A y \in Repairable(d) \ {x} : Writes(d, x) \cap Writes(d, y) = {}

\* All repairs together resolve those that share no entity with another one; what is new
\* is a relation without its field, or its flag, whose repair did share one; fewer repairs
\* are left, so that repeating it ends.
BatchesProgress ==
    Repaired /\ Intact /\ RepairAll =>
      /\ \A x \in Repairable(diagram) : Alone(diagram, x) => x \notin Diagnostics(diagram')
      /\ \A x \in Diagnostics(diagram') \ Diagnostics(diagram) :
           \/ FoundAgain(x)
           \/ /\ x.code \in {"FK_FIELD_MISSING", "FK_FIELD_FLAG_MISSING"}
              /\ \E y \in Repairable(diagram) : y.of = x.of /\ ~Alone(diagram, y)
      /\ Cardinality(Repairable(diagram')) < Cardinality(Repairable(diagram))

\* The direction of a relation has no part in what is wrong with it, unless the opposite
\* relation exists, whose pair the swapped one would repeat.
SwapsAreNeutral ==
    \A r \in Links(diagram) :
      diagram' = [diagram EXCEPT !.relations[r] = Flipped(@)] =>
        Diagnostics(diagram') = Diagnostics(diagram)

\* A repair takes no field away, but those of an entity that were added to it after the
\* audit the repair is from.
RepairsKeepFields ==
    Repaired =>
      \A e \in Here(diagram) :
        \A id \in IdsIn(diagram.entities[e]) \ IdsIn(diagram'.entities[e]) :
          /\ audit.phase = "shown"
          /\ audit.of # diagram
          /\ id \notin IdsIn(audit.of.entities[e])

=============================================================================
