-------------------------- MODULE CommandTableProofs --------------------------
(***************************************************************************)
(* What CommandTable promises for any buttons, commands, names and bound.  *)
(***************************************************************************)
EXTENDS CommandTable, TLAPS

-----------------------------------------------------------------------------
(* Types                                                                   *)

(***************************************************************************)
(* SetCommandLocked keeps the types of the table and of the counter.       *)
(***************************************************************************)
LEMMA SetCommandLockedType ==
  ASSUME TypeOK, NEW b \in Buttons, NEW c \in Commands, SetCommandLocked(b, c)
  PROVE  /\ commands' \in SUBSET Items
         /\ names' \in [Buttons -> Names \cup {NoName}]
         /\ nextButtonId' \in 1 .. (MaxButtonId + 1)
<1>1. commands' \in SUBSET Items
  BY DEF TypeOK, SetCommandLocked, WithoutCommand, Items
<1>2. CASE names[b] # NoName
  BY <1>1, <1>2 DEF TypeOK, SetCommandLocked
<1>3. CASE names[b] = NoName
  <2>1. nextButtonId \in AutoNames /\ nextButtonId + 1 \in 1 .. (MaxButtonId + 1)
    BY <1>3, BoundAssumption DEF TypeOK, SetCommandLocked, AutoNames
  <2>2. names' = [names EXCEPT ![b] = nextButtonId] /\ nextButtonId' = nextButtonId + 1
    BY <1>3 DEF SetCommandLocked
  <2> QED  BY <1>1, <2>1, <2>2 DEF TypeOK, Names
<1> QED  BY <1>2, <1>3

LEMMA OneIsAnId == 1 \in 1 .. (MaxButtonId + 1)
  BY BoundAssumption

(***************************************************************************)
(* No step of any task leaves the declared types.                          *)
(***************************************************************************)
LEMMA TypeStep ==
  ASSUME TypeOK, [Next]_vars
  PROVE  TypeOK'
<1>0. CASE UNCHANGED vars
  BY <1>0 DEF TypeOK, vars, ram, nvs, files
<1>1. ASSUME NEW b \in Buttons, NEW c \in Commands, HandlePostCommand(b, c)
      PROVE  TypeOK'
  BY <1>1, SetCommandLockedType DEF TypeOK, HandlePostCommand, files
<1>2. ASSUME NEW items \in SUBSET Items, NEW ok \in BOOLEAN,
             HandlePutCommands(items, ok)
      PROVE  TypeOK'
  BY <1>2 DEF TypeOK, HandlePutCommands, nvs, files
<1>3. ASSUME NEW b \in Buttons, HandleDeleteCommand(b)
      PROVE  TypeOK'
  BY <1>3 DEF TypeOK, HandleDeleteCommand, WithoutCommand, nvs, files
<1>4. ASSUME NEW b \in Buttons, NEW n \in UserNames, HandleSetButtonName(b, n)
      PROVE  TypeOK'
  BY <1>4 DEF TypeOK, HandleSetButtonName, Names, nvs, files
<1>5. ASSUME NEW b \in Buttons, HandleDeleteButtonName(b)
      PROVE  TypeOK'
  BY <1>5 DEF TypeOK, HandleDeleteButtonName, nvs, files
<1>6. ASSUME NEW v \in BOOLEAN, HandleSetGpioButtonIsEnabled(v)
      PROVE  TypeOK'
  BY <1>6 DEF TypeOK, HandleSetGpioButtonIsEnabled, ram, files
<1>7. CASE HandleClearAllData
  BY <1>7, OneIsAnId DEF TypeOK, HandleClearAllData, files
<1>8. ASSUME NEW item \in todo, LoadCommandItem(item)
      PROVE  TypeOK'
  <2>1. item[1] \in Buttons /\ item[2] \in Commands
    BY DEF TypeOK, Items
  <2> QED  BY <1>8, <2>1, SetCommandLockedType DEF TypeOK, LoadCommandItem, files
<1>9. CASE LoadCommandArrayEnd
  BY <1>9 DEF TypeOK, LoadCommandArrayEnd, nvs, files
<1>10. CASE ResetTable
  BY <1>10 DEF TypeOK, ResetTable, NoNames, nvs
<1>11. CASE SaveOpen
  BY <1>11 DEF TypeOK, SaveOpen, nvs
<1>12. CASE SaveWrite
  BY <1>12 DEF TypeOK, SaveWrite, Current, Image, nvs
<1>13. CASE SaveRemove
  BY <1>13 DEF TypeOK, SaveRemove, nvs
<1>14. CASE SaveRename
  BY <1>14 DEF TypeOK, SaveRename, nvs, files
<1>15. CASE Load
  <2>1. main \notin {Absent, Torn} =>
          main.names \in [Buttons -> Names \cup {NoName}] /\ main.commands \in SUBSET Items
    BY DEF TypeOK, Image
  <2> QED  BY <1>15, <2>1 DEF TypeOK, Load, Buttons, nvs, files
<1>16. ASSUME NEW item \in todo, LoadItem(item)
       PROVE  TypeOK'
  <2>1. item[1] \in Buttons /\ item[2] \in Commands
    BY DEF TypeOK, Items
  <2> QED  BY <1>16, <2>1, SetCommandLockedType DEF TypeOK, LoadItem, files
<1>17. CASE LoadEnd
  BY <1>17 DEF TypeOK, LoadEnd, Buttons, nvs, files
<1>18. CASE GpioSettingChanged
  BY <1>18 DEF TypeOK, GpioSettingChanged, Buttons, nvs, files
<1>19. ASSUME NEW b \in naming, NameHubButton(b)
       PROVE  TypeOK'
  BY <1>19 DEF TypeOK, NameHubButton, Names, nvs, files
<1>20. CASE NamingEnd
  BY <1>20, ZenonT(30) DEF TypeOK, NamingEnd, nvs, files
<1>21. CASE Reboot
  BY <1>21 DEF TypeOK, Reboot, NoNames, nvs, files
<1>22. CASE ProcessResetAllCommand
  BY <1>22, OneIsAnId DEF TypeOK, ProcessResetAllCommand, ram, files
<1> QED
  BY <1>0, <1>1, <1>2, <1>3, <1>4, <1>5, <1>6, <1>7, <1>8, <1>9, <1>10,
     <1>11, <1>12, <1>13, <1>14, <1>15, <1>16, <1>17, <1>18, <1>19, <1>20,
     <1>21, <1>22
     DEF Next, Request, Handler, LoopTask

(***************************************************************************)
(* Every state of the hub has the declared types (the whole module).       *)
(***************************************************************************)
THEOREM TypeInvariant == Spec => []TypeOK
<1>1. Init => TypeOK
  BY OneIsAnId DEF Init, TypeOK, NoNames
<1> QED  BY <1>1, TypeStep, PTL DEF Spec

-----------------------------------------------------------------------------
(* The inductive invariant                                                 *)

(***************************************************************************)
(* DeleteCommandLocked before push_back: one command for the button.       *)
(***************************************************************************)
LEMMA SetCommandLockedUnique ==
  ASSUME UniquePerButton(commands), NEW b, NEW c, SetCommandLocked(b, c)
  PROVE  UniquePerButton(commands')
BY DEF UniquePerButton, SetCommandLocked, WithoutCommand

(***************************************************************************)
(* The name SetCommandLocked gives out is neither in the table nor in the  *)
(* file, and the counter is past it afterwards.                            *)
(***************************************************************************)
LEMMA SetCommandLockedFresh ==
  ASSUME TypeOK, NEW b \in Buttons, NEW c \in Commands, SetCommandLocked(b, c),
         NEW ns \in [Buttons -> Names \cup {NoName}], AutoNamesFresh(ns),
         AutoNamesFresh(names)
  PROVE  /\ AutoNamesFresh(names)'
         /\ \A d \in Buttons : ns[d] \in Nat => ns[d] < nextButtonId'
<1>1. nextButtonId \in Nat
  BY BoundAssumption DEF TypeOK
<1>2. CASE names[b] # NoName
  BY <1>1, <1>2 DEF SetCommandLocked, AutoNamesFresh
<1>3. CASE names[b] = NoName
  <2>1. names' = [names EXCEPT ![b] = nextButtonId] /\ nextButtonId' = nextButtonId + 1
    BY <1>3 DEF SetCommandLocked
  <2>2. \A d \in Buttons : ns[d] \in Nat => ns[d] < nextButtonId'
    BY <1>1, <2>1 DEF AutoNamesFresh
  <2>3. ASSUME NEW d \in Buttons, names'[d] \in Nat
        PROVE  /\ names'[d] < nextButtonId'
               /\ \A e \in Buttons : names'[e] = names'[d] => e = d
    <3>1. CASE d = b
      BY <1>1, <2>1, <2>3, <3>1 DEF AutoNamesFresh, TypeOK
    <3>2. CASE d # b
      BY <1>1, <2>1, <2>3, <3>2 DEF AutoNamesFresh, TypeOK
    <3> QED  BY <3>1, <3>2
  <2> QED  BY <2>2, <2>3 DEF AutoNamesFresh
<1> QED  BY <1>2, <1>3

(***************************************************************************)
(* Steps that touch neither the table, nor the files, nor the counter keep *)
(* what is said of them.                                                   *)
(***************************************************************************)
LEMMA TableUntouched ==
  ASSUME IInv, UNCHANGED <<commands, names, main, nextButtonId, idsReset>>,
         tmp' \in {tmp, Torn}
  PROVE  OneCommandPerButton' /\ AutoNamesUnique'
<1>1. OneCommandPerButton'
  BY DEF IInv, OneCommandPerButton, IsImage, UniquePerButton
<1>2. AutoNamesUnique'
  BY DEF IInv, AutoNamesUnique, AutoNamesFresh, IsImage
<1> QED  BY <1>1, <1>2

(***************************************************************************)
(* Setting a command, wherever it comes from, keeps both properties of the *)
(* table.                                                                  *)
(***************************************************************************)
LEMMA SetCommandLockedStep ==
  ASSUME IInv, NEW b \in Buttons, NEW c \in Commands, SetCommandLocked(b, c),
         UNCHANGED <<files, idsReset>>
  PROVE  OneCommandPerButton' /\ AutoNamesUnique'
<1>1. OneCommandPerButton'
  BY SetCommandLockedUnique
     DEF IInv, OneCommandPerButton, IsImage, UniquePerButton, files
<1>2. AutoNamesUnique'
  <2> SUFFICES ASSUME ~idsReset'
               PROVE  /\ AutoNamesFresh(names)'
                      /\ IsImage(main)' => AutoNamesFresh(main.names)'
    BY DEF AutoNamesUnique
  <2>1. TypeOK /\ ~idsReset /\ main' = main /\ AutoNamesFresh(names)
    BY DEF IInv, AutoNamesUnique, files
  <2>2. names \in [Buttons -> Names \cup {NoName}]
    BY <2>1 DEF TypeOK
  <2>3. AutoNamesFresh(names)'
    BY <2>1, <2>2, SetCommandLockedFresh
  <2>4. ASSUME IsImage(main)'
        PROVE  AutoNamesFresh(main.names)'
    <3>1. IsImage(main) /\ main.names \in [Buttons -> Names \cup {NoName}]
      BY <2>1, <2>4 DEF IsImage, TypeOK, Image
    <3>2. AutoNamesFresh(main.names)
      BY <2>1, <3>1 DEF IInv, AutoNamesUnique
    <3>3. \A d \in Buttons : main.names[d] \in Nat => main.names[d] < nextButtonId'
      BY <2>1, <3>1, <3>2, SetCommandLockedFresh
    <3> QED  BY <2>1, <3>2, <3>3 DEF AutoNamesFresh
  <2> QED  BY <2>3, <2>4
<1> QED  BY <1>1, <1>2

(***************************************************************************)
(* A change of one name to a name that is not automatic, or to none.       *)
(***************************************************************************)
LEMMA RenameStep ==
  ASSUME IInv, NEW b \in Buttons, NEW n \in UserNames \cup {HubName, NoName},
         names' = [names EXCEPT ![b] = n],
         UNCHANGED <<nextButtonId, main, idsReset>>
  PROVE  AutoNamesUnique'
<1>1. n \notin Nat
  BY NameAssumption
<1>2. AutoNamesFresh(names) => AutoNamesFresh(names)'
  BY <1>1 DEF IInv, TypeOK, AutoNamesFresh
<1>3. IsImage(main) /\ AutoNamesFresh(main.names) =>
        IsImage(main)' /\ AutoNamesFresh(main.names)'
  BY DEF AutoNamesFresh, IsImage
<1> QED  BY <1>2, <1>3 DEF IInv, AutoNamesUnique, IsImage

(***************************************************************************)
(* Outside the boot nothing is being restored.                             *)
(***************************************************************************)
LEMMA NotRestoring ==
  ASSUME loop' # "loading"
  PROVE  Restoring'
BY DEF Restoring

(***************************************************************************)
(* A request finds the boot over and no save under way.                    *)
(***************************************************************************)
LEMMA RequestStep ==
  ASSUME IInv, Request
  PROVE  IInv'
<1> USE DEF Ready
<1>0. TypeOK' /\ Ready /\ loop' = loop /\ http' \in {"idle", "save", "put", "clear"}
      /\ main' = main /\ tmp' = tmp
  <2>1. TypeOK'
    BY TypeStep DEF IInv, Next
  <2> QED
    BY <2>1 DEF Request, HandlePostCommand, HandlePutCommands, HandleDeleteCommand,
       HandleSetButtonName, HandleDeleteButtonName, HandleSetGpioButtonIsEnabled,
       HandleClearAllData, ram, nvs, files
<1>1. BootAlone' /\ Saving' /\ Restoring'
  BY <1>0, NotRestoring DEF IInv, BootAlone, Saving
<1>2. OneCommandPerButton' /\ AutoNamesUnique'
  <2>1. ASSUME NEW b \in Buttons, NEW c \in Commands, HandlePostCommand(b, c)
        PROVE  OneCommandPerButton' /\ AutoNamesUnique'
    BY <2>1, SetCommandLockedStep DEF HandlePostCommand
  <2>2. ASSUME NEW items \in SUBSET Items, NEW ok \in BOOLEAN,
               HandlePutCommands(items, ok)
        PROVE  OneCommandPerButton' /\ AutoNamesUnique'
    BY <2>2 DEF HandlePutCommands, nvs, files, IInv, OneCommandPerButton,
       UniquePerButton, IsImage, AutoNamesUnique, AutoNamesFresh
  <2>3. ASSUME NEW b \in Buttons, HandleDeleteCommand(b)
        PROVE  OneCommandPerButton' /\ AutoNamesUnique'
    <3>1. OneCommandPerButton'
      BY <2>3 DEF HandleDeleteCommand, WithoutCommand, files, IInv,
         OneCommandPerButton, UniquePerButton, IsImage
    <3>2. AutoNamesUnique'
      <4>1. CASE b \in Beacons
        BY <2>3, <4>1, RenameStep DEF HandleDeleteCommand, nvs, files
      <4>2. CASE b \notin Beacons
        BY <2>3, <4>2 DEF HandleDeleteCommand, nvs, files, IInv, AutoNamesUnique,
           AutoNamesFresh, IsImage
      <4> QED  BY <4>1, <4>2
    <3> QED  BY <3>1, <3>2
  <2>4. ASSUME NEW b \in Buttons, NEW n \in UserNames, HandleSetButtonName(b, n)
        PROVE  OneCommandPerButton' /\ AutoNamesUnique'
    <3>1. AutoNamesUnique'
      BY <2>4, RenameStep DEF HandleSetButtonName, nvs, files
    <3> QED
      BY <2>4, <3>1 DEF HandleSetButtonName, files, IInv, OneCommandPerButton,
         UniquePerButton, IsImage
  <2>5. ASSUME NEW b \in Buttons, HandleDeleteButtonName(b)
        PROVE  OneCommandPerButton' /\ AutoNamesUnique'
    <3>1. AutoNamesUnique'
      BY <2>5, RenameStep DEF HandleDeleteButtonName, nvs, files
    <3> QED
      BY <2>5, <3>1 DEF HandleDeleteButtonName, files, IInv, OneCommandPerButton,
         UniquePerButton, IsImage
  <2>6. ASSUME NEW v \in BOOLEAN, HandleSetGpioButtonIsEnabled(v)
        PROVE  OneCommandPerButton' /\ AutoNamesUnique'
    BY <2>6, TableUntouched DEF HandleSetGpioButtonIsEnabled, ram, files
  <2>7. CASE HandleClearAllData
    BY <2>7 DEF HandleClearAllData, files, IInv, OneCommandPerButton,
       UniquePerButton, IsImage, AutoNamesUnique
  <2> QED
    BY <2>1, <2>2, <2>3, <2>4, <2>5, <2>6, <2>7 DEF Request
<1> QED  BY <1>0, <1>1, <1>2 DEF IInv

(***************************************************************************)
(* While a handler works its way through Save the table stays what it was, *)
(* so the file that is renamed is the table.                               *)
(***************************************************************************)
LEMMA HandlerStep ==
  ASSUME IInv, Handler
  PROVE  IInv'
<1>0. TypeOK' /\ loop' = loop /\ loop \notin {"load", "loading"}
  <2>1. TypeOK'
    BY TypeStep DEF IInv, Next
  <2> QED
    BY <2>1 DEF Handler, LoadCommandItem, LoadCommandArrayEnd, ResetTable, SaveOpen,
       SaveWrite, SaveRemove, SaveRename, IInv, BootAlone
<1>1. BootAlone' /\ Restoring'
  BY <1>0, NotRestoring DEF BootAlone
<1>2. Saving' /\ OneCommandPerButton' /\ AutoNamesUnique'
  <2>1. ASSUME NEW item \in todo, LoadCommandItem(item)
        PROVE  Saving' /\ OneCommandPerButton' /\ AutoNamesUnique'
    <3>1. item[1] \in Buttons /\ item[2] \in Commands
      BY DEF IInv, TypeOK, Items
    <3>2. Saving'
      BY <2>1 DEF LoadCommandItem, IInv, Saving, files
    <3> QED  BY <2>1, <3>1, <3>2, SetCommandLockedStep DEF LoadCommandItem
  <2>2. CASE LoadCommandArrayEnd
    BY <2>2, TableUntouched DEF LoadCommandArrayEnd, IInv, Saving, nvs, files
  <2>3. CASE ResetTable
    <3>1. Saving'
      BY <2>3, FileAssumption DEF ResetTable, IInv, Saving
    <3>2. OneCommandPerButton'
      BY <2>3 DEF ResetTable, IInv, OneCommandPerButton, UniquePerButton, IsImage
    <3>3. AutoNamesUnique'
      BY <2>3, NameAssumption
         DEF ResetTable, IInv, AutoNamesUnique, AutoNamesFresh, IsImage, NoNames, nvs
    <3> QED  BY <3>1, <3>2, <3>3
  <2>4. CASE SaveOpen
    BY <2>4, TableUntouched DEF SaveOpen, IInv, Saving, nvs
  <2>5. CASE SaveWrite
    <3>1. Saving'
      BY <2>5 DEF SaveWrite, IInv, Saving, Current
    <3>2. OneCommandPerButton'
      BY <2>5 DEF SaveWrite, IInv, OneCommandPerButton, UniquePerButton, IsImage, Current
    <3>3. AutoNamesUnique'
      BY <2>5 DEF SaveWrite, IInv, AutoNamesUnique, AutoNamesFresh, IsImage, nvs
    <3> QED  BY <3>1, <3>2, <3>3
  <2>6. CASE SaveRemove
    <3>1. Saving'
      BY <2>6, FileAssumption DEF SaveRemove, IInv, Saving, Current
    <3>2. OneCommandPerButton'
      BY <2>6 DEF SaveRemove, IInv, OneCommandPerButton, UniquePerButton, IsImage
    <3>3. AutoNamesUnique'
      BY <2>6 DEF SaveRemove, IInv, AutoNamesUnique, AutoNamesFresh, IsImage, nvs
    <3> QED  BY <3>1, <3>2, <3>3
  <2>7. CASE SaveRename
    <3>0. tmp = Current /\ Current \in Image
      BY <2>7 DEF SaveRename, IInv, Saving, TypeOK, Current, Image
    <3>1. Saving'
      BY <2>7, <3>0, FileAssumption DEF SaveRename, IInv, Saving, files
    <3>2. OneCommandPerButton'
      BY <2>7, <3>0
         DEF SaveRename, IInv, OneCommandPerButton, UniquePerButton, IsImage, files
    <3>3. AutoNamesUnique'
      BY <2>7, <3>0
         DEF SaveRename, IInv, AutoNamesUnique, AutoNamesFresh, IsImage, Current,
             nvs, files
    <3> QED  BY <3>1, <3>2, <3>3
  <2> QED
    BY <2>1, <2>2, <2>3, <2>4, <2>5, <2>6, <2>7 DEF Handler
<1> QED  BY <1>0, <1>1, <1>2 DEF IInv

(***************************************************************************)
(* The boot puts the stored commands back one by one; the stored table has *)
(* one command per button, so no item displaces another.                   *)
(***************************************************************************)
LEMMA LoadItemStep ==
  ASSUME IInv, NEW item \in todo, LoadItem(item)
  PROVE  IInv'
<1>1. TypeOK'
  BY TypeStep DEF IInv, Next, LoopTask
<1>2. PICK b \in Buttons, c \in Commands : item = <<b, c>>
  BY DEF IInv, TypeOK, Items
<1>3. SetCommandLocked(b, c)
  BY <1>2 DEF LoadItem
<1>4. OneCommandPerButton' /\ AutoNamesUnique'
  BY <1>3, SetCommandLockedStep DEF LoadItem
<1>5. BootAlone' /\ Saving'
  BY DEF LoadItem, IInv, BootAlone, Saving, files
<1>6. IsImage(main) /\ UniquePerButton(main.commands) /\ commands \cup todo = main.commands
  BY DEF LoadItem, IInv, Restoring, OneCommandPerButton
<1>7. commands' \cup todo' = main.commands
  <2>1. \A p \in commands : p[1] = b => p = item
    BY <1>2, <1>6 DEF UniquePerButton
  <2> QED
    BY <1>2, <1>3, <1>6, <2>1 DEF LoadItem, SetCommandLocked, WithoutCommand
<1>8. commands \subseteq commands'
  BY <1>2, <1>3, <1>6 DEF SetCommandLocked, WithoutCommand, UniquePerButton
<1>9. ASSUME NEW d \in Buttons, names'[d] # main.names[d]
      PROVE  main.names[d] = NoName /\ \E e \in Commands : <<d, e>> \in commands'
  <2>1. CASE names'[d] = names[d]
    BY <1>8, <1>9, <2>1 DEF LoadItem, IInv, Restoring
  <2>2. CASE names'[d] # names[d]
    <3>1. d = b /\ names[b] = NoName
      BY <1>3, <2>2 DEF SetCommandLocked, IInv, TypeOK
    <3>2. <<b, c>> \in commands'
      BY <1>3 DEF SetCommandLocked
    <3>3. CASE names[d] = main.names[d]
      BY <3>1, <3>2, <3>3
    <3>4. CASE names[d] # main.names[d]
      BY <1>8, <3>4 DEF LoadItem, IInv, Restoring
    <3> QED  BY <3>3, <3>4
  <2> QED  BY <2>1, <2>2
<1>10. Restoring'
  BY <1>6, <1>7, <1>9 DEF Restoring, LoadItem, IsImage, files
<1> QED  BY <1>1, <1>4, <1>5, <1>10 DEF IInv

LEMMA LoopTaskStep ==
  ASSUME IInv, LoopTask
  PROVE  IInv'
<1>0. TypeOK'
  BY TypeStep DEF IInv, Next
<1>1. CASE Load
  <2>1. BootAlone' /\ Saving'
    BY <1>1 DEF Load, IInv, BootAlone, Saving, files
  <2>2. OneCommandPerButton'
    BY <1>1 DEF Load, IInv, OneCommandPerButton, UniquePerButton, IsImage, files
  <2>3. AutoNamesUnique'
    BY <1>1 DEF Load, IInv, AutoNamesUnique, AutoNamesFresh, IsImage, nvs, files
  <2>4. Restoring'
    BY <1>1 DEF Load, Restoring, IsImage, files
  <2> QED  BY <1>0, <2>1, <2>2, <2>3, <2>4 DEF IInv
<1>2. ASSUME NEW item \in todo, LoadItem(item)
      PROVE  IInv'
  BY <1>2, LoadItemStep
<1>3. CASE LoadEnd
  BY <1>0, <1>3, TableUntouched, NotRestoring
     DEF LoadEnd, IInv, BootAlone, Saving, nvs, files
<1>4. CASE GpioSettingChanged
  <2>1. BootAlone' /\ Saving' /\ loop' # "loading"
    BY <1>4 DEF GpioSettingChanged, IInv, BootAlone, Saving, Current, files
  <2> QED
    BY <1>0, <1>4, <2>1, TableUntouched, NotRestoring
       DEF GpioSettingChanged, IInv, nvs, files
<1>5. ASSUME NEW b \in naming, NameHubButton(b)
      PROVE  IInv'
  <2>1. BootAlone' /\ Saving' /\ loop' # "loading"
    BY <1>5 DEF NameHubButton, Locked, IInv, BootAlone, Saving, files
  <2>2. OneCommandPerButton'
    BY <1>5 DEF NameHubButton, IInv, OneCommandPerButton, UniquePerButton, IsImage, files
  <2>3. b \in Buttons
    BY DEF IInv, TypeOK
  <2>4. AutoNamesUnique'
    <3>1. PICK n \in {HubName, NoName} : names' = [names EXCEPT ![b] = n]
      BY <1>5 DEF NameHubButton
    <3> QED  BY <1>5, <2>3, <3>1, RenameStep DEF NameHubButton, nvs, files
  <2> QED  BY <1>0, <2>1, <2>2, <2>4, NotRestoring DEF IInv
<1>6. CASE NamingEnd
  <2>1. BootAlone' /\ Saving' /\ loop' # "loading"
    BY <1>6 DEF NamingEnd, IInv, BootAlone, Saving, Current, files
  <2> QED
    BY <1>0, <1>6, <2>1, TableUntouched, NotRestoring DEF NamingEnd, IInv, nvs, files
<1> QED  BY <1>1, <1>2, <1>3, <1>4, <1>5, <1>6 DEF LoopTask

(***************************************************************************)
(* Every step of the hub keeps the inductive invariant.                    *)
(***************************************************************************)
LEMMA InvariantStep ==
  ASSUME IInv, [Next]_vars
  PROVE  IInv'
<1>0. TypeOK'
  BY TypeStep DEF IInv
<1>1. CASE Request
  BY <1>1, RequestStep
<1>2. CASE Handler
  BY <1>2, HandlerStep
<1>3. CASE LoopTask
  BY <1>3, LoopTaskStep
<1>4. CASE Reboot
  <2>1. BootAlone' /\ Saving' /\ Restoring'
    BY <1>4 DEF Reboot, IInv, BootAlone, Saving, Restoring, files
  <2>2. OneCommandPerButton'
    BY <1>4 DEF Reboot, IInv, OneCommandPerButton, UniquePerButton, IsImage, files
  <2>3. AutoNamesUnique'
    BY <1>4, NameAssumption
       DEF Reboot, IInv, AutoNamesUnique, AutoNamesFresh, IsImage, NoNames, nvs, files
  <2> QED  BY <1>0, <2>1, <2>2, <2>3 DEF IInv
<1>5. CASE ProcessResetAllCommand
  <2>1. BootAlone' /\ Saving' /\ Restoring'
    BY <1>5 DEF ProcessResetAllCommand, IInv, BootAlone, Saving, Restoring, Current,
       ram, files
  <2>2. OneCommandPerButton' /\ AutoNamesUnique'
    BY <1>5 DEF ProcessResetAllCommand, IInv, OneCommandPerButton, UniquePerButton,
       IsImage, AutoNamesUnique, ram, files
  <2> QED  BY <1>0, <2>1, <2>2 DEF IInv
<1>6. CASE UNCHANGED vars
  <2>1. BootAlone' /\ Saving' /\ Restoring'
    BY <1>6 DEF IInv, BootAlone, Saving, Restoring, IsImage, Current, vars, ram, files
  <2> QED
    BY <1>0, <1>6, <2>1, TableUntouched DEF IInv, vars, ram, nvs, files
<1> QED  BY <1>1, <1>2, <1>3, <1>4, <1>5, <1>6 DEF Next

(***************************************************************************)
(* The inductive invariant holds in every state.                           *)
(***************************************************************************)
THEOREM Invariance == Spec => []IInv
<1>1. Init => IInv
  <2> SUFFICES ASSUME Init
               PROVE  IInv
    OBVIOUS
  <2>1. TypeOK
    BY OneIsAnId DEF Init, TypeOK, NoNames
  <2>2. BootAlone /\ Saving /\ Restoring
    BY FileAssumption DEF Init, BootAlone, Saving, Restoring
  <2>3. OneCommandPerButton
    BY DEF Init, OneCommandPerButton, UniquePerButton, IsImage
  <2>4. AutoNamesUnique
    BY NameAssumption DEF Init, AutoNamesUnique, AutoNamesFresh, NoNames, IsImage
  <2> QED  BY <2>1, <2>2, <2>3, <2>4 DEF IInv
<1> QED  BY <1>1, InvariantStep, PTL DEF Spec

-----------------------------------------------------------------------------
(* The properties                                                          *)

(***************************************************************************)
(* Neither the table nor a file holds two commands for one button          *)
(* (SetCommandLocked, Save, Load).                                         *)
(***************************************************************************)
THEOREM OneCommand == Spec => []OneCommandPerButton
<1>1. IInv => OneCommandPerButton
  BY DEF IInv
<1> QED  BY <1>1, Invariance, PTL

(***************************************************************************)
(* No automatic name is given out twice while the counter has not been     *)
(* reset behind the table's back (GetNextButtonId, Save, Load, Reset).     *)
(***************************************************************************)
THEOREM NoAutoNameTwice == Spec => []AutoNamesUnique
<1>1. IInv => AutoNamesUnique
  BY DEF IInv
<1> QED  BY <1>1, Invariance, PTL

(***************************************************************************)
(* When Load returns every stored command and name is back.                *)
(***************************************************************************)
THEOREM StoredIsRestored == Spec => RestoresStored
<1>1. ASSUME IInv, [Next]_vars, loop = "loading", loop' = "hubnames"
      PROVE  /\ commands = main.commands
             /\ \A b \in Buttons :
                  names[b] # main.names[b] =>
                    main.names[b] = NoName /\ \E c \in Commands : <<b, c>> \in commands
  <2>1. LoadEnd
    <3>1. ~Request /\ ~Handler
      BY <1>1 DEF IInv, BootAlone, Request, Handler, Ready, HandlePostCommand,
         HandlePutCommands, HandleDeleteCommand, HandleSetButtonName,
         HandleDeleteButtonName, HandleSetGpioButtonIsEnabled, HandleClearAllData,
         LoadCommandItem, LoadCommandArrayEnd, ResetTable, SaveOpen, SaveWrite,
         SaveRemove, SaveRename
    <3>2. ~Reboot /\ ~ProcessResetAllCommand /\ ~UNCHANGED vars
      BY <1>1 DEF Reboot, ProcessResetAllCommand, vars, ram
    <3> QED
      BY <1>1, <3>1, <3>2 DEF Next, LoopTask, Load, LoadItem, GpioSettingChanged,
         NameHubButton, NamingEnd
  <2> QED  BY <1>1, <2>1 DEF LoadEnd, IInv, Restoring
<1>2. IInv /\ [Next]_vars => [LoadedAsStored]_vars
  BY <1>1 DEF LoadedAsStored
<1> QED  BY <1>2, Invariance, PTL DEF Spec, RestoresStored
-----------------------------------------------------------------------------
(* The abstract specification                                              *)

Stored == IF Swapping THEN tmp ELSE main

(***************************************************************************)
(* A step that leaves the files alone and opens no swap edits the table or *)
(* does nothing.                                                           *)
(***************************************************************************)
LEMMA EditStep ==
  ASSUME ~Swapping, ~Swapping', main' = main
  PROVE  [Durable!Next]_(Durable!vars)
<1>1. Stored' = Stored
  BY DEF Stored
<1> QED  BY <1>1 DEF Durable!Next, Durable!Edit, Stored, Swapping

(***************************************************************************)
(* A step that leaves the table, the files and Save alone is none.         *)
(***************************************************************************)
LEMMA StutterStep ==
  ASSUME UNCHANGED <<commands, names, http, main, tmp>>
  PROVE  [Durable!Next]_(Durable!vars)
BY DEF Durable!vars, Swapping, Current

LEMMA HandlerImplements ==
  ASSUME IInv, Handler
  PROVE  [Durable!Next]_(Durable!vars)
<1>1. ASSUME NEW item \in todo, LoadCommandItem(item)
      PROVE  [Durable!Next]_(Durable!vars)
  BY <1>1, EditStep DEF LoadCommandItem, Swapping, files
<1>2. CASE LoadCommandArrayEnd
  BY <1>2, EditStep DEF LoadCommandArrayEnd, Swapping, files
<1>3. CASE ResetTable
  <2>1. ~Swapping /\ ~Swapping' /\ Current' = Blank
    BY <1>3 DEF ResetTable, Swapping, Current, Blank
  <2>2. CASE main' = Absent
    BY <2>1, <2>2 DEF Durable!Next, Durable!Erase, Swapping
  <2>3. CASE main' = main
    BY <2>1, <2>3, EditStep
  <2> QED  BY <1>3, <2>2, <2>3 DEF ResetTable
<1>4. CASE SaveOpen
  BY <1>4, EditStep DEF SaveOpen, Swapping
<1>5. CASE SaveWrite
  BY <1>5, EditStep DEF SaveWrite, Swapping
<1>6. CASE SaveRemove
  <2>1. ~Swapping /\ tmp' = Current /\ Current' = Current
    BY <1>6 DEF SaveRemove, IInv, Saving, Swapping, Current
  <2>2. CASE main' = Absent
    <3>1. Swapping'
      BY <1>6, <2>2 DEF SaveRemove, Swapping
    <3> QED  BY <2>1, <3>1 DEF Durable!Next, Durable!Commit
  <2>3. CASE main' # Absent
    BY <1>6, <2>1, <2>3, EditStep DEF SaveRemove, Swapping
  <2> QED  BY <2>2, <2>3
<1>7. CASE SaveRename
  <2>1. ~Swapping' /\ Current' = Current
    BY <1>7 DEF SaveRename, Swapping, Current
  <2>2. CASE main = Absent /\ main' = tmp
    <3>1. Swapping
      BY <1>7, <2>2 DEF SaveRename, Swapping
    <3> QED  BY <2>1, <2>2, <3>1 DEF Durable!Next, Durable!Finish
  <2>3. CASE main = Absent /\ main' = main
    <3>1. Swapping
      BY <1>7, <2>3 DEF SaveRename, Swapping
    <3> QED  BY <2>1, <2>3, <3>1 DEF Durable!Next, Durable!Spoil
  <2>4. CASE main # Absent
    BY <1>7, <2>1, <2>4, EditStep DEF SaveRename, Swapping, files
  <2> QED  BY <1>7, <2>2, <2>3, <2>4 DEF SaveRename, files
<1> QED  BY <1>1, <1>2, <1>3, <1>4, <1>5, <1>6, <1>7 DEF Handler

LEMMA LoopTaskImplements ==
  ASSUME IInv, LoopTask
  PROVE  [Durable!Next]_(Durable!vars)
<1>1. CASE Load
  BY <1>1, EditStep DEF Load, IInv, BootAlone, Swapping, files
<1>2. ASSUME NEW item \in todo, LoadItem(item)
      PROVE  [Durable!Next]_(Durable!vars)
  BY <1>2, EditStep DEF LoadItem, IInv, BootAlone, Swapping, files
<1>3. CASE LoadEnd
  BY <1>3, StutterStep DEF LoadEnd, files
<1>4. CASE GpioSettingChanged
  BY <1>4, StutterStep DEF GpioSettingChanged, files
<1>5. ASSUME NEW b \in naming, NameHubButton(b)
      PROVE  [Durable!Next]_(Durable!vars)
  BY <1>5, EditStep DEF NameHubButton, Locked, Swapping, files
<1>6. CASE NamingEnd
  BY <1>6, StutterStep DEF NamingEnd, files
<1> QED  BY <1>1, <1>2, <1>3, <1>4, <1>5, <1>6 DEF LoopTask

(***************************************************************************)
(* The table and its file implement DurableTable: a boot finds a table     *)
(* that was in RAM as a whole, or none (Save, Load, Reset).                *)
(***************************************************************************)
THEOREM Refinement == Spec => ImplementsDurable
<1>1. Init => Durable!Init
  BY DEF Init, Durable!Init, Swapping, Current, Blank
<1>2. IInv /\ [Next]_vars => [Durable!Next]_(Durable!vars)
  <2> SUFFICES ASSUME IInv, [Next]_vars
               PROVE  [Durable!Next]_(Durable!vars)
    OBVIOUS
  <2>1. CASE Request
    <3>1. ~Swapping /\ ~Swapping' /\ main' = main
      BY <2>1 DEF Request, HandlePostCommand, HandlePutCommands, HandleDeleteCommand,
         HandleSetButtonName, HandleDeleteButtonName, HandleSetGpioButtonIsEnabled,
         HandleClearAllData, Ready, Swapping, ram, files
    <3> QED  BY <3>1, EditStep
  <2>2. CASE Handler
    BY <2>2, HandlerImplements
  <2>3. CASE LoopTask
    BY <2>3, LoopTaskImplements
  <2>4. CASE Reboot
    <3>1. ~Swapping' /\ Current' = Blank /\ main' = main
      BY <2>4 DEF Reboot, Swapping, Current, Blank, files
    <3> QED  BY <3>1 DEF Durable!Next, Durable!Reboot, Swapping
  <2>5. CASE ProcessResetAllCommand
    BY <2>5, StutterStep DEF ProcessResetAllCommand, ram, files
  <2>6. CASE UNCHANGED vars
    BY <2>6, StutterStep DEF vars, ram, files
  <2> QED  BY <2>1, <2>2, <2>3, <2>4, <2>5, <2>6 DEF Next
<1> QED  BY <1>1, <1>2, Invariance, PTL DEF Spec, ImplementsDurable, Durable!Spec

=============================================================================
