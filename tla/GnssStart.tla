----------------------------- MODULE GnssStart ------------------------------
(***************************************************************************)
(* How the GNSS driver starts: the family of receivers, the configuration  *)
(* items it knows (a file of the user's, the family's file, the file of    *)
(* the default family or the whole static map), the start arguments among  *)
(* them, and the receiver it opens, at the start and whenever one is       *)
(* plugged in.                                                             *)
(***************************************************************************)
EXTENDS Naturals, Sequences, FiniteSets

CONSTANTS StaticItems,   \* ubxKeyCfgItemMap
          MinItems,      \* fewer items are taken for an error
          FileContents,  \* what a file can hold: a set of names, or Broken
          Broken,        \* a file that is missing or cannot be parsed
          FamilyArgs,    \* DEVICE_FAMILY arguments
          ArgItems,      \* names of the CFG start arguments
          UsbLists,      \* receivers that can be plugged in, as libusb lists them
          SerialArgs,    \* DEVICE_SERIAL_STRING arguments, NoSerial among them
          NoSerial,      \* the empty string
          MaxOpens       \* bound on how often a receiver is opened

\* DEVICE_FAMILY_MAP: the products of a family, two of which are UARTs with a
\* serial number from the factory.
Products == [F9P |-> {"01a9"}, F9R |-> {"01a9"}, X20P |-> {"01ab", "050c", "050d"}]
FactorySerial == {"050c", "050d"}

ASSUME StartAssumption ==
    /\ MinItems \in Nat \ {0} /\ MinItems <= Cardinality(StaticItems) /\ MaxOpens \in Nat
    /\ Broken \in FileContents /\ NoSerial \in SerialArgs

VARIABLES
    startStep,   \* how far the constructor has come
    files,       \* the files: the user's and those of the families
    customFile,  \* UBX_CONFIG_FILE is given
    family,      \* device_family_
    itemMap,     \* loaded_config_map_
    source,      \* loaded_config_family_ or the user's file
    startItems,  \* start arguments in the parameter cache
    wanted,      \* DEVICE_SERIAL_STRING (not a variable of the code)
    serialStr,   \* serial_str_ of the connection
    opened,      \* the receiver opened last
    opens        \* how often one was opened

startVars == <<startStep, files, customFile, family, itemMap, source, startItems, wanted, serialStr,
               opened, opens>>
loaded == <<itemMap, source>>
inputs == <<files, customFile, wanted>>
usbOpen == <<serialStr, opened, opens>>

StartInit ==
    /\ startStep = "family"
    /\ files \in [{"custom"} \union DOMAIN Products -> FileContents]
    /\ customFile \in BOOLEAN /\ wanted \in SerialArgs
    /\ family = "F9P" /\ itemMap = {} /\ source = "none" /\ startItems = {}
    /\ serialStr = NoSerial /\ opened = <<>> /\ opens = 0

-----------------------------------------------------------------------------
\* check_for_device_family_param(): a family that is not known becomes F9P.
CheckFamily ==
    /\ startStep = "family" /\ startStep' = "load"
    /\ \E arg \in FamilyArgs : family' = IF arg \in DOMAIN Products THEN arg ELSE "F9P"
    /\ serialStr' = wanted
    /\ UNCHANGED <<inputs, loaded, startItems, opened, opens>>

\* Mutant: names that no item has are let through.
MutLoads(file) == file # Broken /\ Cardinality(file) >= MinItems

\* load_from_toml(), which throws otherwise.
Loads(file) == file # Broken /\ file \subseteq StaticItems /\ Cardinality(file) >= MinItems

\* load_ubx_config(): each priority is tried when those before it have thrown.
Priorities == (IF customFile THEN <<"custom">> ELSE <<>>) \o <<family, "F9P">>

LoadConfig ==
    /\ startStep = "load" /\ startStep' = "validate"
    /\ \/ \E i \in DOMAIN Priorities :
            /\ Loads(files[Priorities[i]])
            /\ \A j \in 1 .. i - 1 : ~Loads(files[Priorities[j]])
            /\ itemMap' = files[Priorities[i]] /\ source' = Priorities[i]
       \/ /\ \A i \in DOMAIN Priorities : ~Loads(files[Priorities[i]])
          /\ itemMap' = StaticItems /\ source' = "static"
    /\ UNCHANGED <<inputs, family, startItems, usbOpen>>

\* A start argument for an item that is not loaded is ignored.
ValidateArgs ==
    /\ startStep = "validate" /\ startStep' = "running"
    /\ startItems' = ArgItems \intersect itemMap
    /\ UNCHANGED <<inputs, family, loaded, usbOpen>>

-----------------------------------------------------------------------------
(* open_device(), for whatever is plugged in. *)

\* open_device_with_serial_string(): the first product of the family that has the
\* serial number.
Matches(d) ==
    /\ d.product \in Products[family]
    /\ serialStr = NoSerial \/ d.serial = serialStr

\* A receiver whose serial number cannot be read is an error only where the
\* factory sets it.
Unreadable(d) == d.product \in Products[family] \intersect FactorySerial /\ d.serial = NoSerial

OpenDevice ==
    /\ startStep = "running" /\ opens < MaxOpens
    /\ \E list \in UsbLists : \E i \in DOMAIN list :
         /\ Matches(list[i])
         /\ \A j \in 1 .. i - 1 : ~Matches(list[j])
         /\ \A j \in 1 .. i : ~Unreadable(list[j])
         \* Its interfaces may not be the ones expected, or not be claimed, and
         \* those of a UART are refused in the end.
         /\ opened' \in IF list[i].product \in FactorySerial THEN {<<>>} ELSE {<<list[i]>>, <<>>}
         \* The connection keeps the serial number of a UART all the same.
         /\ serialStr' = IF family = "X20P" /\ list[i].product \in FactorySerial
                         THEN list[i].serial ELSE serialStr
    /\ opens' = opens + 1
    /\ UNCHANGED <<startStep, inputs, family, loaded, startItems>>

\* Nothing matches, or libusb reports an error.
OpenFails ==
    /\ startStep = "running" /\ opens < MaxOpens
    /\ opens' = opens + 1 /\ opened' = <<>>
    /\ UNCHANGED <<startStep, inputs, family, loaded, startItems, serialStr>>

StartNext == CheckFamily \/ LoadConfig \/ ValidateArgs \/ OpenDevice \/ OpenFails

-----------------------------------------------------------------------------
StartTypeOK ==
    /\ startStep \in {"family", "load", "validate", "running"}
    /\ family \in DOMAIN Products
    /\ source \in {"none", "custom", "static"} \union DOMAIN Products
    /\ serialStr \in SerialArgs \union UNION {{list[i].serial : i \in DOMAIN list} : list \in UsbLists}

Usable(file) ==
    files[file] # Broken /\ files[file] \ StaticItems = {} /\ Cardinality(files[file]) >= MinItems

\* Whichever files are missing or wrong, the driver runs with a map of items it
\* can translate, of at least the least size, no start argument is outside it,
\* a usable file of the user's is never passed over, and the receiver opened is
\* one of the family's and, when a serial number was asked for, the one asked for.
StartsConfigured ==
    /\ startStep \in {"validate", "running"} =>
         /\ itemMap \subseteq StaticItems /\ Cardinality(itemMap) >= MinItems
         /\ startItems \subseteq itemMap
         /\ customFile /\ Usable("custom") => source = "custom"
         /\ source \in {"F9P", "static"} /\ family # "F9P" => ~Usable(family)
    /\ \A i \in DOMAIN opened :
         /\ opened[i].product \in Products[family]
         /\ wanted # NoSerial => opened[i].serial = wanted
=============================================================================
