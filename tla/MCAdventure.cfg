SPECIFICATION Spec
CONSTANTS
  Objects <- MCObjects
  Entities <- MCEntities
  Locations <- MCLocations
  object_name <- object_names
  entity_name <- entity_names
  exits <- MCExits
  InitialEntities <- StartEntities
  InitialLocations <- StartLocations
  location_max_objects = 3
  location_max_entities = 3
  entity_max_objects = 3
  Lines <- MCLines
  UintModulus = 4294967
INVARIANTS ObjectInOnePlace EntityWhereItSays ToldAsItIs
PROPERTIES MovesAreLegal WhatIsToldWorks
VIEW used_lists
