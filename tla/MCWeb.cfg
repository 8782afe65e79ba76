SPECIFICATION MCSpec
CONSTANTS
  Words = {"", "a", "ab", "cd"}
  LongWords = {"ab", "cd"}
  Categories = {"milk", "bread"}
  Options = {"o1"}
  Sorts = {"price_asc", "price_desc"}
  Entries <- MCEntries
  Links = {"bread"}
  ItemCategory = "milk"
  PageSize = 2
  Total <- MCTotal
  MaxActs = 4
  MaxEntries = 3
INVARIANTS
  PageIsOfItsAddress
PROPERTIES
  PagesAgree
  WhatWasSeenStays
  SiteSettles
CHECK_DEADLOCK FALSE
