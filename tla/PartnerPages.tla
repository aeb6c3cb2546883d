----------------------------- MODULE PartnerPages -----------------------------
(***************************************************************************)
(* The pages of the web client about customers, suppliers, supplier        *)
(* categories and users.  The terms are those of DocumentPages.            *)
(***************************************************************************)
EXTENDS DocumentPages

\* create needs no row; a deactivated partner can still be updated.
PartnerMoves ==
  {<<"create", "none", "plain">>, <<"update", "plain", "renamed">>,
   <<"update", "renamed", "renamed">>, <<"update", "gone", "gone">>,
   <<"delete", "plain", "gone">>, <<"delete", "renamed", "gone">>,
   <<"delete", "gone", "gone">>}

\* A NIF that another partner has, a category that is gone; a partner with invoices.
PartnerRefusals == {"create", "update", "delete"}

\* Active partners only; a search, and for suppliers a category.
PartnerFindAll ==
  [all |-> {"plain", "renamed"}, search |-> {"plain"}, category |-> {"renamed"}]

\* findOne also finds a deactivated partner.
PartnerFindOne == [all |-> {"plain", "renamed", "gone"}]

CategoryMoves ==
  {<<"create", "none", "plain">>, <<"update", "plain", "renamed">>,
   <<"update", "renamed", "renamed">>,
   <<"delete", "plain", "gone">>, <<"delete", "renamed", "gone">>}

\* A name that another category has; a category in use.
CategoryRefusals == {"create", "update", "delete"}

UserMoves ==
  {<<"create", "none", "active">>, <<"update", "active", "active">>,
   <<"update", "inactive", "inactive">>,
   <<"deactivate", "active", "inactive">>, <<"deactivate", "inactive", "inactive">>,
   <<"activate", "inactive", "active">>, <<"activate", "active", "active">>,
   <<"delete", "active", "gone">>, <<"delete", "inactive", "gone">>}

\* A username that is taken; one's own account, a user with documents, the last
\* active administrator.
UserRefusals == {"create", "delete"}

UserFindAll == [all |-> {"active", "inactive"}, search |-> {"active"}]

-----------------------------------------------------------------------------
(* CustomersPage *)

CustomersEffect == Cancelling

CustomersFetchPage == Fetching

CustomersFilters == [turns |-> "page1", choices |-> {"all", "search"}]

\* A failure of create and update is the form's to show.
CustomersHandleCreate ==
  [Submitted EXCEPT !.ok = {"closeForm", "first"}, !.fetch = "first"]

CustomersHandleUpdate == Submitted

CustomersHandleDelete ==
  [Confirmed EXCEPT !.fail = {"error", "close", "ready"}]

CustomerTable == [s \in {"plain", "renamed"} |-> {"update", "delete"}]

\* Every button of the pager sets the spinner and leaves its end to the effect.
CustomersPager == [spins |-> TRUE, single |-> TRUE, all |-> TRUE]

CustomersDialogs == [delete |-> "isDeleting"]

CustomersPage ==
  [kind |-> "list", moves |-> PartnerMoves, refusals |-> PartnerRefusals,
   findAll |-> PartnerFindAll,
   effect |-> CustomersEffect, fetch |-> CustomersFetchPage, filters |-> CustomersFilters,
   handlers |-> [create |-> CustomersHandleCreate, update |-> CustomersHandleUpdate,
                 delete |-> CustomersHandleDelete],
   buttons |-> CustomerTable, header |-> {"create"}, pager |-> CustomersPager,
   flags |-> CustomersDialogs]

-----------------------------------------------------------------------------
(* SuppliersPage *)

SuppliersEffect == Cancelling

SuppliersFetchPage == Fetching

SuppliersFilters == [turns |-> "page1", choices |-> {"all", "search", "category"}]

SuppliersHandleCreate ==
  [Submitted EXCEPT !.ok = {"closeForm", "first"}, !.fetch = "first"]

SuppliersHandleUpdate == Submitted

SuppliersHandleDelete ==
  [Confirmed EXCEPT !.fail = {"error", "close", "ready"}]

SupplierTable == [s \in {"plain", "renamed"} |-> {"update", "delete"}]

SuppliersPager == [spins |-> TRUE, single |-> TRUE, all |-> TRUE]

SuppliersDialogs == [delete |-> "isDeleting"]

SuppliersPage ==
  [kind |-> "list", moves |-> PartnerMoves, refusals |-> PartnerRefusals,
   findAll |-> PartnerFindAll,
   effect |-> SuppliersEffect, fetch |-> SuppliersFetchPage, filters |-> SuppliersFilters,
   handlers |-> [create |-> SuppliersHandleCreate, update |-> SuppliersHandleUpdate,
                 delete |-> SuppliersHandleDelete],
   buttons |-> SupplierTable, header |-> {"create"}, pager |-> SuppliersPager,
   flags |-> SuppliersDialogs]

-----------------------------------------------------------------------------
(* UsersPage *)

UsersEffect == Cancelling

\* handleCreated and handleUpdated read the list like fetchPage elsewhere.
UsersFetch == Fetching

UsersSearch == [turns |-> "page1", choices |-> {"all", "search"}]

\* The form stays open, with the generated password; page 1 is read first
\* and chosen afterwards.
UsersHandleCreated ==
  [Submitted EXCEPT !.ok = {}, !.fetch = "first", !.last = {"first"}]

\* handleUpdated: closes whatever form is open, and says so before reading.
UsersHandleUpdated == Submitted

UsersToggleActive ==
  [Submitted EXCEPT !.asks = "no", !.start = {"clear"}, !.fail = {"error"}]

UsersHandleDelete ==
  [Confirmed EXCEPT !.start = {"clear"}, !.ok = {"close", "closeForm"}]

\* The button in the column isActive sends the opposite of the row shown.
UsersTable ==
  [active |-> {"deactivate", "update", "delete"},
   inactive |-> {"activate", "update", "delete"}]

\* No pager at all when there is one page.
UsersPager == [spins |-> FALSE, single |-> FALSE, all |-> TRUE]

UsersDialogs == [delete |-> "isDeleting"]

UsersPage ==
  [kind |-> "list", moves |-> UserMoves, refusals |-> UserRefusals,
   findAll |-> UserFindAll,
   effect |-> UsersEffect, fetch |-> UsersFetch, filters |-> UsersSearch,
   handlers |-> [create |-> UsersHandleCreated, update |-> UsersHandleUpdated,
                 deactivate |-> UsersToggleActive, activate |-> UsersToggleActive,
                 delete |-> UsersHandleDelete],
   buttons |-> UsersTable, header |-> {"create"}, pager |-> UsersPager,
   flags |-> UsersDialogs]

-----------------------------------------------------------------------------
(* SupplierCategoriesPage: all categories on one page, no filter. *)

CategoriesEffect == Cancelling

\* refresh: no spinner; success clears the message.
CategoriesRefresh == [starts |-> FALSE, ends |-> FALSE, clears |-> "ok", cancels |-> FALSE]

\* The modal closes itself once onSubmit, and with it the refresh, has ended.
CategoriesHandleSubmit ==
  [Submitted EXCEPT !.ok = {}, !.last = {"closeForm"}]

CategoriesHandleDelete == [Confirmed EXCEPT !.start = {"clear"}]

CategoriesTable == [s \in {"plain", "renamed"} |-> {"update", "delete"}]

CategoriesPage ==
  [kind |-> "whole", moves |-> CategoryMoves, refusals |-> CategoryRefusals,
   findAll |-> [all |-> {"plain", "renamed"}],
   effect |-> CategoriesEffect, fetch |-> CategoriesRefresh,
   filters |-> [turns |-> "no", choices |-> {"all"}],
   handlers |-> [create |-> CategoriesHandleSubmit, update |-> CategoriesHandleSubmit,
                 delete |-> CategoriesHandleDelete],
   buttons |-> CategoriesTable, header |-> {"create"}, pager |-> NoPager,
   flags |-> [delete |-> "isDeleting"]]

-----------------------------------------------------------------------------
(* CustomerDetailPage and SupplierDetailPage *)

CustomerDetailLoad == Loading

CustomerDetailHandleUpdate == Submitted

\* A failed delete leaves the page in the state of a failed load.
CustomerDetailHandleDelete == Leaving

CustomerDetailButtons ==
  [s \in {"plain", "renamed", "gone"} |-> {"update", "delete"}]

CustomerDetailPage ==
  [kind |-> "one", moves |-> PartnerMoves, refusals |-> PartnerRefusals,
   findAll |-> PartnerFindOne,
   effect |-> CustomerDetailLoad, fetch |-> CustomerDetailLoad,
   filters |-> NoFilters,
   handlers |-> [update |-> CustomerDetailHandleUpdate,
                 delete |-> CustomerDetailHandleDelete],
   buttons |-> CustomerDetailButtons, header |-> {}, pager |-> NoPager,
   flags |-> [delete |-> "isDeleting"]]

SupplierDetailLoad == Loading

SupplierDetailHandleUpdate == Submitted

SupplierDetailHandleDelete == Leaving

SupplierDetailButtons ==
  [s \in {"plain", "renamed", "gone"} |-> {"update", "delete"}]

SupplierDetailPage ==
  [kind |-> "one", moves |-> PartnerMoves, refusals |-> PartnerRefusals,
   findAll |-> PartnerFindOne,
   effect |-> SupplierDetailLoad, fetch |-> SupplierDetailLoad,
   filters |-> NoFilters,
   handlers |-> [update |-> SupplierDetailHandleUpdate,
                 delete |-> SupplierDetailHandleDelete],
   buttons |-> SupplierDetailButtons, header |-> {}, pager |-> NoPager,
   flags |-> [delete |-> "isDeleting"]]
=============================================================================
